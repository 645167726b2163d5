---------------------------- MODULE CsvFileProofs ----------------------------
(***************************************************************************)
(* For every table, number of columns, form of the file, projection and    *)
(* number of readers: a file that COPY TO wrote is read cell for cell, by  *)
(* COPY FROM and by a query over any number of threads, unless a cell is   *)
(* one that is misread.  The argument follows the bytes: the lines of the  *)
(* file are laid out one behind the other, the fields in a line; the range *)
(* of a reader begins with a line; and a reader that has come to a row has *)
(* the rows of its range up to there.                                      *)
(***************************************************************************)
EXTENDS CsvFile, SequenceLemmas, FiniteSetTheorems

-----------------------------------------------------------------------------
(* Sequences, one behind the other                                         *)

(* Numbers that do not get smaller from one to the next.                   *)
LEMMA Growing ==
  ASSUME NEW N \in Nat, NEW o, \A n \in 0 .. N : o[n] \in Nat,
         \A n \in 1 .. N : o[n - 1] <= o[n], NEW i \in 0 .. N, NEW j \in 0 .. N, i <= j
  PROVE  o[i] <= o[j]
<1> DEFINE H == {k \in Nat : i + k <= N => o[i] <= o[i + k]}
<1>1. 0 \in H
  OBVIOUS
<1>2. ASSUME NEW k \in Nat, k \in H PROVE k + 1 \in H
  <2> SUFFICES ASSUME i + (k + 1) <= N PROVE o[i] <= o[i + (k + 1)]
    OBVIOUS
  <2>1. i + k \in 0 .. N /\ i + (k + 1) \in 1 .. N /\ i + (k + 1) \in 0 .. N
        /\ (i + (k + 1)) - 1 = i + k /\ i + k <= N
    OBVIOUS
  <2>2. o[i] <= o[i + k] /\ o[i + k] <= o[i + (k + 1)]
    BY <1>2, <2>1
  <2> QED BY <2>1, <2>2
<1>3. \A k \in Nat : k \in H
  <2> HIDE DEF H
  <2> QED BY <1>1, <1>2, Induction
<1>4. j - i \in Nat /\ i + (j - i) = j
  OBVIOUS
<1>5. i + (j - i) <= N => o[i] <= o[i + (j - i)]
  BY <1>3, <1>4
<1> QED BY <1>4, <1>5

(* Where the elements of two sequences are when one is put behind the      *)
(* other.                                                                  *)
LEMMA ConcatPlaces ==
  ASSUME NEW T, NEW a \in Seq(T), NEW b \in Seq(T)
  PROVE  /\ a \o b \in Seq(T) /\ Len(a \o b) = Len(a) + Len(b)
         /\ \A k \in 1 .. Len(a) : (a \o b)[k] = a[k]
         /\ \A k \in 1 .. Len(b) : (a \o b)[Len(a) + k] = b[k]
OBVIOUS

(* Where FlattenSeq puts each of the sequences.                            *)
IsPlaced(o, s, flat) ==
  /\ o[0] = 0 /\ Len(flat) = o[Len(s)]
  /\ \A n \in 1 .. Len(s) :
       /\ o[n] = o[n - 1] + Len(s[n])
       /\ \A k \in 1 .. Len(s[n]) : flat[o[n - 1] + k] = s[n][k]

(* FlattenSeq of sequences has their elements, one sequence behind the     *)
(* other.                                                                  *)
LEMMA FlattenPlaces ==
  ASSUME NEW T, NEW s \in Seq(Seq(T))
  PROVE  FlattenSeq(s) \in Seq(T) /\ \E o \in [0 .. Len(s) -> Nat] : IsPlaced(o, s, FlattenSeq(s))
<1> DEFINE N == Len(s)
           S == Seq(T)
<1>1. N \in Nat /\ \A n \in 1 .. N : s[n] \in S
  OBVIOUS
<1>2. PICK f \in [0 .. N -> S] : IsFlattening(f, s) /\ FlattenSeq(s) = f[N]
  BY FlattenSteps
<1> HIDE DEF N
<1>3. f[0] = <<>> /\ \A n \in 1 .. N : f[n] = f[n - 1] \o s[n]
  BY <1>2 DEF IsFlattening, N
<1> DEFINE o == [n \in 0 .. N |-> Len(f[n])]
<1>4. \A n \in 0 .. N : f[n] \in S /\ o[n] \in Nat /\ o[n] = Len(f[n])
  BY <1>2
<1>5. \A n \in 1 .. N : n - 1 \in 0 .. N /\ n \in 0 .. N
  BY <1>1
<1>6. ASSUME NEW n \in 1 .. N
      PROVE  /\ o[n] = o[n - 1] + Len(s[n])
             /\ \A k \in 1 .. o[n - 1] : f[n][k] = f[n - 1][k]
             /\ \A k \in 1 .. Len(s[n]) : f[n][o[n - 1] + k] = s[n][k]
  <2> DEFINE a == f[n - 1]
             b == s[n]
  <2>1. a \in Seq(T) /\ b \in Seq(T) /\ f[n] = a \o b /\ o[n - 1] = Len(a) /\ o[n] = Len(f[n])
    BY <1>1, <1>3, <1>4, <1>5
  <2> HIDE DEF a, b, o
  <2>2. /\ Len(a \o b) = Len(a) + Len(b)
        /\ \A k \in 1 .. Len(a) : (a \o b)[k] = a[k]
        /\ \A k \in 1 .. Len(b) : (a \o b)[Len(a) + k] = b[k]
    BY <2>1
  <2> QED BY <2>1, <2>2 DEF a, b
<1> HIDE DEF o
<1> DEFINE Done_(m) == \A n \in 1 .. m : \A k \in 1 .. Len(s[n]) : f[m][o[n - 1] + k] = s[n][k]
           G == {m \in Nat : m \in 0 .. N => Done_(m)}
<1>7. \A m \in Nat : m \in G
  <2>1. 0 \in G
    OBVIOUS
  <2>2. ASSUME NEW m \in Nat, m \in G PROVE m + 1 \in G
    <3> SUFFICES ASSUME m + 1 \in 0 .. N, NEW n \in 1 .. m + 1, NEW k \in 1 .. Len(s[n])
                 PROVE  f[m + 1][o[n - 1] + k] = s[n][k]
      OBVIOUS
    <3>1. m + 1 \in 1 .. N /\ (m + 1) - 1 = m /\ m \in 0 .. N
      BY <1>1
    <3>2. CASE n = m + 1
      BY <3>1, <3>2, <1>6
    <3>3. CASE n # m + 1
      <4>1. n \in 1 .. m /\ n \in 1 .. N
        BY <1>1, <3>1, <3>3
      <4>2. f[m][o[n - 1] + k] = s[n][k]
        BY <2>2, <3>1, <4>1
      <4>3. o[n - 1] + k \in 1 .. o[m]
        <5>1. ASSUME NEW j \in 1 .. N PROVE o[j - 1] <= o[j]
          <6>1. o[j] = o[j - 1] + Len(s[j]) /\ s[j] \in Seq(T)
            BY <1>6, <1>1
          <6>2. o[j - 1] \in Nat
            BY <1>4, <1>5
          <6>3. Len(s[j]) \in Nat
            BY <6>1
          <6> QED BY <6>1, <6>2, <6>3
        <5>2. \A j \in 0 .. N : o[j] \in Nat
          BY <1>4
        <5>5. o[n] <= o[m]
          <6>1. n \in 0 .. N /\ m \in 0 .. N /\ n <= m
            BY <1>1, <3>1, <4>1
          <6> QED BY <1>1, <5>1, <5>2, <6>1, Growing
        <5>6. o[n] = o[n - 1] + Len(s[n]) /\ s[n] \in Seq(T)
          BY <1>6, <1>1, <4>1
        <5>7. o[n - 1] \in Nat /\ o[n] \in Nat /\ o[m] \in Nat /\ Len(s[n]) \in Nat
          <6>1. o[n - 1] \in Nat /\ o[n] \in Nat /\ o[m] \in Nat
            BY <1>4, <1>5, <4>1, <3>1
          <6>2. Len(s[n]) \in Nat
            BY <5>6
          <6> QED BY <6>1, <6>2
        <5> QED BY SMTT(40), <5>5, <5>6, <5>7
      <4>4. f[m + 1][o[n - 1] + k] = f[m][o[n - 1] + k]
        BY <4>3, <3>1, <1>6
      <4> QED BY <4>2, <4>4
    <3> QED BY <3>2, <3>3
  <2> HIDE DEF G
  <2> QED BY <2>1, <2>2, Induction
<1>8. Done_(N)
  <2>1. N \in 0 .. N
    BY <1>1
  <2> QED BY <1>1, <1>7, <2>1
<1>9. o \in [0 .. N -> Nat] /\ o[0] = 0 /\ Len(f[N]) = o[N] /\ f[N] \in S
  <2>1. 0 \in 0 .. N /\ N \in 0 .. N
    BY <1>1
  <2>2. o \in [0 .. N -> Nat]
    BY <1>2 DEF o
  <2>3. o[0] = 0
    BY <1>3, <1>4, <2>1
  <2> QED BY <1>4, <2>1, <2>2, <2>3
<1> HIDE DEF Done_
<1>10. IsPlaced(o, s, f[N])
  BY <1>6, <1>8, <1>9 DEF IsPlaced, N, Done_
<1> QED BY <1>2, <1>9, <1>10 DEF N

(* A cell without quotes is written as it is, inside of quotes or not.     *)
LEMMA DoubledType ==
  ASSUME NEW T \in SUBSET Bytes, Quote \in T, NEW cell \in Seq(T)
  PROVE  Doubled(cell) \in Seq(T)
<1> DEFINE parts == [i \in DOMAIN cell |-> IF cell[i] = Quote THEN <<Quote, Quote>> ELSE <<cell[i]>>]
<1>1. parts \in Seq(Seq(T))
  <2>1. \A i \in 1 .. Len(cell) : cell[i] \in T
    OBVIOUS
  <2>2. \A i \in 1 .. Len(cell) : <<cell[i]>> \in Seq(T) /\ <<Quote, Quote>> \in Seq(T)
    BY <2>1
  <2>3. DOMAIN cell = 1 .. Len(cell) /\ Len(cell) \in Nat
    OBVIOUS
  <2> DEFINE S == Seq(T)
  <2>4. \A i \in 1 .. Len(cell) : parts[i] \in S
    BY <2>2, <2>3
  <2> HIDE DEF S
  <2>5. parts \in Seq(S)
    BY <2>3, <2>4
  <2> QED BY <2>5 DEF S
<1> QED BY <1>1, FlattenType DEF Doubled

(* A text without quotes in it has none to be doubled.                     *)
LEMMA DoubledSame ==
  ASSUME NEW cell \in Seq(Bytes), Quote \notin ToSet(cell)
  PROVE  Doubled(cell) = cell
<1> DEFINE parts == [i \in DOMAIN cell |-> IF cell[i] = Quote THEN <<Quote, Quote>> ELSE <<cell[i]>>]
           ones == [i \in 1 .. Len(cell) |-> <<cell[i]>>]
           N == Len(cell)
<1>1. N \in Nat /\ DOMAIN cell = 1 .. N /\ \A i \in 1 .. N : cell[i] \in Bytes /\ cell[i] # Quote
  BY DEF ToSet
<1>2. parts = ones
  BY <1>1
<1>3. ones \in Seq(Seq(Bytes)) /\ Len(ones) = N
  <2> DEFINE S == Seq(Bytes)
  <2>1. \A i \in 1 .. N : <<cell[i]>> \in S
    BY <1>1
  <2> HIDE DEF S, N
  <2>2. ones \in Seq(S) /\ Len(ones) = N
    BY <1>1, <2>1 DEF N
  <2> QED BY <2>2 DEF S
<1>4. \A i \in 1 .. N : Len(ones[i]) = 1 /\ ones[i][1] = cell[i]
  OBVIOUS
<1> HIDE DEF ones
<1>5. PICK o \in [0 .. Len(ones) -> Nat] : IsPlaced(o, ones, FlattenSeq(ones))
  BY <1>3, FlattenPlaces
<1>6. o[0] = 0 /\ \A n \in 1 .. N : o[n] = o[n - 1] + 1
  <2>1. \A n \in 1 .. N : Len(ones[n]) = 1
    BY <1>4
  <2> QED BY <1>3, <1>5, <2>1 DEF IsPlaced
<1>7. \A m \in Nat : m \in 0 .. N => o[m] = m
  <2> DEFINE G == {m \in Nat : m \in 0 .. N => o[m] = m}
  <2>1. 0 \in G
    BY <1>6
  <2>2. ASSUME NEW m \in Nat, m \in G PROVE m + 1 \in G
    <3> SUFFICES ASSUME m + 1 \in 0 .. N PROVE o[m + 1] = m + 1
      OBVIOUS
    <3>1. m + 1 \in 1 .. N /\ (m + 1) - 1 = m /\ m \in 0 .. N
      BY <1>1
    <3> QED BY <3>1, <2>2, <1>6
  <2> HIDE DEF G
  <2>3. \A m \in Nat : m \in G
    BY <2>1, <2>2, Induction
  <2> QED BY <2>3 DEF G
<1>8. FlattenSeq(ones) \in Seq(Bytes) /\ Len(FlattenSeq(ones)) = N
  <2>1. N \in 0 .. N /\ N \in Nat
    BY <1>1
  <2> QED BY <2>1, <1>3, <1>5, <1>7, FlattenType DEF IsPlaced
<1>9. \A n \in 1 .. N : FlattenSeq(ones)[n] = cell[n]
  <2> SUFFICES ASSUME NEW n \in 1 .. N PROVE FlattenSeq(ones)[n] = cell[n]
    OBVIOUS
  <2>1. n - 1 \in Nat /\ n - 1 \in 0 .. N /\ (n - 1) + 1 = n
    BY <1>1
  <2>2. Len(ones[n]) = 1 /\ ones[n][1] = cell[n]
    BY <1>4
  <2>3. 1 \in 1 .. Len(ones[n]) /\ o[n - 1] = n - 1 /\ n \in 1 .. Len(ones)
    BY <1>3, <1>7, <2>1, <2>2
  <2>4. FlattenSeq(ones)[o[n - 1] + 1] = ones[n][1]
    BY <1>5, <2>3 DEF IsPlaced
  <2> QED BY <2>1, <2>2, <2>3, <2>4
<1>10. FlattenSeq(ones) = cell
  BY <1>1, <1>8, <1>9
<1> QED BY <1>2, <1>10 DEF Doubled

-----------------------------------------------------------------------------
(* The cells of a line                                                     *)

(* Where the cells of a line are: cell c is behind b[c] bytes.             *)
IsSpread(b, fields, line) ==
  /\ b[1] = 0 /\ Len(line) = b[Columns + 1]
  /\ \A c \in 1 .. Columns :
       /\ b[c + 1] = b[c] + Len(fields[c]) + (IF c < Columns THEN 1 ELSE 0)
       /\ \A k \in 1 .. Len(fields[c]) : line[b[c] + k] = fields[c][k]
       /\ c < Columns => line[b[c + 1]] = Delimiter

(* Separated puts one field behind the other, with a delimiter between     *)
(* two.                                                                    *)
LEMMA SeparatedPlaces ==
  ASSUME NEW T, Delimiter \in T, NEW fields \in [1 .. Columns -> Seq(T)]
  PROVE  Separated(fields) \in Seq(T)
         /\ \E b \in [1 .. Columns + 1 -> Nat] : IsSpread(b, fields, Separated(fields))
<1> DEFINE parts == [i \in DOMAIN fields |-> IF i = 1 THEN fields[i] ELSE <<Delimiter>> \o fields[i]]
<1>1. Columns \in Nat /\ Columns >= 1 /\ DOMAIN fields = 1 .. Columns
  BY CsvFileAssumption
<1>2. ASSUME NEW i \in 1 .. Columns
      PROVE  /\ fields[i] \in Seq(T) /\ parts[i] \in Seq(T)
             /\ i = 1 => parts[i] = fields[i]
             /\ i # 1 => /\ Len(parts[i]) = Len(fields[i]) + 1 /\ parts[i][1] = Delimiter
                         /\ \A k \in 1 .. Len(fields[i]) : parts[i][k + 1] = fields[i][k]
  <2> DEFINE a == <<Delimiter>>
             d == fields[i]
  <2>1. d \in Seq(T) /\ a \in Seq(T) /\ Len(a) = 1 /\ a[1] = Delimiter
    OBVIOUS
  <2>2. parts[i] = IF i = 1 THEN d ELSE a \o d
    BY <1>1
  <2> HIDE DEF parts, a, d
  <2>3. /\ a \o d \in Seq(T) /\ Len(a \o d) = Len(d) + 1 /\ (a \o d)[1] = Delimiter
        /\ \A k \in 1 .. Len(d) : (a \o d)[k + 1] = d[k]
    <3>1. a \in Seq(T) /\ d \in Seq(T)
      BY <2>1
    <3>2. /\ a \o d \in Seq(T) /\ Len(a \o d) = Len(a) + Len(d)
          /\ \A k \in 1 .. Len(a) : (a \o d)[k] = a[k]
          /\ \A k \in 1 .. Len(d) : (a \o d)[Len(a) + k] = d[k]
      BY <3>1, ConcatPlaces
    <3>3. Len(d) \in Nat
      BY <2>1
    <3> DEFINE joined == a \o d
    <3>4. /\ joined \in Seq(T) /\ Len(joined) = Len(a) + Len(d)
          /\ \A k \in 1 .. Len(a) : joined[k] = a[k]
          /\ \A k \in 1 .. Len(d) : joined[Len(a) + k] = d[k]
      BY <3>2
    <3> HIDE DEF joined
    <3>5. /\ joined \in Seq(T) /\ Len(joined) = Len(d) + 1 /\ joined[1] = Delimiter
          /\ \A k \in 1 .. Len(d) : joined[k + 1] = d[k]
      BY <2>1, <3>3, <3>4
    <3> QED BY <3>5 DEF joined
  <2> QED BY <2>1, <2>2, <2>3 DEF d
<1>3. parts \in Seq(Seq(T)) /\ Len(parts) = Columns
  <2> DEFINE S == Seq(T)
  <2>1. \A i \in 1 .. Columns : parts[i] \in S
    BY <1>2
  <2> HIDE DEF S
  <2>2. parts \in Seq(S) /\ Len(parts) = Columns
    BY <1>1, <2>1
  <2> QED BY <2>2 DEF S
<1>4. Separated(fields) = FlattenSeq(parts)
  BY DEF Separated
<1> HIDE DEF parts
<1> DEFINE line == FlattenSeq(parts)
<1>5. PICK o \in [0 .. Columns -> Nat] : IsPlaced(o, parts, line)
  BY <1>3, FlattenPlaces
<1>6. line \in Seq(T)
  BY <1>3, FlattenType
<1> HIDE DEF line
<1>7. /\ o[0] = 0 /\ Len(line) = o[Columns]
      /\ \A n \in 1 .. Columns : /\ o[n] = o[n - 1] + Len(parts[n])
                                 /\ \A k \in 1 .. Len(parts[n]) : line[o[n - 1] + k] = parts[n][k]
  BY <1>3, <1>5 DEF IsPlaced
<1> DEFINE b == [c \in 1 .. Columns + 1 |->
                   IF c = 1 THEN 0 ELSE IF c = Columns + 1 THEN o[Columns] ELSE o[c - 1] + 1]
<1>8. b \in [1 .. Columns + 1 -> Nat]
  <2> SUFFICES ASSUME NEW c \in 1 .. Columns + 1 PROVE b[c] \in Nat
    OBVIOUS
  <2>1. c # 1 => c - 1 \in 0 .. Columns
    BY <1>1
  <2>2. o[Columns] \in Nat /\ (c # 1 => o[c - 1] + 1 \in Nat)
    BY <1>1, <2>1
  <2> QED BY <2>2
<1>9. b[1] = 0 /\ Len(line) = b[Columns + 1]
  BY <1>1, <1>7
<1>10. ASSUME NEW c \in 1 .. Columns
       PROVE  /\ b[c + 1] = b[c] + Len(fields[c]) + (IF c < Columns THEN 1 ELSE 0)
              /\ \A k \in 1 .. Len(fields[c]) : line[b[c] + k] = fields[c][k]
              /\ c < Columns => line[b[c + 1]] = Delimiter
  <2>1. c - 1 \in 0 .. Columns /\ c \in 0 .. Columns /\ o[c - 1] \in Nat /\ o[c] \in Nat
        /\ Len(fields[c]) \in Nat /\ Len(parts[c]) \in Nat
    <3>1. c - 1 \in 0 .. Columns /\ c \in 0 .. Columns
      BY <1>1
    <3>2. Len(fields[c]) \in Nat /\ Len(parts[c]) \in Nat
      BY <1>2
    <3> QED BY <3>1, <3>2
  <2>2. o[c] = o[c - 1] + Len(parts[c])
    BY <1>7
  <2>3. b[c] = IF c = 1 THEN 0 ELSE o[c - 1] + 1
    BY <1>1
  <2>4. b[c + 1] = IF c = Columns THEN o[c] ELSE o[c] + 1
    <3>1. c + 1 \in 1 .. Columns + 1 /\ c + 1 # 1 /\ (c + 1) - 1 = c /\ (c + 1 = Columns + 1 <=> c = Columns)
      BY <1>1
    <3> QED BY <3>1
  <2> HIDE DEF b
  <2>5. Len(parts[c]) = IF c = 1 THEN Len(fields[c]) ELSE Len(fields[c]) + 1
    BY <1>2
  <2>6. b[c + 1] = b[c] + Len(fields[c]) + (IF c < Columns THEN 1 ELSE 0)
    <3>1. c = Columns \/ c < Columns
      BY <1>1
    <3>2. c = 1 => o[c - 1] = 0
      BY <1>7
    <3> QED BY SMTT(40), <2>1, <2>2, <2>3, <2>4, <2>5, <3>1, <3>2, <1>1
  <2>7. ASSUME NEW k \in 1 .. Len(fields[c]) PROVE line[b[c] + k] = fields[c][k]
    <3>1. CASE c = 1
      <4>1. parts[c] = fields[c] /\ b[c] = 0 /\ o[c - 1] = 0
        BY <1>2, <1>7, <2>3, <3>1
      <4> QED BY <4>1, <1>7
    <3>2. CASE c # 1
      <4>1. k + 1 \in 1 .. Len(parts[c]) /\ parts[c][k + 1] = fields[c][k]
        BY <1>2, <2>1, <2>5, <3>2
      <4>2. line[o[c - 1] + (k + 1)] = fields[c][k]
        BY <4>1, <1>7
      <4>3. o[c - 1] + (k + 1) = b[c] + k
        BY <2>1, <2>3, <3>2
      <4> QED BY <4>2, <4>3
    <3> QED BY <3>1, <3>2
  <2>8. ASSUME c < Columns PROVE line[b[c + 1]] = Delimiter
    <3>1. c + 1 \in 1 .. Columns /\ c + 1 # 1 /\ (c + 1) - 1 = c
      BY <1>1, <2>8
    <3>2. Len(parts[c + 1]) = Len(fields[c + 1]) + 1 /\ parts[c + 1][1] = Delimiter
          /\ fields[c + 1] \in Seq(T)
      BY <3>1, <1>2
    <3>3. 1 \in 1 .. Len(parts[c + 1])
      <4>1. Len(fields[c + 1]) \in Nat
        BY <3>2
      <4> QED BY <3>2, <4>1
    <3>4. line[o[c] + 1] = Delimiter
      BY <1>7, <3>1, <3>2, <3>3
    <3> QED BY <3>4, <2>4, <2>8, <1>1
  <2> QED BY <2>6, <2>7, <2>8
<1> HIDE DEF b
<1>11. IsSpread(b, fields, line)
  BY <1>9, <1>10 DEF IsSpread
<1> QED BY <1>4, <1>6, <1>8, <1>11 DEF line

-----------------------------------------------------------------------------
(* The cells of a row                                                      *)

(* What is left of a cell that was written and read.                       *)
Plain(cell) == IF cell = Null THEN <<>> ELSE cell

(* It is a sequence of bytes.                                              *)
LEMMA PlainType == ASSUME NEW cell, IsText(cell) PROVE Plain(cell) \in Seq(Bytes)
BY DEF Plain, IsText

(* What is written of a cell has no bytes but those of the cell and        *)
(* quotes.                                                                 *)
LEMMA WrittenType ==
  ASSUME NEW cell, IsText(cell), NEW T \in SUBSET Bytes, Quote \in T, Plain(cell) \in Seq(T)
  PROVE  Written(cell) \in Seq(T)
<1>1. CASE cell = Null
  BY <1>1 DEF Written
<1>2. CASE cell # Null
  <2>1. cell \in Seq(T) /\ Doubled(cell) \in Seq(T)
    BY <1>2, DoubledType DEF Plain
  <2> DEFINE a == <<Quote>>
             d == Doubled(cell)
  <2>2. a \in Seq(T) /\ d \in Seq(T)
    BY <2>1
  <2> HIDE DEF a, d
  <2>3. a \o d \o a \in Seq(T)
    BY <2>2
  <2> QED BY <2>1, <2>3, <1>2 DEF Written, a, d
<1> QED BY <1>1, <1>2

-----------------------------------------------------------------------------
(* The lines of a file                                                     *)

(* What a session starts with.                                             *)
FileOK ==
  /\ csv \in Tables
  /\ form \in [header : BOOLEAN, eol : {<<NL>>, <<CR, NL>>}, ended : BOOLEAN]
  /\ ~form.ended => Lines # <<>> /\ Last(Lines) # <<>>

(* How many lines stand above the first row, and the texts that line n     *)
(* has.                                                                    *)
Above == IF form.header THEN 1 ELSE 0
Texts(n) == IF form.header /\ n = 1 THEN Header
            ELSE [c \in 1 .. Columns |-> Written(csv[n - Above][c])]

(* The line of these texts: cell c begins at P[c], the next line at next.  *)
InLine(P, texts, next) ==
  /\ P \in [1 .. Columns + 1 -> Nat \ {0}]
  /\ \A c \in 1 .. Columns :
       /\ P[c + 1] = P[c] + Len(texts[c]) + (IF c < Columns THEN 1 ELSE 0)
       /\ \A k \in 1 .. Len(texts[c]) : buffer[P[c] + k - 1] = texts[c][k]
       /\ c < Columns => buffer[P[c + 1] - 1] = Delimiter
  /\ \/ /\ next = P[Columns + 1] + Len(form.eol) /\ next <= Size + 1
        /\ \A k \in 1 .. Len(form.eol) : buffer[P[Columns + 1] + k - 1] = form.eol[k]
     \/ ~form.ended /\ next = P[Columns + 1] /\ next = Size + 1 /\ P[1] < next

(* The parts of a file have the types that are expected of them.           *)
LEMMA FileType ==
  ASSUME FileOK
  PROVE  /\ Len(csv) \in Nat /\ DOMAIN csv = 1 .. Len(csv)
         /\ \A i \in 1 .. Len(csv) : \A c \in 1 .. Columns : IsText(csv[i][c])
         /\ form.header \in BOOLEAN /\ form.ended \in BOOLEAN /\ form.eol \in Seq(Bytes)
         /\ form.eol \in {<<NL>>, <<CR, NL>>} /\ Len(form.eol) \in {1, 2}
         /\ Above \in {0, 1}
<1>1. csv \in Seq({csv[i] : i \in DOMAIN csv})
      /\ \A i \in DOMAIN csv : \A c \in 1 .. Columns : IsText(csv[i][c])
  BY CsvFileAssumption DEF FileOK
<1>2. Len(csv) \in Nat /\ DOMAIN csv = 1 .. Len(csv)
  BY <1>1
<1>3. form.header \in BOOLEAN /\ form.ended \in BOOLEAN /\ form.eol \in {<<NL>>, <<CR, NL>>}
  BY DEF FileOK
<1>4. <<NL>> \in Seq(Bytes) /\ <<CR, NL>> \in Seq(Bytes) /\ Len(<<NL>>) = 1 /\ Len(<<CR, NL>>) = 2
  BY DEF Bytes
<1> QED BY <1>1, <1>2, <1>3, <1>4 DEF Above

(* There are as many lines as rows, and one for the header; each has its   *)
(* texts.                                                                  *)
LEMMA LinesType ==
  ASSUME FileOK
  PROVE  /\ Lines \in Seq(Seq(Bytes)) /\ Len(Lines) = Above + Len(csv)
         /\ \A n \in 1 .. Len(Lines) : /\ Texts(n) \in [1 .. Columns -> Seq(Bytes)]
                                       /\ Lines[n] = Separated(Texts(n))
<1> DEFINE N == Len(csv)
           body == [i \in DOMAIN csv |-> Separated([c \in 1 .. Columns |-> Written(csv[i][c])])]
           head == IF form.header THEN <<Separated(Header)>> ELSE <<>>
           S == Seq(Bytes)
<1>1. N \in Nat /\ DOMAIN csv = 1 .. N /\ Above \in {0, 1}
  BY FileType
<1>2. Header \in [1 .. Columns -> S] /\ Separated(Header) \in S
  <2>1. <<Letter>> \in S
    BY DEF Bytes
  <2>2. Header \in [1 .. Columns -> S]
    BY <2>1 DEF Header
  <2> QED BY <2>2, SeparatedPlaces DEF Bytes
<1>3. ASSUME NEW i \in 1 .. N
      PROVE  [c \in 1 .. Columns |-> Written(csv[i][c])] \in [1 .. Columns -> S] /\ body[i] \in S
  <2>1. ASSUME NEW c \in 1 .. Columns PROVE Written(csv[i][c]) \in S
    <3>1. IsText(csv[i][c])
      BY FileType
    <3>2. Plain(csv[i][c]) \in Seq(Bytes)
      BY <3>1, PlainType
    <3>3. Bytes \in SUBSET Bytes /\ Quote \in Bytes
      BY DEF Bytes
    <3> QED BY <3>1, <3>2, <3>3, WrittenType
  <2>2. [c \in 1 .. Columns |-> Written(csv[i][c])] \in [1 .. Columns -> S]
    BY <2>1
  <2>3. Delimiter \in Bytes
    BY DEF Bytes
  <2> QED BY <2>2, <2>3, <1>1, SeparatedPlaces
<1>4. body \in Seq(S) /\ Len(body) = N
  <2> HIDE DEF S, N
  <2>1. DOMAIN body = 1 .. N
    BY <1>1
  <2>2. \A i \in 1 .. N : body[i] \in S
    BY <1>3
  <2> HIDE DEF body
  <2>3. body = [i \in 1 .. N |-> body[i]]
    BY <2>1 DEF body
  <2> QED BY <1>1, <2>2, <2>3
<1>5. head \in Seq(S) /\ Len(head) = Above /\ (form.header => head[1] = Separated(Header))
  <2> HIDE DEF S
  <2> QED BY <1>2, FileType DEF Above
<1>6. Lines = head \o body
  BY DEF Lines
<1>7. /\ Lines \in Seq(S) /\ Len(Lines) = Above + N
      /\ \A k \in 1 .. Above : Lines[k] = head[k]
      /\ \A k \in 1 .. N : Lines[Above + k] = body[k]
  <2> HIDE DEF head, body, S, N
  <2>1. head \in Seq(S) /\ body \in Seq(S)
    BY <1>4, <1>5
  <2>2. /\ Lines \in Seq(S) /\ Len(Lines) = Len(head) + Len(body)
        /\ \A k \in 1 .. Len(head) : Lines[k] = head[k]
        /\ \A k \in 1 .. Len(body) : Lines[Len(head) + k] = body[k]
    BY <1>6, <2>1, ConcatPlaces
  <2> QED BY <1>4, <1>5, <2>2
<1>8. ASSUME NEW n \in 1 .. Above + N
      PROVE  Texts(n) \in [1 .. Columns -> S] /\ Lines[n] = Separated(Texts(n))
  <2>1. CASE form.header /\ n = 1
    <3>1. 1 \in 1 .. Above
      BY <2>1 DEF Above
    <3> QED BY <2>1, <3>1, <1>2, <1>5, <1>7 DEF Texts
  <2>2. CASE ~(form.header /\ n = 1)
    <3>1. n - Above \in 1 .. N /\ Above + (n - Above) = n
      BY <2>2, <1>1 DEF Above
    <3>2. Texts(n) = [c \in 1 .. Columns |-> Written(csv[n - Above][c])]
      BY <2>2 DEF Texts
    <3>3. Lines[n] = body[n - Above]
      BY <3>1, <1>7
    <3>4. body[n - Above] = Separated([c \in 1 .. Columns |-> Written(csv[n - Above][c])])
      BY <3>1, <1>1
    <3> QED BY <3>1, <3>2, <3>3, <3>4, <1>3
  <2> QED BY <2>1, <2>2
<1> QED BY <1>7, <1>8

(* The lines of the file, one behind the other.                            *)
LEMMA Laying ==
  ASSUME FileOK, buffer = Text
  PROVE  /\ buffer \in Seq(Bytes)
         /\ \E at \in [1 .. Len(Lines) + 1 -> Nat \ {0}] :
              /\ at[1] = 1 /\ at[Len(Lines) + 1] = Size + 1
              /\ \A n \in 1 .. Len(Lines) : \E P : P[1] = at[n] /\ InLine(P, Texts(n), at[n + 1])
<1> DEFINE L == Len(Lines)
           S == Seq(Bytes)
           parts == [l \in DOMAIN Lines |-> Lines[l] \o form.eol]
           wide == FlattenSeq(parts)
           w == Len(form.eol)
<1>1. /\ L \in Nat /\ DOMAIN Lines = 1 .. L /\ form.eol \in S /\ w \in {1, 2}
      /\ \A n \in 1 .. L : Lines[n] \in S
  <2>1. Lines \in Seq(S)
    BY LinesType
  <2> HIDE DEF S
  <2>2. L \in Nat /\ DOMAIN Lines = 1 .. L /\ \A n \in 1 .. L : Lines[n] \in S
    BY <2>1
  <2> QED BY <2>2, FileType DEF S
<1>2. ASSUME NEW n \in 1 .. L
      PROVE  /\ parts[n] \in S /\ Len(parts[n]) = Len(Lines[n]) + w /\ Len(Lines[n]) \in Nat
             /\ \A k \in 1 .. Len(Lines[n]) : parts[n][k] = Lines[n][k]
             /\ \A k \in 1 .. w : parts[n][Len(Lines[n]) + k] = form.eol[k]
  <2> DEFINE a == Lines[n]
             b == form.eol
  <2>1. a \in Seq(Bytes) /\ b \in Seq(Bytes) /\ parts[n] = a \o b
    BY <1>1
  <2> HIDE DEF a, b, parts
  <2>2. /\ parts[n] \in Seq(Bytes) /\ Len(parts[n]) = Len(a) + Len(b)
        /\ \A k \in 1 .. Len(a) : parts[n][k] = a[k]
        /\ \A k \in 1 .. Len(b) : parts[n][Len(a) + k] = b[k]
    BY <2>1, ConcatPlaces
  <2>3. Len(a) \in Nat
    BY <2>1
  <2> QED BY <2>2, <2>3 DEF a, b
<1>3. parts \in Seq(S) /\ Len(parts) = L
  <2>1. DOMAIN parts = 1 .. L /\ \A n \in 1 .. L : parts[n] \in S
    BY <1>1, <1>2
  <2>2. parts = [l \in 1 .. L |-> parts[l]]
    BY <1>1
  <2> HIDE DEF parts, L, S
  <2> QED BY <1>1, <2>1, <2>2
<1>4. Text = IF form.ended THEN wide ELSE SubSeq(wide, 1, Len(wide) - w)
  BY DEF Text
<1> HIDE DEF parts
<1>5. PICK o \in [0 .. L -> Nat] : IsPlaced(o, parts, wide)
  BY <1>3, FlattenPlaces
<1>6. wide \in S
  BY <1>3, FlattenType
<1> HIDE DEF wide, S, L, w
<1>7. /\ o[0] = 0 /\ Len(wide) = o[L]
      /\ \A n \in 1 .. L :
           /\ o[n] = o[n - 1] + (Len(Lines[n]) + w)
           /\ \A k \in 1 .. Len(Lines[n]) : wide[o[n - 1] + k] = Lines[n][k]
           /\ \A k \in 1 .. w : wide[(o[n - 1] + Len(Lines[n])) + k] = form.eol[k]
  <2>1. o[0] = 0 /\ Len(wide) = o[L]
    BY <1>3, <1>5 DEF IsPlaced
  <2>2. ASSUME NEW n \in 1 .. L
        PROVE  /\ o[n] = o[n - 1] + (Len(Lines[n]) + w)
               /\ \A k \in 1 .. Len(Lines[n]) : wide[o[n - 1] + k] = Lines[n][k]
               /\ \A k \in 1 .. w : wide[(o[n - 1] + Len(Lines[n])) + k] = form.eol[k]
    <3>1. /\ o[n] = o[n - 1] + Len(parts[n])
          /\ \A k \in 1 .. Len(parts[n]) : wide[o[n - 1] + k] = parts[n][k]
      BY <1>3, <1>5 DEF IsPlaced
    <3>2. Len(parts[n]) = Len(Lines[n]) + w /\ Len(Lines[n]) \in Nat /\ w \in Nat /\ o[n - 1] \in Nat
      <4>1. n - 1 \in 0 .. L
        BY <1>1
      <4> QED BY <4>1, <1>1, <1>2
    <3>3. ASSUME NEW k \in 1 .. Len(Lines[n]) PROVE wide[o[n - 1] + k] = Lines[n][k]
      <4>1. k \in 1 .. Len(parts[n])
        BY <3>2
      <4> QED BY <4>1, <3>1, <1>2
    <3>4. ASSUME NEW k \in 1 .. w PROVE wide[(o[n - 1] + Len(Lines[n])) + k] = form.eol[k]
      <4>1. Len(Lines[n]) + k \in 1 .. Len(parts[n])
            /\ o[n - 1] + (Len(Lines[n]) + k) = (o[n - 1] + Len(Lines[n])) + k
        BY <3>2
      <4>2. wide[o[n - 1] + (Len(Lines[n]) + k)] = parts[n][Len(Lines[n]) + k]
        BY <4>1, <3>1
      <4> QED BY <4>1, <4>2, <1>2
    <3> QED BY <3>1, <3>2, <3>3, <3>4
  <2> QED BY <2>1, <2>2
<1>8. ASSUME NEW n \in 0 .. L, NEW m \in 0 .. L, n <= m PROVE o[n] <= o[m]
  <2>1. ASSUME NEW j \in 1 .. L PROVE o[j - 1] <= o[j]
    <3>1. j - 1 \in 0 .. L /\ o[j - 1] \in Nat /\ Len(Lines[j]) \in Nat /\ w \in Nat
      BY SMTT(40), <1>1, <1>2
    <3> QED BY <3>1, <1>7
  <2>2. \A j \in 0 .. L : o[j] \in Nat
    OBVIOUS
  <2> QED BY <1>1, <1>8, <2>1, <2>2, Growing
<1>9. /\ buffer \in Seq(Bytes) /\ Size \in Nat
      /\ Size = IF form.ended THEN o[L] ELSE o[L] - w
      /\ \A k \in 1 .. Size : buffer[k] = wide[k]
      /\ ~form.ended => L # 0 /\ Len(Lines[L]) # 0
  <2>1. ASSUME ~form.ended PROVE L # 0 /\ Len(Lines[L]) # 0
    <3>1. Lines # <<>> /\ Last(Lines) # <<>> /\ Lines \in Seq(S)
      BY <2>1, LinesType DEF FileOK, S
    <3>2. L # 0
      BY <3>1 DEF L
    <3>3. Lines[L] # <<>>
      BY <3>1 DEF Last, L
    <3>4. Lines[L] \in Seq(Bytes)
      BY <3>2, <1>1 DEF S
    <3> QED BY <3>2, <3>3, <3>4
  <2>2. wide \in Seq(Bytes) /\ Len(wide) = o[L] /\ o[L] \in Nat /\ w \in Nat
    <3>1. L \in 0 .. L
      BY <1>1
    <3> QED BY <3>1, <1>1, <1>6, <1>7 DEF S
  <2>3. CASE form.ended
    BY <2>1, <2>2, <2>3, <1>4 DEF Size
  <2>4. CASE ~form.ended
    <3>1. L \in 1 .. L /\ L - 1 \in 0 .. L
      BY <1>1, <2>1, <2>4
    <3>2. o[L] = o[L - 1] + (Len(Lines[L]) + w) /\ o[L - 1] \in Nat /\ Len(Lines[L]) \in Nat
      BY <1>2, <1>7, <3>1
    <3>3. o[L] - w \in Nat /\ o[L] - w <= Len(wide)
      BY <2>2, <3>2
    <3>4. buffer = SubSeq(wide, 1, o[L] - w)
      BY <2>2, <2>4, <1>4
    <3> DEFINE z == o[L] - w
    <3>5. z \in Nat /\ z <= Len(wide) /\ buffer = SubSeq(wide, 1, z)
      BY <3>3, <3>4
    <3> HIDE DEF z
    <3>6. buffer \in Seq(Bytes) /\ Len(buffer) = z /\ \A k \in 1 .. z : buffer[k] = wide[k]
      BY <2>2, <3>5
    <3> QED BY <2>1, <2>4, <3>5, <3>6 DEF Size, z
  <2> QED BY <2>3, <2>4
<1> DEFINE at == [n \in 1 .. L + 1 |-> IF n = L + 1 THEN Size + 1 ELSE o[n - 1] + 1]
<1>10. at \in [1 .. L + 1 -> Nat \ {0}]
  <2> SUFFICES ASSUME NEW n \in 1 .. L + 1 PROVE at[n] \in Nat \ {0}
    OBVIOUS
  <2>1. n # L + 1 => n - 1 \in 0 .. L
    BY <1>1
  <2>2. n # L + 1 => o[n - 1] \in Nat
    BY <2>1
  <2> QED BY SMTT(40), <2>2, <1>9
<1>11. at[1] = 1 /\ at[L + 1] = Size + 1
  <2>1. 1 \in 1 .. L + 1 /\ L + 1 \in 1 .. L + 1
    BY <1>1
  <2>2. 1 = L + 1 => Size = 0
    <3>1. 1 = L + 1 => L = 0
      BY <1>1
    <3> QED BY <3>1, <1>7, <1>9
  <2>3. 1 # L + 1 => at[1] = o[1 - 1] + 1
    BY <2>1
  <2> QED BY <2>1, <2>2, <2>3, <1>7
<1>12. ASSUME NEW n \in 1 .. L PROVE \E P : P[1] = at[n] /\ InLine(P, Texts(n), at[n + 1])
  <2>1. Texts(n) \in [1 .. Columns -> Seq(Bytes)] /\ Lines[n] = Separated(Texts(n)) /\ Delimiter \in Bytes
    BY LinesType DEF L, Bytes
  <2>2. PICK b \in [1 .. Columns + 1 -> Nat] : IsSpread(b, Texts(n), Lines[n])
    BY <2>1, SeparatedPlaces
  <2> DEFINE P == [c \in 1 .. Columns + 1 |-> at[n] + b[c]]
             z == o[n - 1]
             len == Len(Lines[n])
  <2>3. at[n] = z + 1 /\ z \in Nat /\ len \in Nat /\ w \in Nat /\ n - 1 \in 0 .. L /\ n \in 0 .. L
        /\ n # L + 1 /\ n + 1 \in 1 .. L + 1 /\ o[n] \in Nat /\ o[n] = z + (len + w)
    <3>1. n - 1 \in 0 .. L /\ n \in 0 .. L /\ n # L + 1 /\ n + 1 \in 1 .. L + 1 /\ n \in 1 .. L + 1
      BY <1>1
    <3> QED BY <3>1, <1>1, <1>2, <1>7
  <2>4. Columns \in Nat /\ Columns >= 1
    BY CsvFileAssumption
  <2>5. P \in [1 .. Columns + 1 -> Nat \ {0}] /\ P[1] = at[n] /\ P[Columns + 1] = (z + 1) + len
    <3>1. \A c \in 1 .. Columns + 1 : P[c] \in Nat \ {0}
      BY <2>3
    <3>2. 1 \in 1 .. Columns + 1 /\ Columns + 1 \in 1 .. Columns + 1
      BY <2>4
    <3>3. b[1] = 0 /\ b[Columns + 1] = len
      BY <2>2 DEF IsSpread
    <3> QED BY SMTT(40), <2>3, <3>1, <3>2, <3>3
  <2> HIDE DEF z, len
  <2>a. Size \in Nat
    BY <1>9
  <2>b. ~form.ended => Size = o[L] - w /\ L # 0 /\ Len(Lines[L]) # 0
    BY <1>9
  <2>c. n = L => len = Len(Lines[L])
    BY DEF len
  <2>6. z + len <= Size
    <3>1. CASE form.ended
      <4>1. o[n] <= o[L]
        BY <1>1, <1>8, <2>3
      <4>2. o[L] \in Nat /\ Size = o[L]
        BY <3>1, <1>1, <1>9
      <4> QED BY <2>3, <4>1, <4>2
    <3>2. CASE ~form.ended /\ n = L
      <4>1. Size = o[n] - w
        BY <3>2, <2>b
      <4> QED BY <2>3, <4>1
    <3>3. CASE ~form.ended /\ n # L
      <4>1. L \in 1 .. L /\ L - 1 \in 0 .. L /\ n <= L - 1
        BY <1>1, <3>3
      <4>2. o[n] <= o[L - 1] /\ o[L - 1] \in Nat
        BY <4>1, <2>3, <1>8
      <4>3. o[L] = o[L - 1] + (Len(Lines[L]) + w) /\ Len(Lines[L]) \in Nat
        BY <4>1, <1>2, <1>7
      <4>4. Size = o[L] - w
        BY <1>9, <3>3
      <4> QED BY SMTT(40), <2>3, <4>2, <4>3, <4>4
    <3> QED BY <3>1, <3>2, <3>3
  <2>7. ASSUME NEW k \in 1 .. len PROVE buffer[z + k] = Lines[n][k]
    <3>1. z + k \in 1 .. Size
      BY <2>3, <2>6, <2>a
    <3>2. wide[z + k] = Lines[n][k]
      BY <1>7 DEF z, len
    <3> QED BY <3>1, <3>2, <1>9
  <2>8. ASSUME NEW c \in 1 .. Columns
        PROVE  /\ P[c + 1] = P[c] + Len(Texts(n)[c]) + (IF c < Columns THEN 1 ELSE 0)
               /\ \A k \in 1 .. Len(Texts(n)[c]) : buffer[P[c] + k - 1] = Texts(n)[c][k]
               /\ c < Columns => buffer[P[c + 1] - 1] = Delimiter
    <3> DEFINE t == Texts(n)[c]
    <3>1. c \in 1 .. Columns + 1 /\ c + 1 \in 1 .. Columns + 1
      BY <2>4
    <3>2. t \in Seq(Bytes)
      BY <2>1
    <3>3. b[c] \in Nat /\ b[c + 1] \in Nat /\ Len(t) \in Nat
      BY <3>1, <3>2
    <3>4. /\ b[c + 1] = b[c] + Len(t) + (IF c < Columns THEN 1 ELSE 0)
          /\ \A k \in 1 .. Len(t) : Lines[n][b[c] + k] = t[k]
          /\ c < Columns => Lines[n][b[c + 1]] = Delimiter
      BY <2>2 DEF IsSpread
    <3>5. P[c] = (z + 1) + b[c] /\ P[c + 1] = (z + 1) + b[c + 1]
      BY <2>3, <3>1
    <3>6. b[c + 1] <= len
      <4>1. \A j \in 1 .. Columns : b[j] <= b[j + 1]
        <5> SUFFICES ASSUME NEW j \in 1 .. Columns PROVE b[j] <= b[j + 1]
          OBVIOUS
        <5>1. b[j + 1] = b[j] + Len(Texts(n)[j]) + (IF j < Columns THEN 1 ELSE 0)
          BY <2>2 DEF IsSpread
        <5>2. Texts(n)[j] \in Seq(Bytes)
          BY <2>1
        <5>3. Len(Texts(n)[j]) \in Nat
          BY <5>2
        <5>4. j \in 1 .. Columns + 1
          BY <2>4
        <5>5. b[j] \in Nat
          BY <5>4
        <5> QED BY <5>1, <5>3, <5>5
      <4> DEFINE g == [j \in 0 .. Columns |-> b[j + 1]]
      <4>2. \A j \in 0 .. Columns : g[j] \in Nat
        <5>1. \A j \in 0 .. Columns : j + 1 \in 1 .. Columns + 1
          BY <2>4
        <5> QED BY <5>1
      <4>3. \A j \in 1 .. Columns : g[j - 1] <= g[j]
        <5> SUFFICES ASSUME NEW j \in 1 .. Columns PROVE g[j - 1] <= g[j]
          OBVIOUS
        <5>1. j - 1 \in 0 .. Columns /\ j \in 0 .. Columns /\ (j - 1) + 1 = j
          BY <2>4
        <5> QED BY <5>1, <4>1
      <4>4. c \in 0 .. Columns /\ Columns \in 0 .. Columns /\ c <= Columns
        BY <2>4
      <4>5. g[c] = b[c + 1] /\ g[Columns] = b[Columns + 1]
        BY <4>4
      <4> HIDE DEF g
      <4>6. g[c] <= g[Columns]
        BY <2>4, <4>2, <4>3, <4>4, Growing
      <4>7. b[Columns + 1] = len
        BY <2>2 DEF IsSpread, len
      <4> QED BY <4>5, <4>6, <4>7
    <3> HIDE DEF P, t
    <3>7. P[c + 1] = P[c] + Len(t) + (IF c < Columns THEN 1 ELSE 0)
      BY SMTT(40), <2>3, <3>3, <3>4, <3>5
    <3>8. ASSUME NEW k \in 1 .. Len(t) PROVE buffer[P[c] + k - 1] = t[k]
      <4>1. b[c] + k \in 1 .. len /\ z + (b[c] + k) = P[c] + k - 1
        <5>1. b[c] + Len(t) <= b[c + 1]
          <6>1. b[c + 1] = b[c] + Len(t) + (IF c < Columns THEN 1 ELSE 0)
            BY <3>4
          <6> QED BY <3>3, <6>1
        <5>2. P[c] = (z + 1) + b[c]
          BY <3>5
        <5>3. z \in Nat /\ len \in Nat
          BY <2>3
        <5>4. b[c] \in Nat /\ b[c + 1] \in Nat /\ Len(t) \in Nat /\ b[c + 1] <= len
          BY <3>3, <3>6
        <5> DEFINE x == b[c]
                   y == b[c + 1]
                   l == Len(t)
                   p == P[c]
        <5>5. x \in Nat /\ y \in Nat /\ l \in Nat /\ y <= len /\ x + l <= y /\ p = (z + 1) + x
          BY <5>1, <5>2, <5>4
        <5>6. k \in 1 .. l
          OBVIOUS
        <5> HIDE DEF x, y, l, p
        <5>7. x + k \in 1 .. len /\ z + (x + k) = p + k - 1
          BY <5>3, <5>5, <5>6
        <5> QED BY <5>7 DEF x, y, l, p
      <4>2. buffer[z + (b[c] + k)] = Lines[n][b[c] + k]
        BY <4>1, <2>7
      <4> QED BY <3>4, <4>1, <4>2
    <3>9. ASSUME c < Columns PROVE buffer[P[c + 1] - 1] = Delimiter
      <4>1. b[c + 1] \in 1 .. len /\ z + b[c + 1] = P[c + 1] - 1
        <5>1. b[c + 1] = b[c] + Len(t) + 1
          BY <3>3, <3>4, <3>9
        <5>2. P[c + 1] = (z + 1) + b[c + 1]
          BY <3>5
        <5>3. z \in Nat /\ len \in Nat
          BY <2>3
        <5>4. b[c] \in Nat /\ b[c + 1] \in Nat /\ Len(t) \in Nat /\ b[c + 1] <= len
          BY <3>3, <3>6
        <5> DEFINE x == b[c]
                   y == b[c + 1]
                   l == Len(t)
                   q == P[c + 1]
        <5>5. x \in Nat /\ y \in Nat /\ l \in Nat /\ y <= len /\ y = x + l + 1 /\ q = (z + 1) + y
          BY <5>1, <5>2, <5>4
        <5> HIDE DEF x, y, l, q
        <5>7. y \in 1 .. len /\ z + y = q - 1
          BY <5>3, <5>5
        <5> QED BY <5>7 DEF x, y, l, q
      <4> QED BY <2>7, <3>4, <3>9, <4>1
    <3> QED BY <3>7, <3>8, <3>9 DEF t
  <2>9. CASE form.ended \/ n # L
    <3>1. at[n + 1] = o[n] + 1
      <4>1. n = L => n + 1 = L + 1 /\ Size = o[n]
        BY <2>9, <1>9
      <4>2. n # L => n + 1 # L + 1 /\ (n + 1) - 1 = n
        BY <1>1
      <4> QED BY <2>3, <4>1, <4>2
    <3>2. o[n] <= Size
      <4>1. CASE form.ended
        <5>1. o[n] <= o[L]
          BY <1>1, <1>8, <2>3
        <5> QED BY <4>1, <5>1, <1>9
      <4>2. CASE ~form.ended
        <5>1. L \in 1 .. L /\ L - 1 \in 0 .. L /\ n <= L - 1
          BY <1>1, <2>9, <4>2
        <5>2. o[n] <= o[L - 1] /\ o[L - 1] \in Nat
          BY <5>1, <2>3, <1>8
        <5>3. o[L] = o[L - 1] + (Len(Lines[L]) + w) /\ Len(Lines[L]) \in Nat
          BY <5>1, <1>2, <1>7
        <5>4. Size = o[L] - w
          BY <1>9, <4>2
        <5> QED BY <2>3, <5>2, <5>3, <5>4
      <4> QED BY <4>1, <4>2
    <3>3. at[n + 1] = P[Columns + 1] + w /\ at[n + 1] <= Size + 1
      <4> HIDE DEF P, at
      <4> QED BY <2>3, <2>5, <3>1, <3>2, <2>a
    <3>4. ASSUME NEW k \in 1 .. w PROVE buffer[P[Columns + 1] + k - 1] = form.eol[k]
      <4>1. (z + len) + k \in 1 .. Size /\ (z + len) + k = P[Columns + 1] + k - 1
        <5> HIDE DEF P, at
        <5> QED BY <2>3, <2>5, <3>2, <2>a
      <4>2. wide[(z + len) + k] = form.eol[k]
        BY <1>7 DEF z, len
      <4> QED BY <4>1, <4>2, <1>9
    <3> HIDE DEF P, at
    <3>5. InLine(P, Texts(n), at[n + 1])
      BY <2>5, <2>8, <3>3, <3>4 DEF InLine, w
    <3> QED BY <2>5, <3>5
  <2>10. CASE ~form.ended /\ n = L
    <3>1. at[n + 1] = Size + 1 /\ Size = z + len /\ len # 0
      <4>1. n + 1 = L + 1 /\ Size = o[n] - w
        BY <2>10, <2>b
      <4>2. len # 0
        BY <2>10, <2>b, <2>c
      <4>3. at[n + 1] = Size + 1
        BY <4>1, <2>3
      <4>4. Size = z + len
        BY <4>1, <2>3
      <4> QED BY <4>2, <4>3, <4>4
    <3> HIDE DEF P, at
    <3>2. at[n + 1] = P[Columns + 1] /\ P[1] < at[n + 1]
      BY <2>3, <2>5, <3>1
    <3>3. InLine(P, Texts(n), at[n + 1])
      BY <2>5, <2>8, <2>10, <3>1, <3>2 DEF InLine
    <3> QED BY <2>5, <3>3
  <2> QED BY <2>9, <2>10
<1> HIDE DEF at
<1> QED BY <1>9, <1>10, <1>11, <1>12 DEF L

-----------------------------------------------------------------------------
(* The fields of a line                                                    *)

(* How a field may stand in a line: as it is, or in quotes.                *)
Stands(text, field) ==
  \/ text = field /\ {Delimiter, Quote, NL, CR} \cap ToSet(field) = {}
  \/ text = <<Quote>> \o field \o <<Quote>> /\ Quote \notin ToSet(field)

(* A cell that is not misread is written in a way in which it can stand.   *)
LEMMA WrittenStands ==
  ASSUME NEW cell, IsText(cell), ~Misread(cell)
  PROVE  Stands(Written(cell), Plain(cell))
<1>1. CASE cell = Null
  BY <1>1 DEF Written, Plain, Stands, ToSet
<1>2. CASE cell # Null
  <2>1. cell \in Seq(Bytes) /\ {Quote, CR} \cap ToSet(cell) = {} /\ Plain(cell) = cell
    BY <1>2 DEF IsText, Misread, HasByte, Plain
  <2>2. Doubled(cell) = cell
    BY <2>1, DoubledSame
  <2>3. CASE NeedsQuote(cell)
    BY <1>2, <2>1, <2>2, <2>3 DEF Written, Stands
  <2>4. CASE ~NeedsQuote(cell)
    BY <1>2, <2>1, <2>4 DEF Written, Stands, NeedsQuote
  <2> QED BY <2>3, <2>4
<1> QED BY <1>1, <1>2

(* Find stops at the first of the bytes, or behind the end.                *)
LEMMA FindIs ==
  ASSUME NEW bytes, NEW p \in Nat, NEW e \in Nat, NEW q \in p .. e + 1,
         \A i \in p .. q - 1 : buffer[i] \notin bytes, q <= e => buffer[q] \in bytes
  PROVE  Find(bytes, p, e) = q
<1> DEFINE at == {i \in p .. e : buffer[i] \in bytes}
<1>1. CASE q = e + 1
  <2>1. at = {}
    BY <1>1
  <2> QED BY <1>1, <2>1 DEF Find
<1>2. CASE q # e + 1
  <2>1. q \in at /\ \A j \in at : q <= j
    BY <1>2
  <2>2. \A i \in at : (\A j \in at : i <= j) => i = q
    <3> SUFFICES ASSUME NEW i \in at, \A j \in at : i <= j PROVE i = q
      OBVIOUS
    <3>1. i <= q /\ q <= i /\ i \in Nat
      BY <2>1
    <3> QED BY <3>1
  <2>3. Find(bytes, p, e) = CHOOSE i \in at : \A j \in at : i <= j
    BY <2>1 DEF Find
  <2> HIDE DEF at
  <2>4. (CHOOSE i \in at : \A j \in at : i <= j) = q
    BY <2>1, <2>2
  <2> QED BY <2>3, <2>4
<1> QED BY <1>1, <1>2

(* A part of the buffer that has the bytes of a field is the field.        *)
LEMMA SubSeqIs ==
  ASSUME buffer \in Seq(Bytes), NEW field \in Seq(Bytes), NEW p \in Nat \ {0}, NEW q \in Int,
         q = p + Len(field) - 1, q <= Size, \A k \in 1 .. Len(field) : buffer[p + k - 1] = field[k]
  PROVE  SubSeq(buffer, p, q) = field
<1> DEFINE n == Len(field)
<1>1. n \in Nat /\ q - p + 1 = n
  OBVIOUS
<1>2. SubSeq(buffer, p, q) = [k \in 1 .. q - p + 1 |-> buffer[p + k - 1]]
  BY DEF Size
<1>3. field = [k \in 1 .. n |-> field[k]]
  OBVIOUS
<1> HIDE DEF n
<1> QED BY <1>1, <1>2, <1>3 DEF n

-----------------------------------------------------------------------------
(* A line of the file, read in a range that goes up to e.                  *)

LineIsIn(P, texts, next, e) ==
  /\ texts \in [1 .. Columns -> Seq(Bytes)]
  /\ InLine(P, texts, next) /\ next <= e + 1 /\ e \in Nat /\ e <= Size
  /\ buffer \in Seq(Bytes) /\ form.eol \in {<<NL>>, <<CR, NL>>}

(* The fields of a line come one behind the other, and end with the line.  *)
LEMMA LineOrder ==
  ASSUME NEW P, NEW texts, NEW next, NEW e, LineIsIn(P, texts, next, e)
  PROVE  /\ Columns \in Nat /\ Columns >= 1 /\ Size \in Nat /\ next \in Nat
         /\ \A c \in 1 .. Columns + 1 : P[c] \in Nat \ {0} /\ P[c] <= P[Columns + 1]
         /\ P[Columns + 1] <= next /\ P[Columns + 1] <= e + 1 /\ P[1] < next
         /\ \A c \in 1 .. Columns : Len(texts[c]) \in Nat /\ P[c] + Len(texts[c]) <= P[c + 1]
         /\ AtEnd(P[Columns + 1], e)
<1>1. Columns \in Nat /\ Columns >= 1 /\ Size \in Nat /\ e \in Nat
  BY CsvFileAssumption DEF LineIsIn, Size
<1>2. \A c \in 1 .. Columns + 1 : P[c] \in Nat \ {0}
  BY DEF LineIsIn, InLine
<1>3. ASSUME NEW c \in 1 .. Columns
      PROVE  Len(texts[c]) \in Nat /\ P[c] + Len(texts[c]) <= P[c + 1] /\ P[c] <= P[c + 1]
  <2>1. P[c + 1] = P[c] + Len(texts[c]) + (IF c < Columns THEN 1 ELSE 0)
    BY DEF LineIsIn, InLine
  <2>2. texts[c] \in Seq(Bytes)
    BY DEF LineIsIn
  <2>3. Len(texts[c]) \in Nat
    BY <2>2
  <2>4. c \in 1 .. Columns + 1
    BY <1>1
  <2>5. P[c] \in Nat
    BY <1>2, <2>4
  <2> QED BY <2>1, <2>3, <2>5
<1>4. ASSUME NEW c \in 1 .. Columns + 1 PROVE P[c] <= P[Columns + 1]
  <2> DEFINE g == [j \in 0 .. Columns |-> P[j + 1]]
  <2>1. \A j \in 0 .. Columns : g[j] \in Nat
    <3>1. \A j \in 0 .. Columns : j + 1 \in 1 .. Columns + 1
      BY <1>1
    <3> QED BY <1>2, <3>1
  <2>2. \A j \in 1 .. Columns : g[j - 1] <= g[j]
    <3> SUFFICES ASSUME NEW j \in 1 .. Columns PROVE g[j - 1] <= g[j]
      OBVIOUS
    <3>1. j - 1 \in 0 .. Columns /\ j \in 0 .. Columns /\ (j - 1) + 1 = j
      BY <1>1
    <3> QED BY <3>1, <1>3
  <2>3. c - 1 \in 0 .. Columns /\ Columns \in 0 .. Columns /\ c - 1 <= Columns /\ (c - 1) + 1 = c
    BY <1>1
  <2>4. g[c - 1] = P[c] /\ g[Columns] = P[Columns + 1]
    BY <2>3
  <2> HIDE DEF g
  <2>5. g[c - 1] <= g[Columns]
    BY <1>1, <2>1, <2>2, <2>3, Growing
  <2> QED BY <2>4, <2>5
<1> DEFINE p == P[Columns + 1]
<1>5. p \in Nat \ {0} /\ P[1] \in Nat \ {0} /\ P[1] <= p
  BY <1>1, <1>2, <1>4
<1>6. \/ /\ next = p + Len(form.eol) /\ next <= Size + 1
         /\ \A k \in 1 .. Len(form.eol) : buffer[p + k - 1] = form.eol[k]
      \/ next = p /\ next = Size + 1 /\ P[1] < next
  BY DEF LineIsIn, InLine
<1>7. next <= e + 1 /\ e <= Size
  BY DEF LineIsIn
<1> HIDE DEF p
<1>8. /\ Len(form.eol) \in {1, 2} /\ form.eol[1] \in {NL, CR}
  BY DEF LineIsIn
<1>9. next \in Nat /\ p <= next /\ p <= e + 1 /\ P[1] < next
  BY SMTT(40), <1>1, <1>5, <1>6, <1>7, <1>8
<1>10. AtEnd(p, e)
  <2>1. CASE next = p
    BY <2>1, <1>1, <1>5, <1>6, <1>7, <1>8 DEF AtEnd
  <2>2. CASE next # p
    <3>1. 1 \in 1 .. Len(form.eol)
      BY <1>8
    <3>2. buffer[p + 1 - 1] = form.eol[1] /\ p + 1 - 1 = p
      BY <1>5, <1>6, <2>2, <3>1
    <3> QED BY <1>8, <3>2 DEF AtEnd
  <2> QED BY <2>1, <2>2
<1> QED BY <1>1, <1>2, <1>3, <1>4, <1>9, <1>10 DEF p

(* The field at the place of a column is the one that stands there.        *)
LEMMA NextFieldIs ==
  ASSUME NEW P, NEW texts, NEW next, NEW e, LineIsIn(P, texts, next, e),
         NEW c \in 1 .. Columns, NEW field \in Seq(Bytes), Stands(texts[c], field),
         c < Columns \/ texts[c] # <<>>
  PROVE  /\ ~AtEnd(P[c], e)
         /\ NextField(P[c], e) = [field |-> field, pos |-> P[c + 1]]
<1> DEFINE p == P[c]
           t == texts[c]
           l == Len(t)
           z == p + l
           n == Len(field)
<1>1. /\ Columns \in Nat /\ Size \in Nat /\ p \in Nat \ {0} /\ l \in Nat /\ e \in Nat /\ e <= Size
      /\ P[c + 1] <= e + 1 /\ P[c + 1] \in Nat /\ z <= P[c + 1]
  <2>1. c \in 1 .. Columns + 1 /\ c + 1 \in 1 .. Columns + 1
    BY LineOrder
  <2>2. P[c + 1] <= P[Columns + 1] /\ P[Columns + 1] <= e + 1 /\ P[Columns + 1] \in Nat
    <3>1. Columns + 1 \in 1 .. Columns + 1
      BY LineOrder
    <3> QED BY <2>1, <3>1, LineOrder
  <2>3. e \in Nat /\ e <= Size
    BY DEF LineIsIn
  <2>4. P[c + 1] \in Nat /\ p \in Nat \ {0} /\ l \in Nat /\ z <= P[c + 1]
    BY <2>1, LineOrder
  <2> QED BY SMTT(40), <2>2, <2>3, <2>4, LineOrder
<1>2. /\ P[c + 1] = p + l + (IF c < Columns THEN 1 ELSE 0)
      /\ \A k \in 1 .. l : buffer[p + k - 1] = t[k]
      /\ c < Columns => buffer[P[c + 1] - 1] = Delimiter
  BY DEF LineIsIn, InLine
<1>3. t \in Seq(Bytes) /\ buffer \in Seq(Bytes)
  BY DEF LineIsIn
<1>4. c # Columns => c < Columns
  BY <1>1
<1>5. c = Columns => AtEnd(P[c + 1], e)
  BY LineOrder
<1>6. Delimiter # Quote /\ Delimiter \notin {NL, CR} /\ Quote \notin {NL, CR}
  BY CsvFileAssumption
<1>a. t # <<>> => l > 0
  BY <1>3
<1>b. \/ t = field /\ {Delimiter, Quote, NL, CR} \cap ToSet(field) = {}
      \/ t = <<Quote>> \o field \o <<Quote>> /\ Quote \notin ToSet(field)
  BY DEF Stands
<1>c. c < Columns \/ t # <<>>
  OBVIOUS
<1> HIDE DEF p, t, l
<1>7. z \in Nat \ {0} /\ z <= e + 1
  BY <1>1
<1>8. c < Columns => P[c + 1] = z + 1 /\ buffer[z] = Delimiter /\ z <= e
  <2>1. c < Columns => P[c + 1] = z + 1
    BY <1>1, <1>2
  <2>2. z + 1 - 1 = z
    BY <1>7
  <2> QED BY <1>1, <1>2, <1>7, <2>1, <2>2
<1>9. c = Columns => P[c + 1] = z /\ (z > e \/ buffer[z] \in {NL, CR})
  BY <1>1, <1>2, <1>5 DEF AtEnd
<1>10. Skip(Delimiter, z, e) = P[c + 1]
  <2>1. CASE c < Columns
    BY <1>8, <2>1 DEF Skip
  <2>2. CASE c = Columns
    BY <1>1, <1>6, <1>7, <1>9, <2>2 DEF Skip
  <2> QED BY <1>4, <2>1, <2>2
<1>11. z <= e => buffer[z] \in {Delimiter, NL, CR}
  BY <1>1, <1>4, <1>7, <1>8, <1>9
<1>12. n \in Nat /\ \A k \in 1 .. n : field[k] \in ToSet(field)
  BY DEF ToSet
<1> HIDE DEF n, z
<1>z. z = p + l
  BY DEF z
<1>13. CASE t = field /\ {Delimiter, Quote, NL, CR} \cap ToSet(field) = {}
  <2>1. l = n /\ \A k \in 1 .. n : buffer[p + k - 1] = field[k]
                                 /\ buffer[p + k - 1] \notin {Delimiter, Quote, NL, CR}
    BY <1>2, <1>12, <1>13 DEF n, l
  <2>2. ASSUME NEW i \in p .. z - 1 PROVE buffer[i] \notin {Delimiter, Quote, NL, CR}
    <3>1. i - p + 1 \in 1 .. n /\ p + (i - p + 1) - 1 = i
      BY <1>1, <1>12, <2>1, <1>z
    <3> QED BY <3>1, <2>1
  <2>3. ~AtEnd(p, e) /\ buffer[p] # Quote
    <3>1. CASE l = 0
      <4>1. c < Columns /\ z = p
        BY <1>1, <1>a, <1>c, <1>z, <3>1
      <4> QED BY <4>1, <1>1, <1>6, <1>8 DEF AtEnd
    <3>2. CASE l # 0
      <4>1. p \in p .. z - 1 /\ p <= e
        BY <1>1, <1>7, <1>z, <3>2
      <4>2. buffer[p] \notin {Delimiter, Quote, NL, CR}
        BY <4>1, <2>2
      <4> QED BY <4>1, <4>2, <1>1 DEF AtEnd
    <3> QED BY <3>1, <3>2
  <2>4. Find({Delimiter, NL, CR}, p, e) = z
    <3>1. z \in p .. e + 1
      BY <1>1, <1>7, <1>z
    <3>2. \A i \in p .. z - 1 : buffer[i] \notin {Delimiter, NL, CR}
      BY <2>2
    <3>3. p \in Nat /\ e \in Nat
      BY <1>1
    <3> QED BY <3>1, <3>2, <3>3, <1>11, FindIs
  <2>5. SubSeq(buffer, p, z - 1) = field
    <3>1. z - 1 = p + n - 1 /\ z - 1 <= Size /\ z - 1 \in Int
      BY <1>1, <1>7, <1>12, <2>1, <1>z
    <3> QED BY <3>1, <2>1, <1>1, <1>3, SubSeqIs DEF n
  <2>6. NextField(p, e) = [field |-> field, pos |-> P[c + 1]]
    BY <2>3, <2>4, <2>5, <1>10 DEF NextField
  <2> QED BY <2>3, <2>6 DEF p
<1>14. CASE t = <<Quote>> \o field \o <<Quote>> /\ Quote \notin ToSet(field)
  <2>1. /\ l = n + 2 /\ buffer[p] = Quote /\ buffer[z - 1] = Quote
        /\ \A k \in 1 .. n : buffer[(p + 1) + k - 1] = field[k]
    <3> DEFINE a == <<Quote>>
               d == field
               m == a \o d
    <3>1. a \in Seq(Bytes) /\ d \in Seq(Bytes) /\ Len(a) = 1 /\ a[1] = Quote
      BY DEF Bytes
    <3>0. t = m \o a
      BY <1>14
    <3> HIDE DEF a, d, m
    <3>a. a \in Seq(Bytes) /\ d \in Seq(Bytes)
      BY <3>1
    <3>2. /\ m \in Seq(Bytes) /\ Len(m) = Len(a) + Len(d)
          /\ \A k \in 1 .. Len(a) : m[k] = a[k]
          /\ \A k \in 1 .. Len(d) : m[Len(a) + k] = d[k]
      BY <3>a, ConcatPlaces DEF m
    <3>b. m \in Seq(Bytes)
      BY <3>2
    <3>3. /\ Len(t) = Len(m) + Len(a)
          /\ \A k \in 1 .. Len(m) : t[k] = m[k]
          /\ \A k \in 1 .. Len(a) : t[Len(m) + k] = a[k]
      BY <3>0, <3>a, <3>b, ConcatPlaces
    <3>4. Len(d) = n
      BY DEF d, n
    <3>5. Len(m) = 1 + n /\ l = n + 2
      BY <1>12, <3>1, <3>2, <3>3, <3>4 DEF l
    <3>6. t[1] = Quote /\ t[l] = Quote
      <4>1. 1 \in 1 .. Len(a) /\ 1 \in 1 .. Len(m)
        BY <1>12, <3>1, <3>5
      <4>2. t[1] = a[1] /\ t[Len(m) + 1] = a[1]
        BY <4>1, <3>2, <3>3
      <4>3. Len(m) + 1 = l
        BY <1>12, <3>5
      <4> QED BY <4>2, <4>3, <3>1
    <3>7. ASSUME NEW k \in 1 .. n PROVE t[1 + k] = field[k]
      <4>1. 1 + k \in 1 .. Len(m) /\ k \in 1 .. Len(d)
        BY <1>12, <3>4, <3>5
      <4>2. t[1 + k] = m[1 + k] /\ m[Len(a) + k] = d[k]
        BY <4>1, <3>2, <3>3
      <4> QED BY <4>2, <3>1 DEF d
    <3>8. buffer[p] = Quote
      <4>1. 1 \in 1 .. l /\ p + 1 - 1 = p
        BY <1>1, <1>12, <3>5
      <4> QED BY <4>1, <3>6, <1>2
    <3>9. buffer[z - 1] = Quote
      <4>1. l \in 1 .. l /\ p + l - 1 = z - 1
        BY <1>1, <1>12, <1>z, <3>5
      <4> QED BY <4>1, <3>6, <1>2
    <3>10. ASSUME NEW k \in 1 .. n PROVE buffer[(p + 1) + k - 1] = field[k]
      <4>1. 1 + k \in 1 .. l /\ (p + 1) + k - 1 = p + (1 + k) - 1
        BY <1>1, <1>12, <3>5
      <4>2. buffer[p + (1 + k) - 1] = t[1 + k]
        BY <4>1, <1>2
      <4> QED BY <4>1, <4>2, <3>7
    <3> QED BY <3>5, <3>8, <3>9, <3>10
  <2>2. p <= e /\ z - 1 <= e /\ z - 1 \in (p + 1) .. e + 1 /\ (z - 1) + 1 = z
    BY <1>1, <1>7, <1>12, <2>1, <1>z
  <2>3. ~AtEnd(p, e)
    BY <1>1, <1>6, <2>1, <2>2 DEF AtEnd
  <2>4. Find({Quote}, p + 1, e) = z - 1
    <3>1. ASSUME NEW i \in (p + 1) .. (z - 1) - 1 PROVE buffer[i] \notin {Quote}
      <4>1. i - p \in 1 .. n /\ (p + 1) + (i - p) - 1 = i
        BY <1>1, <1>12, <2>1, <1>z
      <4>2. buffer[i] = field[i - p]
        BY <4>1, <2>1
      <4> QED BY <4>1, <4>2, <1>12, <1>14
    <3>2. p + 1 \in Nat /\ e \in Nat
      BY <1>1
    <3> QED BY ZenonT(60), <3>1, <3>2, <2>1, <2>2, FindIs
  <2>5. SubSeq(buffer, p + 1, (z - 1) - 1) = field
    <3>1. (z - 1) - 1 = (p + 1) + n - 1 /\ (z - 1) - 1 <= Size /\ (z - 1) - 1 \in Int
          /\ p + 1 \in Nat \ {0}
      BY <1>1, <1>7, <1>12, <2>1, <1>z
    <3> QED BY <3>1, <2>1, <1>3, SubSeqIs DEF n
  <2>6. NextField(p, e) = [field |-> field, pos |-> P[c + 1]]
    BY <2>1, <2>2, <2>4, <2>5, <1>10 DEF NextField
  <2> QED BY <2>3, <2>6 DEF p
<1> QED BY <1>b, <1>13, <1>14

(* Two computations that begin and go on in the same way are the same.     *)
LEMMA SameSteps ==
  ASSUME NEW n \in Nat, NEW g, NEW h, g[0] = h[0],
         \A k \in 1 .. n : g[k - 1] = h[k - 1] => g[k] = h[k]
  PROVE  \A k \in 0 .. n : g[k] = h[k]
<1> DEFINE G == {k \in Nat : k <= n => g[k] = h[k]}
<1>1. 0 \in G
  OBVIOUS
<1>2. ASSUME NEW k \in Nat, k \in G PROVE k + 1 \in G
  <2> SUFFICES ASSUME k + 1 <= n PROVE g[k + 1] = h[k + 1]
    OBVIOUS
  <2>1. k <= n /\ k + 1 \in 1 .. n /\ (k + 1) - 1 = k
    OBVIOUS
  <2> QED BY <1>2, <2>1
<1>3. \A k \in Nat : k \in G
  <2> HIDE DEF G
  <2> QED BY <1>1, <1>2, Induction
<1> QED BY <1>3

(* A set of numbers has a least one.                                       *)
LEMMA LeastIs ==
  ASSUME NEW S \in SUBSET Nat, S # {}
  PROVE  Least(S) \in S /\ \A x \in S : Least(S) <= x
<1> DEFINE G == {n \in Nat : \A x \in S : x > n}
<1>1. \E m \in S : \A x \in S : m <= x
  <2> SUFFICES ASSUME \A m \in S : \E x \in S : ~(m <= x) PROVE FALSE
    OBVIOUS
  <2>1. 0 \in G
    <3> SUFFICES ASSUME NEW x \in S, ~(x > 0) PROVE FALSE
      OBVIOUS
    <3>1. x = 0
      OBVIOUS
    <3> QED BY <3>1
  <2>2. ASSUME NEW n \in Nat, n \in G PROVE n + 1 \in G
    <3> SUFFICES ASSUME NEW x \in S, ~(x > n + 1) PROVE FALSE
      OBVIOUS
    <3>1. x = n + 1
      BY <2>2
    <3>2. PICK y \in S : ~(x <= y)
      OBVIOUS
    <3> QED BY <2>2, <3>1, <3>2
  <2>3. \A n \in Nat : n \in G
    <3> HIDE DEF G
    <3> QED BY <2>1, <2>2, Induction
  <2>4. PICK x \in S : TRUE
    OBVIOUS
  <2>5. x \in G
    BY <2>3
  <2> QED BY <2>5
<1> QED BY <1>1 DEF Least

(* A set of numbers with a bound has a greatest one.                       *)
LEMMA GreatestIs ==
  ASSUME NEW n \in Nat, NEW S \in SUBSET (0 .. n), S # {}
  PROVE  Greatest(S) \in S /\ \A x \in S : x <= Greatest(S)
<1> DEFINE R == {n - x : x \in S}
<1>1. R \in SUBSET Nat /\ R # {}
  <2>1. PICK x \in S : TRUE
    OBVIOUS
  <2>2. n - x \in R
    OBVIOUS
  <2>3. \A y \in S : n - y \in Nat
    OBVIOUS
  <2> QED BY <2>2, <2>3
<1>2. Least(R) \in R /\ \A y \in R : Least(R) <= y
  <2> HIDE DEF R
  <2> QED BY <1>1, LeastIs
<1>3. PICK m \in S : Least(R) = n - m
  BY <1>2
<1>4. \A x \in S : x <= m
  <2> SUFFICES ASSUME NEW x \in S PROVE x <= m
    OBVIOUS
  <2>1. n - m <= n - x
    BY <1>2, <1>3
  <2> QED BY <2>1
<1> QED BY <1>4 DEF Greatest

-----------------------------------------------------------------------------
(* The lesser of two numbers.                                              *)
Fewer(a, b) == IF a <= b THEN a ELSE b

(* The fields that can be seen: not a last one that is empty.              *)
Visible(texts) == IF texts[Columns] = <<>> THEN Columns - 1 ELSE Columns

(* Every field stands at its place in the line.                            *)
AllStand(texts, F) == /\ F \in [1 .. Columns -> Seq(Bytes)]
                      /\ \A c \in 1 .. Columns : Stands(texts[c], F[c])

(* The fields that are read of a line, from one of them on, are those it   *)
(* has.                                                                    *)
LEMMA FieldsFromIs ==
  ASSUME NEW P, NEW texts, NEW next, NEW e, LineIsIn(P, texts, next, e),
         NEW F, AllStand(texts, F), NEW s \in 1 .. Columns, NEW n \in Nat,
         NEW K, K = Fewer(n, Visible(texts) + 1 - s)
  PROVE  FieldsFrom(P[s], e, n) = [fields |-> [j \in 1 .. K |-> F[s + j - 1]], pos |-> P[s + K]]
<1> DEFINE R == Visible(texts) + 1 - s
           C == Columns
           At(k) == [fields |-> [j \in 1 .. Fewer(k, R) |-> F[s + j - 1]], pos |-> P[s + Fewer(k, R)]]
           g == [k \in 0 .. n |-> At(k)]
           E(q) == [k \in 0 .. n |-> IF k = 0 THEN [fields |-> <<>>, pos |-> P[s]]
                                     ELSE WithField(q[k - 1], e)]
           h == CHOOSE q : q = E(q)
<1>1. /\ C \in Nat /\ s \in Nat /\ s >= 1 /\ s <= C /\ R \in Nat
      /\ Visible(texts) \in {C - 1, C} /\ s + R = Visible(texts) + 1
  BY LineOrder DEF Visible
<1>2. AtEnd(P[s + R], e)
  <2>1. P[Visible(texts) + 1] = P[C + 1]
    <3>1. CASE texts[C] = <<>>
      <4>1. C \in 1 .. C /\ ~(C < C)
        BY <1>1
      <4>2. P[C + 1] = P[C] + Len(texts[C]) + 0
        BY <4>1 DEF LineIsIn, InLine
      <4>3. Len(texts[C]) = 0
        BY <3>1
      <4>4. P[C] \in Nat
        BY <4>1, LineOrder
      <4>5. Visible(texts) + 1 = C
        BY <1>1, <3>1 DEF Visible
      <4> QED BY <4>2, <4>3, <4>4, <4>5
    <3>2. CASE texts[C] # <<>>
      BY <3>2 DEF Visible
    <3> QED BY <3>1, <3>2
  <2> QED BY <1>1, <2>1, LineOrder
<1>3. At(0) = [fields |-> <<>>, pos |-> P[s]]
  <2>1. Fewer(0, R) = 0 /\ s + 0 = s
    BY <1>1 DEF Fewer
  <2>2. [j \in 1 .. 0 |-> F[s + j - 1]] = <<>>
    OBVIOUS
  <2> QED BY <2>1, <2>2
<1>4. ASSUME NEW k \in 1 .. n PROVE At(k) = WithField(At(k - 1), e)
  <2>1. CASE k > R
    <3>1. Fewer(k, R) = R /\ Fewer(k - 1, R) = R
      BY <1>1, <2>1 DEF Fewer
    <3>2. At(k) = At(k - 1) /\ At(k - 1).pos = P[s + R]
      BY <3>1
    <3> HIDE DEF At
    <3> QED BY <1>2, <3>2 DEF WithField
  <2>2. CASE k <= R
    <3> DEFINE c == s + k - 1
               line == [j \in 1 .. k - 1 |-> F[s + j - 1]]
    <3>1. Fewer(k, R) = k /\ Fewer(k - 1, R) = k - 1 /\ s + (k - 1) = c /\ s + k = c + 1
      BY <1>1, <2>2 DEF Fewer
    <3>2. c \in 1 .. C /\ c <= Visible(texts)
      BY <1>1, <2>2
    <3>3. c < C \/ texts[c] # <<>>
      <4>1. CASE c = C
        BY <1>1, <3>2, <4>1 DEF Visible
      <4>2. CASE c # C
        BY <1>1, <3>2, <4>2
      <4> QED BY <4>1, <4>2
    <3>4. F[c] \in Seq(Bytes) /\ Stands(texts[c], F[c])
      BY <3>2 DEF AllStand
    <3>5. ~AtEnd(P[c], e) /\ NextField(P[c], e) = [field |-> F[c], pos |-> P[c + 1]]
      <4> HIDE DEF c
      <4> QED BY <3>2, <3>3, <3>4, NextFieldIs
    <3>6. At(k - 1) = [fields |-> line, pos |-> P[c]]
      BY <3>1
    <3>7. WithField(At(k - 1), e) = [fields |-> Append(line, F[c]), pos |-> P[c + 1]]
      <4> DEFINE a == At(k - 1)
                 f == NextField(P[c], e)
      <4>1. a.fields = line /\ a.pos = P[c]
        BY <3>6
      <4>2. ~AtEnd(P[c], e) /\ f.field = F[c] /\ f.pos = P[c + 1]
        BY <3>5
      <4> HIDE DEF At, line, c, a
      <4>3. WithField(a, e) = [fields |-> Append(a.fields, f.field), pos |-> f.pos]
        BY <4>1, <4>2 DEF WithField
      <4> HIDE DEF f
      <4> QED BY <4>1, <4>2, <4>3 DEF a
    <3>8. Append(line, F[c]) = [j \in 1 .. k |-> F[s + j - 1]]
      <4>1. k \in Nat /\ k >= 1
        OBVIOUS
      <4>2. \A j \in 1 .. k : s + j - 1 \in 1 .. C
        BY <1>1, <3>2
      <4> DEFINE T == {F[j] : j \in 1 .. C}
      <4>3. line \in Seq(T) /\ Len(line) = k - 1
        <5>1. \A j \in 1 .. k - 1 : F[s + j - 1] \in T
          BY <4>2
        <5> HIDE DEF T
        <5> QED BY <4>1, <5>1
      <4>4. \A j \in 1 .. k - 1 : line[j] = F[s + j - 1]
        OBVIOUS
      <4>5. F[c] = F[s + k - 1] /\ F[c] \in T
        BY <3>2
      <4> HIDE DEF line, T, c
      <4> DEFINE x == F[c]
                 more == Append(line, x)
      <4>6. x \in T
        BY <4>5
      <4> HIDE DEF x
      <4>7. /\ Len(more) = k /\ more \in Seq(T) /\ more[k] = x
            /\ \A j \in 1 .. k - 1 : more[j] = line[j]
        BY <4>1, <4>3, <4>6
      <4> HIDE DEF more
      <4>8. \A j \in 1 .. k : more[j] = F[s + j - 1]
        <5> SUFFICES ASSUME NEW j \in 1 .. k PROVE more[j] = F[s + j - 1]
          OBVIOUS
        <5>1. j = k \/ j \in 1 .. k - 1
          BY <4>1
        <5> QED BY <5>1, <4>4, <4>5, <4>7 DEF x
      <4>9. more = [j \in 1 .. k |-> more[j]]
        BY <4>7
      <4>10. more = [j \in 1 .. k |-> F[s + j - 1]]
        BY <4>8, <4>9
      <4> QED BY <4>10 DEF more, x
    <3> QED BY <3>1, <3>7, <3>8
  <2> QED BY <1>1, <2>1, <2>2
<1>5. g = E(g)
  <2>1. \A k \in 0 .. n : k # 0 => k \in 1 .. n /\ k - 1 \in 0 .. n
    OBVIOUS
  <2> HIDE DEF At
  <2>2. \A k \in 0 .. n : g[k] = IF k = 0 THEN [fields |-> <<>>, pos |-> P[s]]
                                 ELSE WithField(g[k - 1], e)
    BY <1>3, <1>4, <2>1
  <2> QED BY <2>2
<1>6. h = E(h)
  <2> HIDE DEF g, E
  <2> QED BY <1>5
<1>7. FieldsFrom(P[s], e, n) = h[n]
  BY DEF FieldsFrom
<1>8. \A k \in 0 .. n : g[k] = h[k]
  <2>1. h[0] = [fields |-> <<>>, pos |-> P[s]] /\ g[0] = h[0]
    <3> HIDE DEF h, At
    <3> QED BY <1>3, <1>6
  <2>2. ASSUME NEW k \in 1 .. n, g[k - 1] = h[k - 1] PROVE g[k] = h[k]
    <3>1. k \in 0 .. n /\ k # 0 /\ k - 1 \in 0 .. n
      OBVIOUS
    <3>2. h[k] = WithField(h[k - 1], e)
      <4> HIDE DEF h
      <4> QED BY <1>6, <3>1
    <3>3. g[k] = WithField(g[k - 1], e)
      <4> HIDE DEF At
      <4> QED BY <1>4, <3>1
    <3> HIDE DEF g, h
    <3> QED BY <2>2, <3>2, <3>3
  <2> HIDE DEF g, h
  <2>3. g[0] = h[0] /\ \A k \in 1 .. n : g[k - 1] = h[k - 1] => g[k] = h[k]
    BY <2>1, <2>2
  <2> QED BY SMTT(40), <2>3, SameSteps
<1> HIDE DEF h
<1> QED BY <1>7, <1>8

-----------------------------------------------------------------------------
(* Every byte of a line before its end is a delimiter or of a text.        *)
LEMMA LineBytes ==
  ASSUME NEW P, NEW texts, NEW next, NEW e, LineIsIn(P, texts, next, e), NEW d \in 1 .. Columns + 1,
         NEW i \in P[d] .. P[Columns + 1] - 1
  PROVE  buffer[i] = Delimiter \/ \E c \in d .. Columns : buffer[i] \in ToSet(texts[c])
<1> DEFINE Q(j) == \A x \in P[d] .. P[d + j] - 1 :
                     buffer[x] = Delimiter \/ \E c \in d .. Columns : buffer[x] \in ToSet(texts[c])
           G == {j \in Nat : d + j <= Columns + 1 => Q(j)}
<1>1. \A c \in 1 .. Columns + 1 : P[c] \in Nat
  BY LineOrder
<1>2. 0 \in G
  <2>1. d + 0 = d /\ P[d] \in Nat
    BY <1>1
  <2> QED BY <2>1
<1>3. ASSUME NEW j \in Nat, j \in G PROVE j + 1 \in G
  <2> SUFFICES ASSUME d + (j + 1) <= Columns + 1, NEW x \in P[d] .. P[d + (j + 1)] - 1
               PROVE  buffer[x] = Delimiter \/ \E c \in d .. Columns : buffer[x] \in ToSet(texts[c])
    OBVIOUS
  <2> DEFINE c == d + j
  <2>1. c \in 1 .. Columns /\ c \in d .. Columns /\ d + (j + 1) = c + 1 /\ c <= Columns + 1
        /\ c + 1 \in 1 .. Columns + 1 /\ c \in 1 .. Columns + 1
    BY LineOrder
  <2>2. /\ P[c + 1] = P[c] + Len(texts[c]) + (IF c < Columns THEN 1 ELSE 0)
        /\ \A k \in 1 .. Len(texts[c]) : buffer[P[c] + k - 1] = texts[c][k]
        /\ c < Columns => buffer[P[c + 1] - 1] = Delimiter
    BY <2>1 DEF LineIsIn, InLine
  <2>3. P[c] \in Nat /\ P[c + 1] \in Nat /\ P[d] \in Nat /\ Len(texts[c]) \in Nat
        /\ texts[c] \in Seq(Bytes)
    BY <1>1, <2>1, LineOrder DEF LineIsIn
  <2> DEFINE p == P[c]
             l == Len(texts[c])
             b == P[c + 1]
  <2>4. p \in Nat /\ l \in Nat /\ b \in Nat /\ b = p + l + (IF c < Columns THEN 1 ELSE 0)
        /\ x \in Nat /\ x <= b - 1
    BY SMTT(40), <2>1, <2>2, <2>3
  <2>5. CASE x < p
    BY SMTT(40), <1>3, <2>1, <2>3, <2>4, <2>5
  <2>6. CASE x >= p /\ x < p + l
    <3> HIDE DEF l, p, b
    <3>1. x - p + 1 \in 1 .. l /\ p + (x - p + 1) - 1 = x
      BY <2>4, <2>6
    <3>2. buffer[p + (x - p + 1) - 1] = texts[c][x - p + 1]
      BY <3>1, <2>2 DEF p, l
    <3>3. texts[c][x - p + 1] \in ToSet(texts[c])
      BY SMTT(40), <2>3, <3>1 DEF ToSet, l
    <3> QED BY <2>1, <3>1, <3>2, <3>3
  <2>7. CASE x >= p + l
    <3>1. c < Columns /\ x = b - 1
      <4> HIDE DEF l, p, b, c
      <4> QED BY <2>4, <2>7
    <3> QED BY <2>2, <3>1
  <2> QED BY <2>4, <2>5, <2>6, <2>7
<1>4. \A j \in Nat : j \in G
  <2> HIDE DEF G
  <2> QED BY <1>2, <1>3, Induction
<1>5. Columns + 1 - d \in Nat /\ d + (Columns + 1 - d) = Columns + 1
  BY LineOrder
<1>6. Q(Columns + 1 - d)
  <2>1. Columns + 1 - d \in G
    BY <1>4, <1>5
  <2> HIDE DEF Q
  <2> QED BY <1>5, <2>1, LineOrder
<1> QED BY <1>5, <1>6

(* The end of a line is skipped, be it one byte or two.                    *)
LEMMA LineEndIs ==
  ASSUME NEW P, NEW texts, NEW next, NEW e, LineIsIn(P, texts, next, e)
  PROVE  EndLine(P[Columns + 1], e) = next
<1> DEFINE p == P[Columns + 1]
<1>1. p \in Nat /\ e \in Nat /\ next \in Nat /\ e <= Size /\ Size \in Nat /\ next <= e + 1 /\ NL # CR
      /\ form.eol \in {<<NL>>, <<CR, NL>>}
  <2>1. Columns + 1 \in 1 .. Columns + 1
    BY LineOrder
  <2> QED BY <2>1, LineOrder, CsvFileAssumption DEF LineIsIn
<1>2. \/ /\ next = p + Len(form.eol) /\ next <= Size + 1
         /\ \A k \in 1 .. Len(form.eol) : buffer[p + k - 1] = form.eol[k]
      \/ next = p /\ next = Size + 1 /\ P[1] < next
  BY DEF LineIsIn, InLine
<1> HIDE DEF p
<1>3. CASE next = p /\ next = Size + 1
  BY <1>1, <1>3 DEF EndLine, Skip, p
<1>4. CASE /\ next = p + Len(form.eol) /\ next <= Size + 1
           /\ \A k \in 1 .. Len(form.eol) : buffer[p + k - 1] = form.eol[k]
  <2>1. CASE form.eol = <<NL>>
    <3>1. Len(form.eol) = 1 /\ form.eol[1] = NL /\ p + 1 - 1 = p
      BY <1>1, <2>1
    <3>2. buffer[p] = NL /\ next = p + 1
      BY <1>4, <3>1
    <3> QED BY <1>1, <3>2 DEF EndLine, Skip, p
  <2>2. CASE form.eol = <<CR, NL>>
    <3>1. Len(form.eol) = 2 /\ form.eol[1] = CR /\ form.eol[2] = NL /\ p + 1 - 1 = p /\ p + 2 - 1 = p + 1
      BY <1>1, <2>2
    <3>2. buffer[p] = CR /\ buffer[p + 1] = NL /\ next = p + 2
      BY <1>4, <3>1
    <3> QED BY <1>1, <3>2 DEF EndLine, Skip, p
  <2> QED BY <1>1, <2>1, <2>2
<1> QED BY <1>2, <1>3, <1>4

(* From the last field that is read to the next line.                      *)
LEMMA RowEnds ==
  ASSUME NEW P, NEW texts, NEW next, NEW e, LineIsIn(P, texts, next, e), NEW d \in 1 .. Columns + 1,
         \A c \in d .. Columns : NL \notin ToSet(texts[c]) /\ CR \notin ToSet(texts[c])
  PROVE  /\ EndLine(Find({NL, CR}, P[d], e), e) = next
         /\ Skip(NL, Find({NL}, P[d], e), e) = next
<1> DEFINE p == P[Columns + 1]
           q == P[d]
<1>1. p \in Nat /\ q \in Nat /\ q <= p /\ e \in Nat /\ next \in Nat /\ e <= Size /\ Size \in Nat
      /\ next <= e + 1 /\ p <= e + 1 /\ form.eol \in {<<NL>>, <<CR, NL>>}
  <2>1. Columns + 1 \in 1 .. Columns + 1
    BY LineOrder
  <2> QED BY <2>1, LineOrder DEF LineIsIn
<1>2. \/ /\ next = p + Len(form.eol) /\ next <= Size + 1
         /\ \A k \in 1 .. Len(form.eol) : buffer[p + k - 1] = form.eol[k]
      \/ next = p /\ next = Size + 1 /\ P[1] < next
  BY DEF LineIsIn, InLine
<1>3. NL # CR /\ Delimiter \notin {NL, CR}
  BY CsvFileAssumption
<1>4. ASSUME NEW i \in q .. p - 1 PROVE buffer[i] \notin {NL, CR}
  <2>1. buffer[i] = Delimiter \/ \E c \in d .. Columns : buffer[i] \in ToSet(texts[c])
    BY LineBytes
  <2> QED BY <1>3, <2>1
<1>5. AtEnd(p, e)
  BY LineOrder
<1> HIDE DEF p, q
<1>6. Find({NL, CR}, q, e) = p
  <2>1. p <= e => buffer[p] \in {NL, CR}
    BY <1>1, <1>5 DEF AtEnd
  <2>2. p \in q .. e + 1
    BY <1>1
  <2> QED BY <1>1, <1>4, <2>1, <2>2, FindIs
<1>7. EndLine(p, e) = next
  BY LineEndIs DEF p
<1>8. CASE next = p /\ next = Size + 1
  <2>1. Find({NL}, q, e) = p
    <3>1. p \in q .. e + 1 /\ ~(p <= e)
      BY <1>1, <1>8
    <3> DEFINE bytes == {NL}
    <3>2. \A i \in q .. p - 1 : buffer[i] \notin bytes
      BY <1>4
    <3>3. p <= e => buffer[p] \in bytes
      BY <3>1
    <3>4. q \in Nat /\ e \in Nat /\ p \in q .. e + 1
      BY <1>1, <3>1
    <3> HIDE DEF bytes
    <3>5. Find(bytes, q, e) = p
      BY <3>2, <3>3, <3>4, FindIs
    <3> QED BY <3>5 DEF bytes
  <2>2. Skip(NL, p, e) = next
    BY <1>1, <1>8 DEF Skip
  <2> QED BY <1>6, <1>7, <2>1, <2>2 DEF q
<1>9. CASE /\ next = p + Len(form.eol) /\ next <= Size + 1
           /\ \A k \in 1 .. Len(form.eol) : buffer[p + k - 1] = form.eol[k]
  <2>1. CASE form.eol = <<NL>>
    <3>1. Len(form.eol) = 1 /\ form.eol[1] = NL /\ p + 1 - 1 = p
      BY <1>1, <2>1
    <3>2. buffer[p] = NL /\ next = p + 1
      BY <1>9, <3>1
    <3>3. p \in q .. e + 1 /\ p <= e
      BY <1>1, <3>2
    <3>a. \A i \in q .. p - 1 : buffer[i] \notin {NL}
      BY <1>4
    <3>b. buffer[p] \in {NL}
      BY <3>2
    <3>4. Find({NL}, q, e) = p
      BY <1>1, <3>a, <3>b, <3>3, FindIs
    <3> QED BY <1>6, <1>7, <3>2, <3>3, <3>4 DEF Skip, q
  <2>2. CASE form.eol = <<CR, NL>>
    <3>1. Len(form.eol) = 2 /\ form.eol[1] = CR /\ form.eol[2] = NL /\ p + 1 - 1 = p /\ p + 2 - 1 = p + 1
      BY <1>1, <2>2
    <3>2. buffer[p] = CR /\ buffer[p + 1] = NL /\ next = (p + 1) + 1
      BY <1>1, <1>9, <3>1
    <3>3. p + 1 \in q .. e + 1 /\ p + 1 <= e
      BY <1>1, <3>2
    <3>4. \A i \in q .. (p + 1) - 1 : buffer[i] \notin {NL}
      <4> SUFFICES ASSUME NEW i \in q .. (p + 1) - 1 PROVE buffer[i] # NL
        OBVIOUS
      <4>1. i \in q .. p - 1 \/ i = p
        BY <1>1
      <4> QED BY <4>1, <1>3, <1>4, <3>2
    <3>5. Find({NL}, q, e) = p + 1
      BY <1>1, <3>2, <3>3, <3>4, FindIs
    <3> QED BY <1>6, <1>7, <3>2, <3>3, <3>5 DEF Skip, q
  <2> QED BY <1>1, <2>1, <2>2
<1> QED BY <1>2, <1>8, <1>9

-----------------------------------------------------------------------------
(* The columns that are skipped                                            *)

(* What stands in a line is of the bytes of the field and of quotes.       *)
LEMMA StandsBytes ==
  ASSUME NEW field \in Seq(Bytes), NEW text, Stands(text, field)
  PROVE  ToSet(text) \subseteq ToSet(field) \cup {Quote} /\ (text = <<>> => field = <<>>)
<1>1. CASE text = field
  BY <1>1
<1>2. CASE text = <<Quote>> \o field \o <<Quote>>
  <2> DEFINE T == ToSet(field) \cup {Quote}
             a == <<Quote>>
             d == field
             m == a \o d
             n == m \o a
  <2>1. a \in Seq(T) /\ Len(a) = 1
    OBVIOUS
  <2>2. d \in Seq(T)
    <3>1. \A i \in 1 .. Len(field) : field[i] \in T
      BY DEF ToSet
    <3> QED BY <3>1
  <2>3. text = n
    BY <1>2
  <2> HIDE DEF a, d, m, n, T
  <2>4. m \in Seq(T) /\ Len(m) = Len(a) + Len(d)
    BY <2>1, <2>2, ConcatPlaces DEF m
  <2>5. n \in Seq(T) /\ Len(n) = Len(m) + Len(a)
    BY <2>1, <2>4, ConcatPlaces DEF n
  <2>6. Len(m) \in Nat /\ Len(n) \in Nat
    BY <2>4, <2>5
  <2>7. n # <<>>
    <3>1. Len(n) # 0
      BY <2>1, <2>5, <2>6
    <3> QED BY <3>1
  <2>8. ToSet(n) \subseteq T
    BY <2>5 DEF ToSet
  <2> QED BY <2>3, <2>7, <2>8 DEF T
<1> QED BY <1>1, <1>2 DEF Stands

(* A column without a delimiter in it is skipped up to the next one.       *)
LEMMA SkipColumn ==
  ASSUME NEW P, NEW texts, NEW next, NEW e, LineIsIn(P, texts, next, e),
         NEW F, AllStand(texts, F), NEW c \in 1 .. Columns, c < Columns, Delimiter \notin ToSet(F[c])
  PROVE  Skip(Delimiter, Find({Delimiter}, P[c], e), e) = P[c + 1]
<1> DEFINE t == texts[c]
           p == P[c]
           l == Len(t)
           z == p + l
<1>1. /\ P[c + 1] = p + l + 1
      /\ \A k \in 1 .. l : buffer[p + k - 1] = t[k]
      /\ buffer[P[c + 1] - 1] = Delimiter
  BY DEF LineIsIn, InLine
<1>2. p \in Nat /\ l \in Nat /\ e \in Nat /\ P[c + 1] \in Nat /\ P[c + 1] <= e + 1
  <2>1. c \in 1 .. Columns + 1 /\ c + 1 \in 1 .. Columns + 1 /\ Columns + 1 \in 1 .. Columns + 1
    BY LineOrder
  <2>2. P[c + 1] <= P[Columns + 1] /\ P[Columns + 1] <= e + 1 /\ P[Columns + 1] \in Nat
    BY <2>1, LineOrder
  <2>3. e \in Nat
    BY DEF LineIsIn
  <2>4. P[c + 1] \in Nat /\ p \in Nat /\ l \in Nat
    BY <2>1, LineOrder
  <2> QED BY <2>2, <2>3, <2>4
<1>3. Delimiter \notin ToSet(t) /\ t \in Seq(Bytes)
  <2>1. F[c] \in Seq(Bytes) /\ Stands(t, F[c])
    BY DEF AllStand
  <2>2. ToSet(t) \subseteq ToSet(F[c]) \cup {Quote}
    BY <2>1, StandsBytes
  <2>3. t \in Seq(Bytes)
    BY DEF LineIsIn
  <2> QED BY <2>2, <2>3, CsvFileAssumption
<1>4. \A k \in 1 .. l : t[k] # Delimiter
  BY <1>3 DEF ToSet
<1> HIDE DEF t, p, l
<1>5. z \in p .. e + 1 /\ z <= e /\ z \in Nat /\ P[c + 1] = z + 1 /\ buffer[z] = Delimiter
  <2>1. P[c + 1] = z + 1
    BY <1>1
  <2>2. P[c + 1] - 1 = z
    BY <1>2, <2>1
  <2>3. buffer[z] = Delimiter
    BY <1>1, <2>2
  <2> QED BY <1>2, <2>1, <2>3
<1>6. \A i \in p .. z - 1 : buffer[i] \notin {Delimiter}
  <2> SUFFICES ASSUME NEW i \in p .. z - 1 PROVE buffer[i] # Delimiter
    OBVIOUS
  <2>1. i - p + 1 \in 1 .. l /\ p + (i - p + 1) - 1 = i
    BY <1>2
  <2>2. buffer[p + (i - p + 1) - 1] = t[i - p + 1]
    BY <2>1, <1>1
  <2> QED BY <2>1, <2>2, <1>4
<1> HIDE DEF z
<1>7. Find({Delimiter}, p, e) = z
  <2>1. buffer[z] \in {Delimiter}
    BY <1>5
  <2> QED BY <1>2, <1>5, <1>6, <2>1, FindIs
<1>8. Skip(Delimiter, z, e) = z + 1
  BY <1>5 DEF Skip
<1> QED BY <1>5, <1>7, <1>8 DEF p

(* The columns before the first needed one are skipped.                    *)
Skips(start, p, first, e) ==
  start = [c \in 1 .. first |->
             IF c = 1 THEN p ELSE Skip(Delimiter, Find({Delimiter}, start[c - 1], e), e)]

(* The column that is skipped to is the first one that is needed.          *)
LEMMA SkippedTo ==
  ASSUME NEW P, NEW texts, NEW next, NEW e, LineIsIn(P, texts, next, e),
         NEW F, AllStand(texts, F), NEW first \in 1 .. Columns,
         \A c \in 1 .. first - 1 : Delimiter \notin ToSet(F[c]),
         NEW start, Skips(start, P[1], first, e)
  PROVE  start[first] = P[first]
<1> DEFINE N == first - 1
           g == [k \in 0 .. N |-> start[k + 1]]
           h == [k \in 0 .. N |-> P[k + 1]]
<1>1. N \in Nat /\ N + 1 = first /\ first \in Nat /\ first <= Columns /\ Columns \in Nat
  BY LineOrder
<1>2. start[1] = P[1]
  BY <1>1 DEF Skips
<1>3. \A c \in 1 .. first : c # 1 => start[c] = Skip(Delimiter, Find({Delimiter}, start[c - 1], e), e)
  BY DEF Skips
<1>4. \A k \in 0 .. N : g[k] = start[k + 1] /\ h[k] = P[k + 1]
  OBVIOUS
<1>5. g[0] = h[0]
  BY <1>1, <1>2
<1>6. ASSUME NEW k \in 1 .. N, g[k - 1] = h[k - 1] PROVE g[k] = h[k]
  <2>1. k \in 0 .. N /\ k - 1 \in 0 .. N /\ (k - 1) + 1 = k /\ k + 1 \in 1 .. first /\ k + 1 # 1
        /\ (k + 1) - 1 = k /\ k \in 1 .. Columns /\ k < Columns /\ k \in 1 .. first - 1
    BY <1>1
  <2>2. start[k] = P[k]
    BY <1>4, <1>6, <2>1
  <2>3. start[k + 1] = Skip(Delimiter, Find({Delimiter}, start[k], e), e)
    BY <1>3, <2>1
  <2>4. Skip(Delimiter, Find({Delimiter}, P[k], e), e) = P[k + 1]
    <3>1. Delimiter \notin ToSet(F[k])
      BY <2>1
    <3> QED BY <2>1, <3>1, SkipColumn
  <2> HIDE DEF g, h
  <2> QED BY <2>1, <2>2, <2>3, <2>4, <1>4
<1> HIDE DEF g, h, N
<1>7. \A k \in 0 .. N : g[k] = h[k]
  <2>1. \A k \in 1 .. N : g[k - 1] = h[k - 1] => g[k] = h[k]
    BY <1>6
  <2> QED BY <1>1, <1>5, <2>1, SameSteps
<1>8. N \in 0 .. N
  BY <1>1
<1> QED BY <1>1, <1>4, <1>7, <1>8

-----------------------------------------------------------------------------
(* A row that is read                                                      *)

(* What is read of a file with the types: their columns, and what to need. *)
Reads(m) ==
  /\ m \in Nat /\ 1 <= m /\ m <= Columns
  /\ Len(types) = m /\ DOMAIN types = 1 .. m /\ projection \subseteq 1 .. m

(* The row of a line of which these are the fields.                        *)
RowOf(F) == [c \in DOMAIN types |-> IF c \in Needed THEN Converted(F[c], types[c]) ELSE Unread]

(* Lines that can be read: newlines in no column behind the last one that  *)
(* is needed, delimiters in none before the first.                         *)
Readable(F) ==
  /\ \A c \in 1 .. Columns : CR \notin ToSet(F[c]) /\ (c > Greatest(Needed) => NL \notin ToSet(F[c]))
  /\ \A c \in 1 .. Least(Needed) - 1 : Delimiter \notin ToSet(F[c])

(* Some column is needed: the first and the last of them are columns.      *)
LEMMA NeededIs ==
  ASSUME NEW m, Reads(m)
  PROVE  /\ Needed \subseteq 1 .. m /\ Needed # {}
         /\ Least(Needed) \in Needed /\ Greatest(Needed) \in Needed
         /\ \A c \in Needed : Least(Needed) <= c /\ c <= Greatest(Needed)
         /\ projection = {} => Least(Needed) = 1 /\ Greatest(Needed) = m
<1>1. m \in Nat /\ Needed \subseteq 1 .. m /\ Needed # {}
  BY DEF Reads, Needed
<1>2. Least(Needed) \in Needed /\ \A c \in Needed : Least(Needed) <= c
  <2>1. Needed \in SUBSET Nat
    BY <1>1
  <2> QED BY <1>1, <2>1, LeastIs
<1>3. Greatest(Needed) \in Needed /\ \A c \in Needed : c <= Greatest(Needed)
  <2>1. Needed \in SUBSET (0 .. m)
    BY <1>1
  <2> QED BY <1>1, <2>1, GreatestIs
<1>4. projection = {} => Least(Needed) = 1 /\ Greatest(Needed) = m
  <2> SUFFICES ASSUME projection = {} PROVE Least(Needed) = 1 /\ Greatest(Needed) = m
    OBVIOUS
  <2>1. Needed = 1 .. m /\ 1 \in 1 .. m /\ m \in 1 .. m
    BY DEF Reads, Needed
  <2>2. Least(Needed) \in 1 .. m /\ Greatest(Needed) \in 1 .. m
    BY <1>2, <1>3, <2>1
  <2>3. Least(Needed) <= 1 /\ m <= Greatest(Needed)
    BY <1>2, <1>3, <2>1
  <2> DEFINE a == Least(Needed)
             b == Greatest(Needed)
  <2>4. a \in 1 .. m /\ b \in 1 .. m /\ a <= 1 /\ m <= b
    BY <2>2, <2>3
  <2> HIDE DEF a, b
  <2>5. a = 1 /\ b = m
    BY <1>1, <2>4
  <2> QED BY <2>5 DEF a, b
<1> QED BY <1>1, <1>2, <1>3, <1>4

(* A line that can be read gives the row of its fields, and ends where it  *)
(* does.                                                                   *)
LEMMA RowIs ==
  ASSUME NEW P, NEW texts, NEW next, NEW e, LineIsIn(P, texts, next, e),
         NEW F, AllStand(texts, F), NEW m, Reads(m), Readable(F)
  PROVE  Row(P[1], e) = [row |-> RowOf(F), pos |-> next]
<1>1. /\ m \in Nat /\ 1 <= m /\ m <= Columns /\ Columns \in Nat
      /\ Len(types) = m /\ DOMAIN types = 1 .. m /\ projection \subseteq 1 .. m
  BY LineOrder DEF Reads
<1> DEFINE first == Least(Needed)
           last == Greatest(Needed)
           n == last - first + 1
           K == Fewer(n, Visible(texts) + 1 - first)
           fields == [j \in 1 .. K |-> F[first + j - 1]]
<1>2. /\ first \in 1 .. Columns /\ last \in 1 .. Columns /\ n \in Nat \ {0} /\ first <= last
      /\ first - 1 + n = last /\ \A c \in Needed : c \in 1 .. m /\ first <= c /\ c <= last
  <2> HIDE DEF first, last
  <2>1. first \in 1 .. m /\ last \in 1 .. m /\ \A c \in Needed : c \in 1 .. m /\ first <= c /\ c <= last
    BY NeededIs DEF first, last
  <2>2. first <= last
    BY NeededIs DEF first, last
  <2> QED BY <1>1, <2>1, <2>2
<1>3. /\ \A c \in 1 .. Columns : CR \notin ToSet(F[c]) /\ (c > last => NL \notin ToSet(F[c]))
      /\ \A c \in 1 .. first - 1 : Delimiter \notin ToSet(F[c])
  BY DEF Readable
<1> HIDE DEF first, last
<1>4. FieldsFrom(P[first], e, n) = [fields |-> fields, pos |-> P[first + K]]
  BY <1>2, FieldsFromIs
<1>a. Visible(texts) \in {Columns - 1, Columns} /\ (texts[Columns] # <<>> => Visible(texts) = Columns)
  BY DEF Visible
<1>b. K \in Nat \/ K = 0 - 1
  BY <1>1, <1>2, <1>a DEF Fewer
<1>c. ASSUME NEW c \in 1 .. Columns, first <= c, c - first + 1 <= n, c - first + 1 \notin 1 .. K
      PROVE  c = Columns /\ texts[c] = <<>> /\ F[c] = <<>>
  <2>1. c = Columns /\ Visible(texts) = Columns - 1
    BY <1>1, <1>2, <1>a, <1>c DEF Fewer
  <2>2. texts[c] = <<>>
    BY <1>1, <1>a, <2>1
  <2>3. F[c] \in Seq(Bytes) /\ Stands(texts[c], F[c])
    BY DEF AllStand
  <2> QED BY <2>1, <2>2, <2>3, StandsBytes
<1>5. ASSUME NEW c \in Needed
      PROVE  (IF c - first + 1 \in DOMAIN fields THEN Converted(fields[c - first + 1], types[c]) ELSE Null)
               = Converted(F[c], types[c])
  <2>1. c \in 1 .. Columns /\ first <= c /\ c - first + 1 <= n
    BY <1>1, <1>2
  <2>2. CASE c - first + 1 \in 1 .. K
    <3>1. first + (c - first + 1) - 1 = c
      BY <1>1, <1>2, <2>1
    <3>2. fields[c - first + 1] = F[c]
      BY <2>2, <3>1
    <3> QED BY <2>2, <3>2
  <2>3. CASE c - first + 1 \notin 1 .. K
    <3>1. F[c] = <<>>
      BY <2>1, <2>3, <1>c
    <3> QED BY <2>3, <3>1 DEF Converted
  <2> QED BY <2>2, <2>3
<1>6. /\ EndLine(Find({NL, CR}, P[first + K], e), e) = next
      /\ Skip(NL, Find({NL}, P[first + K], e), e) = next
  <2> DEFINE d == first + K
  <2>1. d \in 1 .. Columns + 1
    BY SMTT(40), <1>1, <1>2, <1>a DEF Fewer
  <2>2. ASSUME NEW c \in d .. Columns PROVE NL \notin ToSet(texts[c]) /\ CR \notin ToSet(texts[c])
    <3>0. c \in 1 .. Columns /\ c >= first + K
      BY <1>1, <1>2, <1>b, <2>1
    <3>1. c \in 1 .. Columns /\ c - first + 1 \notin 1 .. K
      <4> HIDE DEF K
      <4> QED BY <1>1, <1>2, <1>b, <3>0
    <3>2. CASE c - first + 1 <= n
      <4>1. first <= c
        BY <1>1, <1>2, <1>a, <3>1 DEF Fewer
      <4>2. texts[c] = <<>>
        BY <3>1, <3>2, <4>1, <1>c
      <4> QED BY <4>2 DEF ToSet
    <3>3. CASE ~(c - first + 1 <= n)
      <4>1. c > last
        BY <1>1, <1>2, <3>1, <3>3
      <4>2. NL \notin ToSet(F[c]) /\ CR \notin ToSet(F[c])
        BY <1>3, <3>1, <4>1
      <4>3. F[c] \in Seq(Bytes) /\ Stands(texts[c], F[c])
        BY <3>1 DEF AllStand
      <4>4. ToSet(texts[c]) \subseteq ToSet(F[c]) \cup {Quote}
        BY <4>3, StandsBytes
      <4> QED BY <4>2, <4>4, CsvFileAssumption
    <3> QED BY <3>2, <3>3
  <2> HIDE DEF d
  <2>4. \A c \in d .. Columns : NL \notin ToSet(texts[c]) /\ CR \notin ToSet(texts[c])
    BY <2>2
  <2>3. /\ EndLine(Find({NL, CR}, P[d], e), e) = next
        /\ Skip(NL, Find({NL}, P[d], e), e) = next
    BY <2>1, <2>4, RowEnds
  <2> QED BY <2>3 DEF d
<1> HIDE DEF K, fields
<1>7. CASE projection = {}
  <2>1. first = 1 /\ last = m /\ Needed = DOMAIN types
    BY <1>7, NeededIs DEF Needed, first, last
  <2>2. n = m
    BY <1>1, <2>1
  <2>3. FieldsFrom(P[1], e, Len(types)) = [fields |-> fields, pos |-> P[first + K]]
    BY <1>1, <1>4, <2>1, <2>2
  <2>4. \A c \in DOMAIN types : (IF c \in DOMAIN fields THEN Converted(fields[c], types[c]) ELSE Null)
                                  = Converted(F[c], types[c])
    <3> SUFFICES ASSUME NEW c \in DOMAIN types
                 PROVE  (IF c \in DOMAIN fields THEN Converted(fields[c], types[c]) ELSE Null)
                          = Converted(F[c], types[c])
      OBVIOUS
    <3>1. c - first + 1 = c
      BY <1>1, <2>1
    <3> QED BY <3>1, <1>5, <2>1
  <2> DEFINE line == [fields |-> fields, pos |-> P[first + K]]
  <2>5. FullRow(P[1], e) = [row |-> [c \in DOMAIN types |->
                              IF c \in DOMAIN fields THEN Converted(fields[c], types[c]) ELSE Null],
                            pos |-> next]
    <3>1. line.fields = fields /\ line.pos = P[first + K]
      OBVIOUS
    <3>2. FieldsFrom(P[1], e, Len(types)) = line
      BY <2>3
    <3> HIDE DEF line
    <3> QED BY <3>1, <3>2, <1>6 DEF FullRow
  <2>6. [c \in DOMAIN types |-> IF c \in DOMAIN fields THEN Converted(fields[c], types[c]) ELSE Null]
          = RowOf(F)
    BY <2>1, <2>4 DEF RowOf
  <2> QED BY <1>7, <2>5, <2>6 DEF Row
<1>8. CASE projection # {}
  <2>1. Needed = projection
    BY <1>8 DEF Needed
  <2> DEFINE E(q) == [c \in 1 .. first |->
                        IF c = 1 THEN P[1] ELSE Skip(Delimiter, Find({Delimiter}, q[c - 1], e), e)]
             g == [c \in 1 .. first |-> P[c]]
             start == CHOOSE q : q = E(q)
  <2>2. g = E(g)
    <3>1. ASSUME NEW c \in 1 .. first, c # 1
          PROVE  P[c] = Skip(Delimiter, Find({Delimiter}, g[c - 1], e), e)
      <4>1. c - 1 \in 1 .. first /\ c - 1 \in 1 .. Columns /\ c - 1 < Columns /\ (c - 1) + 1 = c
            /\ c - 1 \in 1 .. first - 1
        BY <1>1, <1>2, <3>1
      <4>2. Delimiter \notin ToSet(F[c - 1]) /\ g[c - 1] = P[c - 1]
        BY <4>1, <1>3
      <4> HIDE DEF g
      <4> DEFINE b == c - 1
      <4>3. b \in 1 .. Columns /\ b < Columns /\ Delimiter \notin ToSet(F[b])
        BY <4>1, <4>2
      <4> HIDE DEF b
      <4>4. Skip(Delimiter, Find({Delimiter}, P[b], e), e) = P[b + 1]
        BY <4>3, SkipColumn
      <4> QED BY <4>1, <4>2, <4>4 DEF b
    <3>2. \A c \in 1 .. first : g[c] = IF c = 1 THEN P[1]
                                       ELSE Skip(Delimiter, Find({Delimiter}, g[c - 1], e), e)
      BY <3>1
    <3> QED BY <3>2
  <2>3. start = E(start)
    <3> HIDE DEF g, E
    <3> QED BY <2>2
  <2>4. Skips(start, P[1], first, e)
    <3> HIDE DEF start
    <3> QED BY <2>3 DEF Skips
  <2> HIDE DEF start
  <2>5. start[first] = P[first]
    BY <1>2, <1>3, <2>4, SkippedTo
  <2> DEFINE line == FieldsFrom(start[first], e, last - first + 1)
             Cell(c) == IF c - first + 1 \in DOMAIN line.fields
                        THEN Converted(line.fields[c - first + 1], types[c]) ELSE Null
  <2>6. line.fields = fields /\ line.pos = P[first + K]
    BY <1>4, <2>5
  <2>7. ProjectedRow(P[1], e) =
          [row |-> [c \in DOMAIN types |-> IF c \in projection THEN Cell(c) ELSE Unread],
           pos |-> Skip(NL, Find({NL}, line.pos, e), e)]
    BY <2>1 DEF ProjectedRow, first, last, start
  <2> HIDE DEF line
  <2>8. \A c \in projection : Cell(c) = Converted(F[c], types[c])
    BY <1>5, <2>1, <2>6
  <2> HIDE DEF Cell
  <2>9. ProjectedRow(P[1], e) = [row |-> RowOf(F), pos |-> next]
    BY <1>6, <2>1, <2>6, <2>7, <2>8 DEF RowOf
  <2> QED BY <1>8, <2>9 DEF Row
<1> QED BY <1>7, <1>8

(* No line has more fields than the range has bytes.                       *)
LEMMA WideEnough ==
  ASSUME NEW P, NEW texts, NEW next, NEW e, LineIsIn(P, texts, next, e)
  PROVE  Visible(texts) \in Nat /\ Visible(texts) <= e /\ P[Visible(texts) + 1] = P[Columns + 1]
<1>1. /\ Columns \in Nat /\ Columns >= 1 /\ Visible(texts) \in {Columns - 1, Columns} /\ e \in Nat
      /\ \A c \in 1 .. Columns + 1 : P[c] \in Nat \ {0}
  <2>1. e \in Nat
    BY DEF LineIsIn
  <2> QED BY <2>1, LineOrder DEF Visible
<1>2. ASSUME NEW c \in 1 .. Columns
      PROVE  /\ P[c + 1] = P[c] + Len(texts[c]) + (IF c < Columns THEN 1 ELSE 0)
             /\ texts[c] \in Seq(Bytes) /\ Len(texts[c]) \in Nat /\ (Len(texts[c]) = 0 <=> texts[c] = <<>>)
             /\ P[c] \in Nat
  <2>1. texts[c] \in Seq(Bytes)
    BY DEF LineIsIn
  <2>2. Len(texts[c]) \in Nat /\ (Len(texts[c]) = 0 <=> texts[c] = <<>>)
    BY <2>1
  <2>3. c \in 1 .. Columns + 1
    BY <1>1
  <2>4. P[c + 1] = P[c] + Len(texts[c]) + (IF c < Columns THEN 1 ELSE 0)
    BY DEF LineIsIn, InLine
  <2> QED BY <1>1, <2>1, <2>2, <2>3, <2>4
<1>3. P[Visible(texts) + 1] = P[Columns + 1]
  <2>1. CASE texts[Columns] = <<>>
    <3>1. Columns \in 1 .. Columns /\ ~(Columns < Columns) /\ Visible(texts) + 1 = Columns
      BY <1>1, <2>1 DEF Visible
    <3>2. P[Columns + 1] = P[Columns] + Len(texts[Columns]) + 0 /\ Len(texts[Columns]) = 0
          /\ P[Columns] \in Nat
      BY <1>2, <2>1, <3>1
    <3> QED BY <3>1, <3>2
  <2>2. CASE texts[Columns] # <<>>
    BY <2>2 DEF Visible
  <2> QED BY <2>1, <2>2
<1>4. ASSUME NEW c \in 1 .. Columns, c <= Visible(texts) PROVE P[c + 1] >= P[c] + 1
  <2>1. c < Columns \/ (c = Columns /\ texts[c] # <<>>)
    BY <1>1, <1>4 DEF Visible
  <2>2. CASE c < Columns
    <3>1. P[c + 1] = P[c] + Len(texts[c]) + 1
      BY <1>2, <2>2
    <3> QED BY <3>1, <1>2
  <2>3. CASE c = Columns /\ texts[c] # <<>>
    <3>1. P[c + 1] = P[c] + Len(texts[c]) + 0 /\ Len(texts[c]) # 0
      BY <1>1, <1>2, <2>3
    <3> QED BY <3>1, <1>2
  <2> QED BY <2>1, <2>2, <2>3
<1> DEFINE G == {k \in Nat : k <= Visible(texts) => P[k + 1] >= k + 1}
<1>5. 0 \in G
  <2>1. 1 \in 1 .. Columns + 1 /\ 0 + 1 = 1
    BY <1>1
  <2>2. P[1] \in Nat \ {0}
    BY <1>1, <2>1
  <2> QED BY <2>1, <2>2
<1>6. ASSUME NEW k \in Nat, k \in G PROVE k + 1 \in G
  <2> SUFFICES ASSUME k + 1 <= Visible(texts) PROVE P[(k + 1) + 1] >= (k + 1) + 1
    OBVIOUS
  <2>1. k + 1 \in 1 .. Columns /\ k <= Visible(texts) /\ (k + 1) + 1 \in 1 .. Columns + 1
        /\ k + 1 \in 1 .. Columns + 1
    BY <1>1
  <2>2. P[(k + 1) + 1] >= P[k + 1] + 1 /\ P[k + 1] >= k + 1 /\ P[k + 1] \in Nat /\ P[(k + 1) + 1] \in Nat
    BY <1>1, <1>4, <1>6, <2>1
  <2> QED BY <2>2
<1>7. \A k \in Nat : k \in G
  <2> HIDE DEF G
  <2> QED BY <1>5, <1>6, Induction
<1>8. P[Visible(texts) + 1] >= Visible(texts) + 1 /\ Visible(texts) \in Nat
  BY <1>1, <1>7
<1>9. P[Columns + 1] <= e + 1 /\ P[Columns + 1] \in Nat
  <2>1. Columns + 1 \in 1 .. Columns + 1
    BY <1>1
  <2> QED BY <1>1, <2>1, LineOrder
<1> QED BY <1>1, <1>3, <1>8, <1>9

(* All the fields of a line are read when they are asked for.              *)
LEMMA WholeLine ==
  ASSUME NEW P, NEW texts, NEW next, LineIsIn(P, texts, next, Size), NEW F, AllStand(texts, F)
  PROVE  /\ FieldsFrom(P[1], Size, Size) = [fields |-> [j \in 1 .. Visible(texts) |-> F[j]],
                                            pos |-> P[Columns + 1]]
         /\ EndLine(P[Columns + 1], Size) = next
<1> DEFINE v == Visible(texts)
<1>1. Columns \in Nat /\ Columns >= 1 /\ 1 \in 1 .. Columns /\ Size \in Nat /\ v \in Nat /\ v <= Size
      /\ P[v + 1] = P[Columns + 1]
  BY LineOrder, WideEnough
<1>2. v = Fewer(Size, v + 1 - 1) /\ 1 + v = v + 1
  BY <1>1 DEF Fewer
<1>3. FieldsFrom(P[1], Size, Size) = [fields |-> [j \in 1 .. v |-> F[1 + j - 1]], pos |-> P[1 + v]]
  BY <1>1, <1>2, FieldsFromIs
<1>4. [j \in 1 .. v |-> F[1 + j - 1]] = [j \in 1 .. v |-> F[j]]
  <2>1. \A j \in 1 .. v : 1 + j - 1 = j
    BY <1>1
  <2> QED BY <2>1
<1>5. EndLine(P[Columns + 1], Size) = next
  BY LineEndIs
<1> QED BY <1>1, <1>2, <1>3, <1>4, <1>5

-----------------------------------------------------------------------------
(* The lines of the file                                                   *)

(* The file is complete: the buffer is the text of its lines.              *)
Filled == FileOK /\ buffer = Text

(* Line n of the file begins at at[n] and ends where the next one begins.  *)
IsLaid(at) ==
  /\ at \in [1 .. Len(Lines) + 1 -> Nat \ {0}]
  /\ at[1] = 1 /\ at[Len(Lines) + 1] = Size + 1
  /\ \A n \in 1 .. Len(Lines) : \E P : P[1] = at[n] /\ InLine(P, Texts(n), at[n + 1])

(* The fields of a line: the header's, or what is left of the cells of a   *)
(* row.                                                                    *)
LineFields(n) == IF form.header /\ n = 1 THEN Header ELSE [c \in 1 .. Columns |-> Plain(csv[n - Above][c])]

(* The lines of a file that is complete can be laid out in this way.       *)
LEMMA LinesLaid ==
  ASSUME Filled
  PROVE  (\E at : IsLaid(at)) /\ buffer \in Seq(Bytes) /\ Size \in Nat
<1>1. PICK at \in [1 .. Len(Lines) + 1 -> Nat \ {0}] :
              /\ at[1] = 1 /\ at[Len(Lines) + 1] = Size + 1
              /\ \A n \in 1 .. Len(Lines) : \E P : P[1] = at[n] /\ InLine(P, Texts(n), at[n + 1])
  BY Laying DEF Filled
<1>2. IsLaid(at)
  BY <1>1 DEF IsLaid
<1>3. buffer \in Seq(Bytes)
  BY Laying DEF Filled
<1> QED BY <1>2, <1>3 DEF Size

(* A line is in every range that goes on to its end or further.            *)
LEMMA LineInRange ==
  ASSUME Filled, NEW at, IsLaid(at), NEW n \in 1 .. Len(Lines), NEW e \in Nat, e <= Size, at[n + 1] <= e + 1
  PROVE  \E P : P[1] = at[n] /\ LineIsIn(P, Texts(n), at[n + 1], e)
<1>1. PICK P : P[1] = at[n] /\ InLine(P, Texts(n), at[n + 1])
  BY DEF IsLaid
<1>2. Texts(n) \in [1 .. Columns -> Seq(Bytes)] /\ buffer \in Seq(Bytes)
      /\ form.eol \in {<<NL>>, <<CR, NL>>}
  BY LinesType, LinesLaid, FileType DEF Filled
<1>3. LineIsIn(P, Texts(n), at[n + 1], e)
  BY <1>1, <1>2 DEF LineIsIn
<1> QED BY <1>1, <1>3

(* A line begins behind the line above it.                                 *)
LEMMA LinesGrow ==
  ASSUME Filled, NEW at, IsLaid(at)
  PROVE  /\ Len(Lines) \in Nat /\ \A n \in 1 .. Len(Lines) + 1 : at[n] \in Nat \ {0} /\ at[n] <= Size + 1
         /\ \A i \in 1 .. Len(Lines) + 1 : \A j \in 1 .. Len(Lines) + 1 : i < j => at[i] < at[j]
<1> DEFINE L == Len(Lines)
<1>1. L \in Nat /\ Size \in Nat /\ \A n \in 1 .. L + 1 : at[n] \in Nat \ {0}
  <2>1. Lines \in Seq(Seq(Bytes))
    BY LinesType DEF Filled
  <2>2. L \in Nat
    BY <2>1
  <2> QED BY <2>2, LinesLaid DEF IsLaid
<1>2. \A n \in 1 .. L : at[n] < at[n + 1]
  <2> SUFFICES ASSUME NEW n \in 1 .. L PROVE at[n] < at[n + 1]
    OBVIOUS
  <2>1. PICK P : P[1] = at[n] /\ InLine(P, Texts(n), at[n + 1])
    BY DEF IsLaid
  <2>2. at[n + 1] <= Size + 1
    BY <1>1, <2>1 DEF InLine
  <2>3. PICK Q : Q[1] = at[n] /\ LineIsIn(Q, Texts(n), at[n + 1], Size)
    <3>1. Size <= Size
      BY <1>1
    <3> QED BY <1>1, <2>2, <3>1, LineInRange
  <2> QED BY <2>3, LineOrder
<1> DEFINE g == [k \in 0 .. L |-> at[k + 1] - k]
<1>3. \A k \in 0 .. L : at[k + 1] \in Nat \ {0}
  <2>1. \A k \in 0 .. L : k + 1 \in 1 .. L + 1
    BY <1>1
  <2> QED BY <1>1, <2>1
<1>4. \A k \in 1 .. L : k - 1 \in 0 .. L /\ k \in 0 .. L /\ (k - 1) + 1 = k
  BY <1>1
<1> DEFINE H == {k \in Nat : k \in 0 .. L => at[k + 1] >= k + 1}
<1>5. \A k \in Nat : k \in H
  <2>1. 0 \in H
    BY <1>1 DEF IsLaid
  <2>2. ASSUME NEW k \in Nat, k \in H PROVE k + 1 \in H
    <3> SUFFICES ASSUME k + 1 \in 0 .. L PROVE at[(k + 1) + 1] >= (k + 1) + 1
      OBVIOUS
    <3>1. k \in 0 .. L /\ k + 1 \in 1 .. L
      BY <1>1
    <3>2. at[k + 1] >= k + 1 /\ at[k + 1] < at[(k + 1) + 1] /\ at[k + 1] \in Nat /\ at[(k + 1) + 1] \in Nat
      BY <1>2, <1>3, <2>2, <3>1
    <3> QED BY <3>2
  <2> HIDE DEF H
  <2> QED BY <2>1, <2>2, Induction
<1>6. \A k \in 0 .. L : g[k] \in Nat
  <2> SUFFICES ASSUME NEW k \in 0 .. L PROVE g[k] \in Nat
    OBVIOUS
  <2>1. at[k + 1] >= k + 1 /\ at[k + 1] \in Nat /\ k \in Nat
    BY <1>3, <1>5
  <2> QED BY <2>1
<1>7. \A k \in 1 .. L : g[k - 1] <= g[k]
  <2> SUFFICES ASSUME NEW k \in 1 .. L PROVE g[k - 1] <= g[k]
    OBVIOUS
  <2>1. at[k] < at[k + 1] /\ at[k] \in Nat /\ at[k + 1] \in Nat
    BY <1>2, <1>3, <1>4
  <2>2. g[k - 1] = at[k] - (k - 1) /\ g[k] = at[k + 1] - k
    BY <1>4
  <2> QED BY <2>1, <2>2
<1>8. ASSUME NEW i \in 1 .. L + 1, NEW j \in 1 .. L + 1, i < j PROVE at[i] < at[j]
  <2>1. i - 1 \in 0 .. L /\ j - 1 \in 0 .. L /\ i - 1 <= j - 1 /\ (i - 1) + 1 = i /\ (j - 1) + 1 = j
    BY <1>1, <1>8
  <2>2. g[i - 1] = at[i] - (i - 1) /\ g[j - 1] = at[j] - (j - 1)
    BY <2>1
  <2> HIDE DEF g
  <2>3. g[i - 1] <= g[j - 1]
    BY <1>1, <1>6, <1>7, <2>1, Growing
  <2>4. at[i] \in Nat /\ at[j] \in Nat
    BY <1>1
  <2> QED BY <1>8, <2>2, <2>3, <2>4
<1>9. \A n \in 1 .. L + 1 : at[n] <= Size + 1
  <2> SUFFICES ASSUME NEW n \in 1 .. L + 1 PROVE at[n] <= Size + 1
    OBVIOUS
  <2>1. L + 1 \in 1 .. L + 1 /\ at[L + 1] = Size + 1
    BY <1>1 DEF IsLaid
  <2>2. n = L + 1 \/ n < L + 1
    BY <1>1
  <2> QED BY <1>1, <1>8, <2>1, <2>2
<1> QED BY <1>1, <1>8, <1>9

(* The fields of a line stand in it when no cell is misread.               *)
LEMMA FieldsStand ==
  ASSUME Filled, NEW n \in 1 .. Len(Lines), (form.header /\ n = 1) \/ ~\E cell \in Cells : Misread(cell)
  PROVE  AllStand(Texts(n), LineFields(n))
<1>1. CASE form.header /\ n = 1
  <2>1. <<Letter>> \in Seq(Bytes)
    BY DEF Bytes
  <2>2. ToSet(<<Letter>>) = {Letter}
    BY DEF ToSet
  <2>3. Stands(<<Letter>>, <<Letter>>)
    BY <2>2, CsvFileAssumption DEF Stands
  <2> QED BY <1>1, <2>1, <2>3 DEF AllStand, Texts, LineFields, Header
<1>2. CASE ~(form.header /\ n = 1)
  <2>1. n - Above \in 1 .. Len(csv)
    <3>1. Len(Lines) = Above + Len(csv) /\ Above \in {0, 1} /\ Len(csv) \in Nat
      BY LinesType, FileType DEF Filled
    <3> QED BY <1>2, <3>1 DEF Above
  <2>2. ASSUME NEW c \in 1 .. Columns
        PROVE  /\ Plain(csv[n - Above][c]) \in Seq(Bytes)
               /\ Stands(Written(csv[n - Above][c]), Plain(csv[n - Above][c]))
    <3> DEFINE cell == csv[n - Above][c]
    <3>1. IsText(cell) /\ n - Above \in DOMAIN csv
      BY <2>1, FileType DEF Filled
    <3>2. ~Misread(cell)
      BY <1>2, <3>1 DEF Cells
    <3> HIDE DEF cell
    <3>3. Plain(cell) \in Seq(Bytes) /\ Stands(Written(cell), Plain(cell))
      BY <3>1, <3>2, PlainType, WrittenStands
    <3> QED BY <3>3 DEF cell
  <2> QED BY <1>2, <2>2 DEF AllStand, Texts, LineFields
<1> QED BY <1>1, <1>2

(* The first row is the line below the header, or the first line.          *)
LEMMA FirstRowIs ==
  ASSUME Filled, NEW at, IsLaid(at)
  PROVE  FirstRow = at[Above + 1]
<1>1. CASE form.header
  <2>1. 1 \in 1 .. Len(Lines) /\ Above + 1 = 1 + 1 /\ 1 + 1 \in 1 .. Len(Lines) + 1
    <3>1. Len(Lines) = Above + Len(csv) /\ Above = 1 /\ Len(csv) \in Nat
      BY <1>1, LinesType, FileType DEF Filled, Above
    <3> QED BY <3>1
  <2>2. AllStand(Texts(1), LineFields(1))
    BY <1>1, <2>1, FieldsStand
  <2>3. Size \in Nat /\ Size <= Size /\ at[1 + 1] <= Size + 1
    BY <2>1, LinesGrow, LinesLaid
  <2>4. PICK P : P[1] = at[1] /\ LineIsIn(P, Texts(1), at[1 + 1], Size)
    BY <2>1, <2>3, LineInRange
  <2>5. FieldsFrom(P[1], Size, Size).pos = P[Columns + 1] /\ EndLine(P[Columns + 1], Size) = at[1 + 1]
    <3>1. FieldsFrom(P[1], Size, Size) = [fields |-> [j \in 1 .. Visible(Texts(1)) |-> LineFields(1)[j]],
                                          pos |-> P[Columns + 1]]
          /\ EndLine(P[Columns + 1], Size) = at[1 + 1]
      BY <2>2, <2>4, WholeLine
    <3> QED BY <3>1
  <2>6. P[1] = 1
    BY <2>4 DEF IsLaid
  <2> QED BY <1>1, <2>1, <2>5, <2>6 DEF FirstRow
<1>2. CASE ~form.header
  BY <1>2 DEF FirstRow, Above, IsLaid
<1> QED BY <1>1, <1>2

-----------------------------------------------------------------------------
(* The rows of a file                                                      *)

(* Some cell of the file is not read as it was written.                    *)
Misreads == \E cell \in Cells : Misread(cell)

(* The fields of the rows, what is read of them, and where they begin.     *)
FieldsOf(i) == LineFields(Above + i)
RowAt(i) == RowOf(FieldsOf(i))
Start(at, i) == at[Above + i + 1]

(* A file that can be read in the way that was asked for.                  *)
CanRead(at, m) ==
  /\ Filled /\ IsLaid(at) /\ ~Misreads /\ Reads(m)
  /\ \A i \in 1 .. Len(csv) : Readable(FieldsOf(i))

(* A row begins behind the row above it, and the last one ends with the    *)
(* file.                                                                   *)
LEMMA StartsGrow ==
  ASSUME Filled, NEW at, IsLaid(at)
  PROVE  /\ Len(csv) \in Nat /\ Above \in {0, 1} /\ Len(Lines) = Above + Len(csv) /\ Size \in Nat
         /\ \A i \in 0 .. Len(csv) : Start(at, i) \in Nat \ {0} /\ Start(at, i) <= Size + 1
         /\ Start(at, 0) = FirstRow /\ Start(at, Len(csv)) = Size + 1
         /\ \A i \in 0 .. Len(csv) : \A j \in 0 .. Len(csv) : i < j <=> Start(at, i) < Start(at, j)
<1>1. Len(csv) \in Nat /\ Above \in {0, 1} /\ Len(Lines) = Above + Len(csv) /\ Size \in Nat
  BY FileType, LinesType, LinesLaid DEF Filled
<1>2. \A i \in 0 .. Len(csv) : Above + i + 1 \in 1 .. Len(Lines) + 1
  BY <1>1
<1>3. \A i \in 0 .. Len(csv) : Start(at, i) \in Nat \ {0} /\ Start(at, i) <= Size + 1
  BY <1>2, LinesGrow DEF Start
<1>4. Start(at, 0) = FirstRow /\ Start(at, Len(csv)) = Size + 1
  <2>1. Above + 0 + 1 = Above + 1 /\ Above + Len(csv) + 1 = Len(Lines) + 1
    BY <1>1
  <2> QED BY <2>1, FirstRowIs DEF Start, IsLaid
<1>5. ASSUME NEW i \in 0 .. Len(csv), NEW j \in 0 .. Len(csv), i < j PROVE Start(at, i) < Start(at, j)
  <2>1. Above + i + 1 < Above + j + 1
    BY <1>1, <1>5
  <2> QED BY <1>2, <2>1, LinesGrow DEF Start
<1>6. ASSUME NEW i \in 0 .. Len(csv), NEW j \in 0 .. Len(csv), ~(i < j) PROVE ~(Start(at, i) < Start(at, j))
  <2>1. i = j \/ j < i
    BY <1>1, <1>6
  <2>2. i = j => Start(at, i) = Start(at, j)
    OBVIOUS
  <2>3. j < i => Start(at, j) < Start(at, i)
    BY <1>5
  <2>4. Start(at, i) \in Nat /\ Start(at, j) \in Nat
    BY <1>3
  <2> QED BY <2>1, <2>2, <2>3, <2>4
<1> QED BY <1>1, <1>3, <1>4, <1>5, <1>6

(* Row reads of a line the row it has, whatever range the line is in.      *)
LEMMA RowAtIs ==
  ASSUME NEW at, NEW m, CanRead(at, m), NEW i \in 1 .. Len(csv),
         NEW e \in Nat, e <= Size, Start(at, i) <= e + 1
  PROVE  Row(Start(at, i - 1), e) = [row |-> RowAt(i), pos |-> Start(at, i)]
<1> DEFINE n == Above + i
<1>1. /\ Filled /\ IsLaid(at) /\ ~Misreads /\ Reads(m) /\ Readable(FieldsOf(i))
  BY DEF CanRead
<1>2. n \in 1 .. Len(Lines) /\ n + 1 = Above + i + 1 /\ n = Above + (i - 1) + 1
  BY SMTT(40), <1>1, StartsGrow
<1> DEFINE F == FieldsOf(i)
<1>3. F = LineFields(n)
  BY DEF FieldsOf
<1>4. Start(at, i) = at[n + 1] /\ Start(at, i - 1) = at[n]
  BY <1>2 DEF Start
<1> HIDE DEF n, F
<1>5. PICK P : P[1] = at[n] /\ LineIsIn(P, Texts(n), at[n + 1], e)
  BY <1>1, <1>2, <1>4, LineInRange
<1>6. AllStand(Texts(n), F)
  BY <1>1, <1>2, <1>3, FieldsStand DEF Misreads
<1>7. Row(P[1], e) = [row |-> RowOf(F), pos |-> at[n + 1]]
  BY <1>1, <1>5, <1>6, RowIs DEF F
<1> QED BY <1>4, <1>5, <1>7 DEF RowAt, F

(* A chunk of a range that ends where row b does, from behind row i.       *)
LEMMA ChunkIs ==
  ASSUME NEW at, NEW m, CanRead(at, m), NEW b \in 0 .. Len(csv), NEW i \in 0 .. b,
         NEW K, K = Fewer(VectorSize, b - i)
  PROVE  Chunk(Start(at, i), Start(at, b) - 1) =
           [pos |-> Start(at, i + K), rows |-> [j \in 1 .. K |-> RowAt(i + j)]]
<1> DEFINE R == b - i
           e == Start(at, b) - 1
           p == Start(at, i)
           At(k) == [pos |-> Start(at, i + Fewer(k, R)), rows |-> [j \in 1 .. Fewer(k, R) |-> RowAt(i + j)]]
           g == [k \in 0 .. VectorSize |-> At(k)]
           E(q) == [k \in 0 .. VectorSize |-> IF k = 0 THEN [pos |-> p, rows |-> <<>>] ELSE WithRow(q[k - 1], e)]
           h == CHOOSE q : q = E(q)
<1>0. Filled /\ IsLaid(at)
  BY DEF CanRead
<1>1. /\ VectorSize \in Nat /\ Len(csv) \in Nat /\ R \in Nat /\ i \in Nat /\ b \in Nat /\ i + R = b /\ b <= Len(csv)
      /\ Size \in Nat
  BY <1>0, StartsGrow, VectorAssumption
<1>2. e \in Nat /\ e <= Size /\ Start(at, b) = e + 1
  <2>1. Start(at, b) \in Nat \ {0} /\ Start(at, b) <= Size + 1
    BY <1>0, StartsGrow
  <2> QED BY <1>1, <2>1
<1>3. At(0) = [pos |-> p, rows |-> <<>>]
  <2>1. Fewer(0, R) = 0 /\ i + 0 = i
    BY <1>1 DEF Fewer
  <2>2. [j \in 1 .. 0 |-> RowAt(i + j)] = <<>>
    OBVIOUS
  <2> HIDE DEF R
  <2> QED BY <2>1, <2>2
<1> HIDE DEF R, e, p
<1>4. ASSUME NEW k \in 1 .. VectorSize PROVE At(k) = WithRow(At(k - 1), e)
  <2>1. CASE k > R
    <3>1. Fewer(k, R) = R /\ Fewer(k - 1, R) = R
      BY <1>1, <2>1 DEF Fewer
    <3>2. At(k) = At(k - 1) /\ At(k - 1).pos = Start(at, i + R)
      BY <3>1
    <3>3. At(k - 1).pos > e
      BY <3>2, <1>1, <1>2
    <3> HIDE DEF At
    <3> QED BY <3>2, <3>3 DEF WithRow
  <2>2. CASE k <= R
    <3> DEFINE rows == [j \in 1 .. k - 1 |-> RowAt(i + j)]
               c == i + k
    <3>1. Fewer(k, R) = k /\ Fewer(k - 1, R) = k - 1 /\ i + (k - 1) = c - 1 /\ i + k = c
      BY <1>1, <2>2 DEF Fewer
    <3>2. c \in 1 .. Len(csv) /\ c \in 0 .. Len(csv) /\ c - 1 \in 0 .. Len(csv) /\ c <= b /\ c - 1 < b
          /\ b \in 0 .. Len(csv)
      BY <1>1, <2>2
    <3>3. At(k - 1) = [pos |-> Start(at, c - 1), rows |-> rows]
      BY <3>1
    <3> HIDE DEF c
    <3>4. Start(at, c - 1) < Start(at, b) /\ Start(at, c) <= Start(at, b) /\ Start(at, c - 1) \in Nat
      <4>1. Start(at, c - 1) < Start(at, b)
        BY <1>0, <3>2, StartsGrow
      <4>2. ~(b < c)
        BY <1>1, <3>2
      <4>3. ~(Start(at, b) < Start(at, c))
        BY <1>0, <3>2, <4>2, StartsGrow
      <4>4. Start(at, c - 1) \in Nat /\ Start(at, c) \in Nat /\ Start(at, b) \in Nat
        BY <1>0, <3>2, StartsGrow
      <4> QED BY <4>1, <4>3, <4>4
    <3>5. Row(Start(at, c - 1), e) = [row |-> RowAt(c), pos |-> Start(at, c)]
      BY <1>2, <3>2, <3>4, RowAtIs
    <3>6. ~(Start(at, c - 1) > e)
      BY <1>2, <3>4
    <3>7. WithRow(At(k - 1), e) = [pos |-> Start(at, c), rows |-> Append(rows, RowAt(c))]
      <4> DEFINE a == At(k - 1)
                 r == Row(Start(at, c - 1), e)
      <4>1. a.rows = rows /\ a.pos = Start(at, c - 1)
        BY <3>3
      <4>2. r.row = RowAt(c) /\ r.pos = Start(at, c)
        BY <3>5
      <4> HIDE DEF At, rows, a
      <4>3. WithRow(a, e) = [pos |-> r.pos, rows |-> Append(a.rows, r.row)]
        BY <3>6, <4>1 DEF WithRow
      <4> HIDE DEF r
      <4> QED BY <4>1, <4>2, <4>3 DEF a
    <3>8. Append(rows, RowAt(c)) = [j \in 1 .. k |-> RowAt(i + j)]
      <4>1. k \in Nat /\ k >= 1
        BY <1>1
      <4> DEFINE T == {RowAt(i + j) : j \in 1 .. k}
                 x == RowAt(c)
                 more == Append(rows, x)
      <4>2. rows \in Seq(T) /\ Len(rows) = k - 1 /\ \A j \in 1 .. k - 1 : rows[j] = RowAt(i + j)
        <5>1. \A j \in 1 .. k - 1 : RowAt(i + j) \in T
          BY <4>1
        <5> HIDE DEF T
        <5> QED BY <4>1, <5>1
      <4>3. x \in T /\ x = RowAt(i + k)
        BY <4>1, <3>1
      <4> HIDE DEF rows, T, x
      <4>4. /\ Len(more) = k /\ more \in Seq(T) /\ more[k] = x
            /\ \A j \in 1 .. k - 1 : more[j] = rows[j]
        BY <4>1, <4>2, <4>3
      <4> HIDE DEF more
      <4>5. \A j \in 1 .. k : more[j] = RowAt(i + j)
        <5> SUFFICES ASSUME NEW j \in 1 .. k PROVE more[j] = RowAt(i + j)
          OBVIOUS
        <5>1. j = k \/ j \in 1 .. k - 1
          BY <4>1
        <5> QED BY <5>1, <4>2, <4>3, <4>4
      <4>6. more = [j \in 1 .. k |-> more[j]]
        BY <4>4
      <4>7. more = [j \in 1 .. k |-> RowAt(i + j)]
        BY <4>5, <4>6
      <4> QED BY <4>7 DEF more, x
    <3> QED BY <3>1, <3>7, <3>8
  <2> QED BY <1>1, <2>1, <2>2
<1>5. g = E(g)
  <2>1. \A k \in 0 .. VectorSize : k # 0 => k \in 1 .. VectorSize /\ k - 1 \in 0 .. VectorSize
    BY <1>1
  <2> HIDE DEF At
  <2>2. \A k \in 0 .. VectorSize : g[k] = IF k = 0 THEN [pos |-> p, rows |-> <<>>] ELSE WithRow(g[k - 1], e)
    BY <1>3, <1>4, <2>1
  <2> QED BY <2>2
<1>6. h = E(h)
  <2> HIDE DEF g, E
  <2> QED BY <1>5
<1>7. Chunk(p, e) = h[VectorSize]
  BY DEF Chunk
<1>8. \A k \in 0 .. VectorSize : g[k] = h[k]
  <2>1. h[0] = [pos |-> p, rows |-> <<>>] /\ g[0] = h[0]
    <3> HIDE DEF h, At
    <3> QED BY <1>1, <1>3, <1>6
  <2>2. ASSUME NEW k \in 1 .. VectorSize, g[k - 1] = h[k - 1] PROVE g[k] = h[k]
    <3>1. k \in 0 .. VectorSize /\ k # 0 /\ k - 1 \in 0 .. VectorSize
      BY <1>1
    <3>2. h[k] = WithRow(h[k - 1], e)
      <4> HIDE DEF h
      <4> QED BY <1>6, <3>1
    <3>3. g[k] = WithRow(g[k - 1], e)
      <4> HIDE DEF At
      <4> QED BY <1>4, <3>1
    <3> HIDE DEF g, h
    <3> QED BY <2>2, <3>2, <3>3
  <2> HIDE DEF g, h
  <2>3. g[0] = h[0]
    BY <2>1
  <2>5. \A k \in 1 .. VectorSize : g[k - 1] = h[k - 1] => g[k] = h[k]
    BY <2>2
  <2>4. VectorSize \in Nat
    BY <1>1
  <2> DEFINE G == {k \in Nat : k <= VectorSize => g[k] = h[k]}
  <2>6. 0 \in G
    BY <2>3
  <2>7. ASSUME NEW k \in Nat, k \in G PROVE k + 1 \in G
    <3> SUFFICES ASSUME k + 1 <= VectorSize PROVE g[k + 1] = h[k + 1]
      OBVIOUS
    <3>1. k <= VectorSize /\ k + 1 \in 1 .. VectorSize /\ (k + 1) - 1 = k
      BY <2>4
    <3> QED BY <2>5, <2>7, <3>1
  <2>8. \A k \in Nat : k \in G
    <3> HIDE DEF G
    <3> QED BY <2>6, <2>7, Induction
  <2> QED BY <2>4, <2>8
<1> HIDE DEF h
<1>9. VectorSize \in 0 .. VectorSize
  BY <1>1
<1>10. Chunk(p, e) = At(VectorSize)
  BY <1>7, <1>8, <1>9
<1> QED BY <1>10 DEF p, e, R

-----------------------------------------------------------------------------
(* The ranges that the readers are given                                   *)

(* Find stops at the first of the bytes, or behind the end.                *)
LEMMA FindSpec ==
  ASSUME NEW bytes, NEW p \in Nat, NEW e \in Nat, p <= e + 1
  PROVE  /\ Find(bytes, p, e) \in p .. e + 1
         /\ \A i \in p .. Find(bytes, p, e) - 1 : buffer[i] \notin bytes
         /\ Find(bytes, p, e) <= e => buffer[Find(bytes, p, e)] \in bytes
<1> DEFINE at == {i \in p .. e : buffer[i] \in bytes}
<1>1. CASE at = {}
  <2>1. Find(bytes, p, e) = e + 1
    BY <1>1 DEF Find
  <2> QED BY <1>1, <2>1
<1>2. CASE at # {}
  <2>1. Find(bytes, p, e) = Least(at)
    BY <1>2 DEF Find, Least
  <2>2. at \in SUBSET Nat
    OBVIOUS
  <2> DEFINE q == Least(at)
  <2>3. q \in at /\ \A x \in at : q <= x
    <3> HIDE DEF at
    <3> QED BY <1>2, <2>2, LeastIs
  <2> HIDE DEF q
  <2>4. q \in p .. e /\ buffer[q] \in bytes
    BY <2>3
  <2>5. \A i \in p .. q - 1 : buffer[i] \notin bytes
    <3> SUFFICES ASSUME NEW i \in p .. q - 1, buffer[i] \in bytes PROVE FALSE
      OBVIOUS
    <3>1. i \in at
      BY <2>4
    <3>2. q <= i
      BY <2>3, <3>1
    <3> QED BY <2>4, <3>2
  <2> QED BY <2>1, <2>4, <2>5 DEF q
<1> QED BY <1>1, <1>2

(* The next line begins behind the first newline.                          *)
LEMMA LineStartIs ==
  ASSUME Size \in Nat, NEW p \in Nat, p <= Size + 1
  PROVE  /\ FindLineStart(p) \in p .. Size + 1
         /\ \E q \in p .. Size + 1 :
              /\ \A i \in p .. q - 1 : buffer[i] # NL
              /\ q <= Size => buffer[q] = NL
              /\ FindLineStart(p) = IF q <= Size THEN q + 1 ELSE q
<1> DEFINE q == Find({NL}, p, Size)
           bytes == {NL}
<1>1. q \in p .. Size + 1 /\ (\A i \in p .. q - 1 : buffer[i] \notin bytes) /\ (q <= Size => buffer[q] \in bytes)
  <2>0. q = Find(bytes, p, Size)
    OBVIOUS
  <2> HIDE DEF bytes, q
  <2> QED BY <2>0, FindSpec
<1>2. FindLineStart(p) = Skip(NL, q, Size)
  BY DEF FindLineStart
<1> HIDE DEF q
<1>3. FindLineStart(p) = IF q <= Size THEN q + 1 ELSE q
  BY <1>1, <1>2 DEF Skip
<1> QED BY <1>1, <1>3

(* The line that begins behind a place does not begin before that of an    *)
(* earlier one.                                                            *)
LEMMA LineStartsGrow ==
  ASSUME Size \in Nat, NEW p \in Nat, NEW r \in Nat, p <= r, r <= Size + 1
  PROVE  FindLineStart(p) <= FindLineStart(r)
<1>1. PICK q \in p .. Size + 1 :
              /\ \A i \in p .. q - 1 : buffer[i] # NL
              /\ q <= Size => buffer[q] = NL
              /\ FindLineStart(p) = IF q <= Size THEN q + 1 ELSE q
  <2>1. p <= Size + 1
    OBVIOUS
  <2> QED BY <2>1, LineStartIs
<1>2. PICK s \in r .. Size + 1 :
              /\ \A i \in r .. s - 1 : buffer[i] # NL
              /\ s <= Size => buffer[s] = NL
              /\ FindLineStart(r) = IF s <= Size THEN s + 1 ELSE s
  BY LineStartIs
<1>3. CASE q < r
  BY <1>1, <1>2, <1>3
<1>4. CASE ~(q < r)
  <2>1. ~(s < q)
    <3> SUFFICES ASSUME s < q PROVE FALSE
      OBVIOUS
    <3>1. s \in p .. q - 1 /\ s <= Size
      BY <1>1, <1>2
    <3> QED BY <1>1, <1>2, <3>1
  <2> QED BY <1>1, <1>2, <2>1
<1> QED BY <1>3, <1>4

-----------------------------------------------------------------------------
(* What the ranges between growing cuts are: q are the cuts between them.  *)
Between(s, q, first, last) ==
  /\ Len(s) \in Nat /\ DOMAIN s = 1 .. Len(s) /\ q \in [0 .. Len(s) -> Nat]
  /\ q[0] = first /\ q[Len(s)] = last
  /\ \A w \in 1 .. Len(s) : /\ q[w - 1] < q[w]
                            /\ s[w] = [pos |-> q[w - 1], end |-> q[w] - 1, rows |-> <<>>]

(* The ranges up to cut t: those up to the cut before, and one more unless *)
(* it is empty.                                                            *)
Ranged(c, t, s) == IF c[t - 1] < c[t] THEN Append(s, [pos |-> c[t - 1], end |-> c[t] - 1, rows |-> <<>>])
                                      ELSE s

(* All of the cuts are among those of C.                                   *)
Within(s, q, C) == \A w \in 0 .. Len(s) : q[w] \in C
(* The range between two cuts, of which nothing has been read.             *)
IsRange(r, last, new) == r = [pos |-> last, end |-> new - 1, rows |-> <<>>]

(* One more range, between the last cut and a new one.                     *)
LEMMA OneMoreRange ==
  ASSUME NEW Rec, NEW s \in Seq(Rec), NEW q, NEW first, NEW last \in Nat, NEW new \in Nat, Between(s, q, first, last),
         last < new, NEW C, Within(s, q, C), new \in C,
         NEW r \in Rec, IsRange(r, last, new)
  PROVE  \E p : Between(Append(s, r), p, first, new) /\ Within(Append(s, r), p, C)
<1> DEFINE K == Len(s)
           p == [w \in 0 .. K + 1 |-> IF w = K + 1 THEN new ELSE q[w]]
           t == Append(s, r)
<1>1. /\ K \in Nat /\ q \in [0 .. K -> Nat] /\ q[0] = first /\ q[K] = last
      /\ \A w \in 1 .. K : /\ q[w - 1] < q[w]
                           /\ s[w] = [pos |-> q[w - 1], end |-> q[w] - 1, rows |-> <<>>]
  BY DEF Between
<1>2. Len(t) = K + 1 /\ DOMAIN t = 1 .. K + 1 /\ t[K + 1] = r /\ \A w \in 1 .. K : t[w] = s[w]
  OBVIOUS
<1> HIDE DEF t, K
<1>3. p \in [0 .. K + 1 -> Nat] /\ p[0] = first /\ p[K + 1] = new /\ \A w \in 0 .. K : p[w] = q[w]
  <2>1. \A w \in 0 .. K + 1 : w # K + 1 => w \in 0 .. K
    BY <1>1
  <2>2. \A w \in 0 .. K : w # K + 1 /\ w \in 0 .. K + 1
    BY <1>1
  <2>3. 0 \in 0 .. K /\ K + 1 \in 0 .. K + 1
    BY <1>1
  <2> QED BY <1>1, <2>1, <2>2, <2>3
<1> HIDE DEF p
<1>4. ASSUME NEW w \in 1 .. K + 1
      PROVE  p[w - 1] < p[w] /\ t[w] = [pos |-> p[w - 1], end |-> p[w] - 1, rows |-> <<>>]
  <2>1. CASE w = K + 1
    <3>1. w - 1 = K /\ K \in 0 .. K
      BY <1>1, <2>1
    <3>2. p[w - 1] = last /\ p[w] = new /\ t[w] = r
      BY <1>1, <1>2, <1>3, <2>1, <3>1
    <3> QED BY <3>2 DEF IsRange
  <2>2. CASE w # K + 1
    <3>1. w \in 1 .. K /\ w - 1 \in 0 .. K /\ w \in 0 .. K
      BY <1>1, <2>2
    <3>2. p[w - 1] = q[w - 1] /\ p[w] = q[w] /\ t[w] = s[w]
      BY <1>2, <1>3, <3>1
    <3> QED BY <1>1, <3>1, <3>2
  <2> QED BY <2>1, <2>2
<1>5. Between(t, p, first, new)
  BY <1>1, <1>2, <1>3, <1>4 DEF Between
<1>6. \A w \in 0 .. Len(t) : p[w] \in C
  <2> SUFFICES ASSUME NEW w \in 0 .. K + 1 PROVE p[w] \in C
    BY <1>2
  <2>1. CASE w = K + 1
    BY <1>3, <2>1
  <2>2. CASE w # K + 1
    <3>1. w \in 0 .. K
      BY <1>1, <2>2
    <3>2. q[w] \in C
      BY <3>1 DEF K, Within
    <3> QED BY <1>3, <3>1, <3>2
  <2> QED BY <2>1, <2>2
<1>7. Within(t, p, C)
  BY <1>6 DEF Within
<1> QED BY <1>5, <1>7 DEF t

(* Ranges that are put one behind the other lie between growing cuts.      *)
LEMMA RangesBetween ==
  ASSUME NEW n \in Nat, NEW c \in [0 .. n -> Nat], \A t \in 1 .. n : c[t - 1] <= c[t],
         NEW h, h[0] = <<>>, \A t \in 1 .. n : h[t] = Ranged(c, t, h[t - 1])
  PROVE  \E q : Between(h[n], q, c[0], c[n]) /\ \A w \in 0 .. Len(h[n]) : q[w] \in {c[t] : t \in 0 .. n}
<1> DEFINE C == {c[t] : t \in 0 .. n}
           Rec == [pos : Nat, end : Int, rows : {<<>>}]
           Good(t) == /\ h[t] \in Seq(Rec)
                      /\ \E q : Between(h[t], q, c[0], c[t]) /\ \A w \in 0 .. Len(h[t]) : q[w] \in C
           G == {t \in Nat : t <= n => Good(t)}
<1>1. \A t \in 0 .. n : c[t] \in Nat /\ c[t] \in C
  OBVIOUS
<1>2. 0 \in G
  <2> DEFINE s == <<>>
             q == [w \in 0 .. 0 |-> c[0]]
  <2>1. s \in Seq(Rec) /\ Len(s) = 0 /\ DOMAIN s = 1 .. 0 /\ h[0] = s /\ 0 \in 0 .. n
    OBVIOUS
  <2>2. q \in [0 .. 0 -> Nat] /\ q[0] = c[0] /\ \A w \in 0 .. 0 : q[w] \in C
    BY <1>1
  <2> HIDE DEF q, s, C, Rec
  <2>3. Between(s, q, c[0], c[0])
    BY <2>1, <2>2 DEF Between
  <2>4. Good(0)
    BY <2>1, <2>2, <2>3
  <2> QED BY <2>4
<1>3. ASSUME NEW t \in Nat, t \in G PROVE t + 1 \in G
  <2> SUFFICES ASSUME t + 1 <= n PROVE Good(t + 1)
    BY SMTT(40)
  <2> DEFINE u == t + 1
  <2>1. u \in 1 .. n /\ u - 1 = t /\ t \in 0 .. n /\ u \in 0 .. n /\ t <= n
    OBVIOUS
  <2>2. c[t] \in Nat /\ c[u] \in Nat /\ c[u] \in C /\ c[t] <= c[u]
    BY <1>1, <2>1
  <2>3. h[t] \in Seq(Rec)
    BY <1>3, <2>1
  <2>4. PICK q : Between(h[t], q, c[0], c[t]) /\ \A w \in 0 .. Len(h[t]) : q[w] \in C
    BY <1>3, <2>1
  <2>5. h[u] = Ranged(c, u, h[t])
    BY <2>1
  <2> HIDE DEF C, u
  <2>6. CASE c[t] < c[u]
    <3> DEFINE r == [pos |-> c[t], end |-> c[u] - 1, rows |-> <<>>]
               more == Append(h[t], r)
    <3>1. r \in Rec /\ r = [pos |-> c[t], end |-> c[u] - 1, rows |-> <<>>]
      BY <2>2
    <3>2. h[u] = more
      BY <2>1, <2>5, <2>6 DEF Ranged
    <3> HIDE DEF r, Rec
    <3>3. more \in Seq(Rec)
      BY <2>3, <3>1
    <3>4. \E p : Between(more, p, c[0], c[u]) /\ \A w \in 0 .. Len(more) : p[w] \in C
      <4> DEFINE s == h[t]
                 first == c[0]
                 last == c[t]
                 new == c[u]
      <4>1. s \in Seq(Rec) /\ last \in Nat /\ new \in Nat /\ last < new /\ new \in C
            /\ IsRange(r, last, new) /\ r \in Rec
        BY <2>2, <2>3, <2>6, <3>1 DEF IsRange
      <4>2. Between(s, q, first, last) /\ \A w \in 0 .. Len(s) : q[w] \in C
        BY <2>4
      <4> HIDE DEF s, first, last, new, more
      <4>a. Within(s, q, C)
        BY <4>2 DEF Within
      <4>3. \E p : Between(Append(s, r), p, first, new) /\ Within(Append(s, r), p, C)
        BY <4>1, <4>2, <4>a, OneMoreRange
      <4> QED BY <4>3 DEF s, first, new, more, Within
    <3> HIDE DEF more
    <3> QED BY <3>2, <3>3, <3>4 DEF u
  <2>7. CASE ~(c[t] < c[u])
    <3>1. c[t] = c[u]
      BY <2>2, <2>7
    <3>2. h[u] = h[t]
      BY <2>1, <2>5, <2>7 DEF Ranged
    <3> HIDE DEF Rec
    <3> QED BY <2>3, <2>4, <3>1, <3>2 DEF u
  <2> QED BY <2>6, <2>7
<1>4. \A t \in Nat : t \in G
  <2> HIDE DEF G
  <2> QED BY <1>2, <1>3, Induction
<1>5. Good(n)
  <2> HIDE DEF Good
  <2>1. n \in G
    BY <1>4
  <2> QED BY <2>1
<1> QED BY <1>5

(* The ranges of a file begin with its first row, where a line does, and   *)
(* end with its last byte.                                                 *)
LineStarts == {FirstRow, Size + 1} \cup {FindLineStart(x) : x \in FirstRow .. Size + 1}

(* Parts of the same length do not go back, nor over the end.              *)
LEMMA PartsGrow ==
  ASSUME NEW n \in Nat \ {0}, NEW d \in Nat, NEW t \in Nat, NEW u \in Nat, t <= u, u <= n
  PROVE  d \div n \in Nat /\ t * (d \div n) <= u * (d \div n) /\ u * (d \div n) <= d /\ t * (d \div n) \in Nat
<1> DEFINE b == d \div n
           r == d % n
<1>1. b \in Nat /\ r \in Nat /\ d = n * b + r
  OBVIOUS
<1> HIDE DEF b, r
<1>2. \A k \in Nat : k * b \in Nat
  BY <1>1
<1>3. (u - t) * b \in Nat /\ (n - u) * b \in Nat
  BY <1>1, <1>2
<1>4. (u - t) * b = u * b - t * b /\ (n - u) * b = n * b - u * b
  BY <1>1
<1>5. t * b \in Nat /\ u * b \in Nat /\ n * b \in Nat
  BY <1>2
<1>6. t * b <= u * b /\ u * b <= n * b
  BY <1>3, <1>4, <1>5
<1>7. u * b <= d
  BY <1>1, <1>5, <1>6
<1> QED BY <1>1, <1>5, <1>6, <1>7 DEF b

(* The ranges of a file lie between growing cuts, each of which begins a   *)
(* line.                                                                   *)
LEMMA RangesAre ==
  ASSUME Size \in Nat, FirstRow \in Nat, FirstRow <= Size + 1, NEW n \in Nat \ {0}
  PROVE  /\ \E q : Between(Ranges(n), q, FirstRow, Size + 1) /\ \A w \in 0 .. Len(Ranges(n)) : q[w] \in LineStarts
         /\ n = 1 => Len(Ranges(n)) <= 1
<1> DEFINE start == FirstRow
           bytes == (Size + 1 - start) \div n
           Cut(t) == CASE t = 0 -> start
                       [] t = n -> Size + 1
                       [] OTHER -> FindLineStart(start + t * bytes)
           c == [t \in 0 .. n |-> Cut(t)]
           E(q) == [t \in 0 .. n |->
                      IF t = 0 THEN <<>>
                      ELSE IF Cut(t - 1) < Cut(t)
                      THEN Append(q[t - 1], [pos |-> Cut(t - 1), end |-> Cut(t) - 1, rows |-> <<>>])
                      ELSE q[t - 1]]
           h == CHOOSE q : q = E(q)
<1>1. Ranges(n) = h[n]
  BY DEF Ranges
<1>2. start \in Nat /\ start <= Size + 1 /\ Size + 1 - start \in Nat /\ n \in Nat /\ 0 # n
  OBVIOUS
<1>3. ASSUME NEW t \in Nat, NEW u \in Nat, t <= u, u <= n
      PROVE  t * bytes \in Nat /\ t * bytes <= u * bytes /\ start + u * bytes <= Size + 1 /\ start + t * bytes \in Nat
             /\ u * bytes \in Nat
  <2> DEFINE d == Size + 1 - start
  <2>1. d \in Nat /\ bytes = d \div n
    BY <1>2
  <2> HIDE DEF d, bytes, start
  <2>2. t * bytes \in Nat /\ t * bytes <= u * bytes /\ u * bytes <= d /\ u * bytes \in Nat
    <3>1. u <= u
      OBVIOUS
    <3> QED BY <1>2, <1>3, <2>1, <3>1, PartsGrow
  <2> DEFINE x == t * bytes
             y == u * bytes
  <2>3. x \in Nat /\ x <= y /\ y <= d /\ y \in Nat
    BY <2>2
  <2> HIDE DEF x, y
  <2>4. start + y <= Size + 1 /\ start + x \in Nat
    BY <1>2, <2>3 DEF d
  <2> QED BY <2>3, <2>4 DEF x, y
<1> HIDE DEF start, bytes
<1>4. ASSUME NEW t \in 0 .. n PROVE Cut(t) \in start .. Size + 1 /\ Cut(t) \in LineStarts
  <2>1. CASE t = 0
    BY <1>2, <2>1 DEF LineStarts, start
  <2>2. CASE t = n
    BY <1>2, <2>2 DEF LineStarts
  <2>3. CASE t # 0 /\ t # n
    <3> DEFINE x == start + t * bytes
    <3>1. x \in Nat /\ x <= Size + 1 /\ x >= start
      <4>1. t \in Nat /\ t <= t /\ t <= n
        BY <1>2
      <4>2. t * bytes \in Nat /\ start + t * bytes <= Size + 1
        BY <1>3, <4>1
      <4> DEFINE y == t * bytes
      <4>3. y \in Nat /\ start + y <= Size + 1
        BY <4>2
      <4> HIDE DEF y
      <4>4. start + y \in Nat /\ start + y >= start
        BY <1>2, <4>3
      <4> QED BY <4>3, <4>4 DEF y
    <3>2. Cut(t) = FindLineStart(x)
      BY <2>3
    <3> HIDE DEF x, Cut
    <3>3. FindLineStart(x) \in x .. Size + 1
      BY <3>1, LineStartIs
    <3>4. x \in FirstRow .. Size + 1
      BY <3>1 DEF start
    <3> QED BY <1>2, <3>1, <3>2, <3>3, <3>4 DEF LineStarts
  <2> QED BY <2>1, <2>2, <2>3
<1>5. ASSUME NEW t \in 1 .. n PROVE Cut(t - 1) <= Cut(t)
  <2>1. t - 1 \in 0 .. n /\ t \in 0 .. n /\ t # 0 /\ t - 1 # n /\ t - 1 \in Nat /\ t \in Nat /\ t - 1 <= t /\ t <= n
    BY <1>2
  <2>2. Cut(t - 1) \in start .. Size + 1 /\ Cut(t) \in start .. Size + 1
    BY <1>4, <2>1
  <2>3. CASE t - 1 = 0
    <3>1. Cut(t - 1) = start
      BY <2>3
    <3> HIDE DEF Cut
    <3> QED BY <1>2, <2>2, <3>1
  <2>4. CASE t = n
    <3>1. Cut(t) = Size + 1
      BY <2>1, <2>4
    <3> HIDE DEF Cut
    <3> QED BY <1>2, <2>2, <3>1
  <2>5. CASE t - 1 # 0 /\ t # n
    <3> DEFINE u == t - 1
               x == start + u * bytes
               y == start + t * bytes
    <3>1. Cut(t - 1) = FindLineStart(x) /\ Cut(t) = FindLineStart(y)
      BY <2>1, <2>5
    <3>2. x \in Nat /\ y \in Nat /\ x <= y /\ y <= Size + 1
      <4>1. u \in Nat /\ u <= t
        BY <2>1
      <4> HIDE DEF u
      <4>2. u * bytes \in Nat /\ u * bytes <= t * bytes /\ start + t * bytes <= Size + 1 /\ t * bytes \in Nat
        BY <1>3, <2>1, <4>1
      <4> DEFINE a == u * bytes
                 b == t * bytes
      <4>3. a \in Nat /\ b \in Nat /\ a <= b /\ start + b <= Size + 1
        BY <4>2
      <4> HIDE DEF a, b
      <4>4. start + a \in Nat /\ start + b \in Nat /\ start + a <= start + b
        BY <1>2, <4>3
      <4> QED BY <4>3, <4>4 DEF a, b
    <3> HIDE DEF x, y, Cut
    <3> QED BY <3>1, <3>2, LineStartsGrow
  <2> QED BY <2>3, <2>4, <2>5
<1>6. c[0] = FirstRow /\ c[n] = Size + 1 /\ \A t \in 0 .. n : c[t] = Cut(t)
  <2>1. 0 \in 0 .. n /\ n \in 0 .. n
    BY <1>2
  <2> QED BY <1>2, <2>1 DEF start
<1> HIDE DEF Cut
<1>7. c \in [0 .. n -> Nat] /\ (\A t \in 1 .. n : c[t - 1] <= c[t]) /\ \A t \in 0 .. n : c[t] \in LineStarts
  <2>1. \A t \in 0 .. n : Cut(t) \in Nat
    <3> SUFFICES ASSUME NEW t \in 0 .. n PROVE Cut(t) \in Nat
      OBVIOUS
    <3>1. Cut(t) \in start .. Size + 1
      BY <1>4
    <3> QED BY <1>2, <3>1
  <2>2. \A t \in 1 .. n : t - 1 \in 0 .. n /\ t \in 0 .. n
    BY <1>2
  <2> QED BY <1>4, <1>5, <2>1, <2>2
<1>8. h = E(h)
  <2> DEFINE Rec == [pos : Nat, end : Int, rows : {<<>>}]
             S == Seq(Rec)
             step == [t \in Nat |-> [s \in S |-> IF t \in 1 .. n THEN Ranged(c, t, s) ELSE s]]
             first == <<>>
  <2>1. ASSUME NEW t \in 1 .. n, NEW s \in S PROVE Ranged(c, t, s) \in S
    <3>1. t - 1 \in 0 .. n /\ t \in 0 .. n
      BY <1>2
    <3>2. c[t - 1] \in Nat /\ c[t] \in Nat
      BY <1>7, <3>1
    <3> DEFINE r == [pos |-> c[t - 1], end |-> c[t] - 1, rows |-> <<>>]
    <3>3. r \in Rec
      BY <3>2
    <3> HIDE DEF r, Rec, c
    <3>4. Append(s, r) \in S
      BY <3>3
    <3> QED BY <3>4 DEF Ranged, r
  <2>2. first \in S
    OBVIOUS
  <2> HIDE DEF S
  <2>3. step \in [Nat -> [S -> S]]
    BY <2>1
  <2> HIDE DEF step, first
  <2>4. PICK f : Computes(f, first, step, S, n)
    BY <1>2, <2>2, <2>3, Recursion
  <2>5. f \in [0 .. n -> S] /\ f[0] = <<>> /\ \A t \in 1 .. n : f[t] = step[t][f[t - 1]]
    BY <2>4 DEF Computes, first
  <2>6. ASSUME NEW t \in 1 .. n PROVE f[t] = Ranged(c, t, f[t - 1])
    <3>1. t - 1 \in 0 .. n /\ t \in Nat
      BY <1>2
    <3>2. f[t - 1] \in S
      BY <2>5, <3>1
    <3> QED BY <2>5, <3>1, <3>2 DEF step
  <2>7. f = E(f)
    <3>1. ASSUME NEW t \in 0 .. n
          PROVE  f[t] = IF t = 0 THEN <<>>
                        ELSE IF Cut(t - 1) < Cut(t)
                        THEN Append(f[t - 1], [pos |-> Cut(t - 1), end |-> Cut(t) - 1, rows |-> <<>>])
                        ELSE f[t - 1]
      <4>1. CASE t = 0
        BY <2>5, <4>1
      <4>2. CASE t # 0
        <5>1. t \in 1 .. n /\ t - 1 \in 0 .. n
          BY <1>2, <4>2
        <5>2. c[t] = Cut(t) /\ c[t - 1] = Cut(t - 1) /\ f[t] = Ranged(c, t, f[t - 1])
          BY <1>6, <2>6, <5>1
        <5> HIDE DEF c
        <5> QED BY <4>2, <5>2 DEF Ranged
      <4> QED BY <4>1, <4>2
    <3>2. f = [t \in 0 .. n |-> f[t]]
      BY <2>5
    <3> QED BY <3>1, <3>2
  <2> HIDE DEF E
  <2> QED BY <2>7
<1>9. h[0] = <<>> /\ \A t \in 1 .. n : h[t] = Ranged(c, t, h[t - 1])
  <2> HIDE DEF h
  <2>1. 0 \in 0 .. n /\ \A t \in 1 .. n : t \in 0 .. n /\ t # 0 /\ t - 1 \in 0 .. n
    BY <1>2
  <2>2. h[0] = <<>>
    BY <1>8, <2>1
  <2>3. ASSUME NEW t \in 1 .. n PROVE h[t] = Ranged(c, t, h[t - 1])
    <3>1. h[t] = IF Cut(t - 1) < Cut(t)
                 THEN Append(h[t - 1], [pos |-> Cut(t - 1), end |-> Cut(t) - 1, rows |-> <<>>])
                 ELSE h[t - 1]
      BY <1>8, <2>1
    <3>2. c[t] = Cut(t) /\ c[t - 1] = Cut(t - 1)
      BY <1>6, <2>1
    <3> HIDE DEF c, E
    <3> QED BY <3>1, <3>2 DEF Ranged
  <2> QED BY <2>2, <2>3
<1> HIDE DEF h, c, E
<1>10. PICK q : Between(h[n], q, c[0], c[n]) /\ \A w \in 0 .. Len(h[n]) : q[w] \in {c[t] : t \in 0 .. n}
  BY <1>2, <1>7, <1>9, RangesBetween
<1>11. Between(Ranges(n), q, FirstRow, Size + 1) /\ \A w \in 0 .. Len(Ranges(n)) : q[w] \in LineStarts
  BY <1>1, <1>6, <1>7, <1>10
<1>12. ASSUME n = 1 PROVE Len(Ranges(n)) <= 1
  <2> DEFINE K == Len(Ranges(n))
  <2>1. K \in Nat /\ q \in [0 .. K -> Nat] /\ \A w \in 1 .. K : q[w - 1] < q[w]
    BY <1>11 DEF Between
  <2>2. \A w \in 0 .. K : q[w] \in {c[0], c[1]}
    <3>1. {c[t] : t \in 0 .. n} = {c[0], c[1]}
      <4>1. 0 .. n = {0, 1}
        BY <1>12
      <4> QED BY <4>1
    <3> QED BY <1>1, <1>10, <3>1
  <2> HIDE DEF K
  <2>3. SUFFICES ASSUME K > 1 PROVE FALSE
    BY <2>1 DEF K
  <2>4. 1 \in 1 .. K /\ 2 \in 1 .. K /\ 1 - 1 = 0 /\ 2 - 1 = 1 /\ 0 \in 0 .. K /\ 1 \in 0 .. K /\ 2 \in 0 .. K
    BY <2>1, <2>3
  <2>5. q[0] < q[1] /\ q[1] < q[2] /\ q[0] \in Nat /\ q[1] \in Nat /\ q[2] \in Nat
    BY <2>1, <2>4
  <2>6. q[0] \in {c[0], c[1]} /\ q[1] \in {c[0], c[1]} /\ q[2] \in {c[0], c[1]}
    BY <2>2, <2>4
  <2> QED BY <2>5, <2>6
<1> QED BY <1>11, <1>12

-----------------------------------------------------------------------------
(* Ranges begin with rows                                                  *)

(* A number from the first to the last of a row of numbers is between two. *)
LEMMA Interval ==
  ASSUME NEW N \in Nat, NEW f \in [0 .. N -> Nat], NEW x \in Nat, f[0] <= x, x < f[N]
  PROVE  \E i \in 1 .. N : f[i - 1] <= x /\ x < f[i]
<1> SUFFICES ASSUME \A i \in 1 .. N : f[i - 1] <= x => ~(x < f[i]) PROVE FALSE
  OBVIOUS
<1> DEFINE G == {k \in Nat : k <= N => f[k] <= x}
<1>1. 0 \in G
  OBVIOUS
<1>2. ASSUME NEW k \in Nat, k \in G PROVE k + 1 \in G
  <2> SUFFICES ASSUME k + 1 <= N PROVE f[k + 1] <= x
    OBVIOUS
  <2>1. k + 1 \in 1 .. N /\ (k + 1) - 1 = k /\ k <= N /\ k + 1 \in 0 .. N
    OBVIOUS
  <2>2. ~(x < f[k + 1]) /\ f[k + 1] \in Nat
    BY <1>2, <2>1
  <2> QED BY <2>2
<1>3. \A k \in Nat : k \in G
  <2> HIDE DEF G
  <2> QED BY <1>1, <1>2, Induction
<1>4. f[N] <= x /\ f[N] \in Nat
  <2>1. N \in 0 .. N
    OBVIOUS
  <2> QED BY <1>3, <2>1
<1> QED BY <1>4

-----------------------------------------------------------------------------
(* A cell without a newline is written without one.                        *)
NoBreak == \A cell \in Cells : ~HasByte({NL}, cell)

(* No text of the file has a newline when no cell has one.                 *)
LEMMA TextsUnbroken ==
  ASSUME Filled, NoBreak, NEW n \in 1 .. Len(Lines), NEW c \in 1 .. Columns
  PROVE  NL \notin ToSet(Texts(n)[c])
<1>1. CASE form.header /\ n = 1
  <2>1. ToSet(<<Letter>>) = {Letter}
    BY DEF ToSet
  <2> QED BY <1>1, <2>1, CsvFileAssumption DEF Texts, Header
<1>2. CASE ~(form.header /\ n = 1)
  <2>1. n - Above \in 1 .. Len(csv)
    <3>1. Len(Lines) = Above + Len(csv) /\ Above \in {0, 1} /\ Len(csv) \in Nat
      BY LinesType, FileType DEF Filled
    <3> QED BY <1>2, <3>1 DEF Above
  <2> DEFINE cell == csv[n - Above][c]
             T == Bytes \ {NL}
  <2>2. IsText(cell) /\ n - Above \in DOMAIN csv
    BY <2>1, FileType DEF Filled
  <2>a. cell \in Cells
    BY <2>2 DEF Cells
  <2>3. ~HasByte({NL}, cell)
    <3> HIDE DEF cell
    <3> QED BY <2>a DEF NoBreak
  <2>4. Texts(n)[c] = Written(cell)
    BY <1>2 DEF Texts
  <2> HIDE DEF cell
  <2>5. Plain(cell) \in Seq(T)
    <3>1. Plain(cell) \in Seq(Bytes) /\ NL \notin ToSet(Plain(cell))
      BY <2>2, <2>3, PlainType DEF HasByte, Plain, ToSet
    <3> DEFINE s == Plain(cell)
    <3>2. s \in Seq(Bytes) /\ NL \notin ToSet(s)
      BY <3>1
    <3> HIDE DEF s
    <3>3. \A k \in 1 .. Len(s) : s[k] \in T
      BY <3>2 DEF ToSet
    <3>4. s \in Seq(T)
      BY <3>2, <3>3
    <3> QED BY <3>4 DEF s
  <2>6. T \in SUBSET Bytes /\ Quote \in T
    BY CsvFileAssumption DEF Bytes
  <2> HIDE DEF T
  <2>7. Written(cell) \in Seq(T)
    BY <2>2, <2>5, <2>6, WrittenType
  <2>8. ToSet(Written(cell)) \subseteq T
    BY <2>7 DEF ToSet
  <2> QED BY <2>4, <2>8 DEF T
<1> QED BY <1>1, <1>2

(* A line of such texts has one newline, its last byte, unless the file    *)
(* ends without.                                                           *)
LEMMA LineNewline ==
  ASSUME NEW P, NEW texts, NEW next, NEW e, LineIsIn(P, texts, next, e),
         \A c \in 1 .. Columns : NL \notin ToSet(texts[c])
  PROVE  /\ next - 1 \in Nat \ {0} /\ P[1] <= next - 1
         /\ \A k \in P[1] .. next - 2 : buffer[k] # NL
         /\ buffer[next - 1] = NL \/ (next = Size + 1 /\ buffer[next - 1] # NL /\ ~form.ended)
<1> DEFINE p == P[Columns + 1]
           q == P[1]
<1>1. p \in Nat /\ q \in Nat \ {0} /\ q <= p /\ next \in Nat /\ q < next /\ Size \in Nat
      /\ form.eol \in {<<NL>>, <<CR, NL>>} /\ NL # CR /\ Delimiter # NL
  <2>1. 1 \in 1 .. Columns + 1 /\ Columns + 1 \in 1 .. Columns + 1
    BY LineOrder
  <2>2. q \in Nat \ {0} /\ p \in Nat /\ q <= p /\ next \in Nat /\ q < next /\ Size \in Nat
    BY <2>1, LineOrder
  <2> QED BY <2>2, CsvFileAssumption DEF LineIsIn
<1>2. \/ /\ next = p + Len(form.eol) /\ next <= Size + 1
         /\ \A k \in 1 .. Len(form.eol) : buffer[p + k - 1] = form.eol[k]
      \/ ~form.ended /\ next = p /\ next = Size + 1 /\ P[1] < next
  BY DEF LineIsIn, InLine
<1>3. ASSUME NEW i \in q .. p - 1 PROVE buffer[i] # NL
  <2>1. 1 \in 1 .. Columns + 1
    BY LineOrder
  <2>2. buffer[i] = Delimiter \/ \E c \in 1 .. Columns : buffer[i] \in ToSet(texts[c])
    BY <2>1, LineBytes
  <2> QED BY <1>1, <2>2
<1> HIDE DEF p, q
<1>4. CASE ~form.ended /\ next = p /\ next = Size + 1 /\ P[1] < next
  <2>1. next - 1 \in q .. p - 1 /\ \A k \in q .. next - 2 : k \in q .. p - 1
    BY <1>1, <1>4
  <2>2. buffer[next - 1] # NL /\ \A k \in q .. next - 2 : buffer[k] # NL
    BY <1>3, <2>1
  <2>3. next - 1 \in Nat \ {0} /\ q <= next - 1
    BY <1>1
  <2> QED BY <1>4, <2>2, <2>3 DEF q
<1>5. CASE /\ next = p + Len(form.eol) /\ next <= Size + 1
           /\ \A k \in 1 .. Len(form.eol) : buffer[p + k - 1] = form.eol[k]
  <2>1. CASE form.eol = <<NL>>
    <3>1. Len(form.eol) = 1 /\ form.eol[1] = NL /\ p + 1 - 1 = p
      BY <1>1, <2>1
    <3>2. buffer[p] = NL /\ next = p + 1
      BY <1>5, <3>1
    <3>3. next - 1 = p /\ next - 1 \in Nat \ {0} /\ q <= next - 1 /\ \A k \in q .. next - 2 : k \in q .. p - 1
      BY <1>1, <3>2
    <3> QED BY <1>3, <3>2, <3>3 DEF q
  <2>2. CASE form.eol = <<CR, NL>>
    <3>1. Len(form.eol) = 2 /\ form.eol[1] = CR /\ form.eol[2] = NL /\ p + 1 - 1 = p /\ p + 2 - 1 = p + 1
      BY <1>1, <2>2
    <3>2. buffer[p] = CR /\ buffer[p + 1] = NL /\ next = (p + 1) + 1
      BY <1>1, <1>5, <3>1
    <3>3. next - 1 = p + 1 /\ next - 1 \in Nat \ {0} /\ q <= next - 1
          /\ \A k \in q .. next - 2 : k \in q .. p - 1 \/ k = p
      BY <1>1, <3>2
    <3>4. \A k \in q .. next - 2 : buffer[k] # NL
      BY <1>1, <1>3, <3>2, <3>3
    <3> QED BY <3>2, <3>3, <3>4 DEF q
  <2> QED BY <1>1, <2>1, <2>2
<1> QED BY <1>2, <1>4, <1>5

(* The newlines of a row: one at its end, unless the file ends without it. *)
LEMMA RowNewline ==
  ASSUME Filled, NoBreak, NEW at, IsLaid(at), NEW i \in 1 .. Len(csv)
  PROVE  /\ Start(at, i) - 1 \in Nat \ {0} /\ Start(at, i - 1) <= Start(at, i) - 1
         /\ Start(at, i - 1) \in Nat /\ Start(at, i) \in Nat
         /\ \A k \in Start(at, i - 1) .. Start(at, i) - 2 : buffer[k] # NL
         /\ buffer[Start(at, i) - 1] = NL \/ (Start(at, i) = Size + 1 /\ buffer[Start(at, i) - 1] # NL)
<1> DEFINE n == Above + i
<1>1. n \in 1 .. Len(Lines) /\ n + 1 = Above + i + 1 /\ n = Above + (i - 1) + 1
  BY StartsGrow
<1>2. Start(at, i) = at[n + 1] /\ Start(at, i - 1) = at[n]
  BY <1>1 DEF Start
<1>3. Size \in Nat /\ Size <= Size /\ at[n + 1] <= Size + 1 /\ i \in 0 .. Len(csv) /\ i - 1 \in 0 .. Len(csv)
      /\ Start(at, i) \in Nat /\ Start(at, i - 1) \in Nat
  <2>1. i \in 0 .. Len(csv) /\ i - 1 \in 0 .. Len(csv)
    BY StartsGrow
  <2>2. Size \in Nat /\ Start(at, i) <= Size + 1 /\ Start(at, i) \in Nat /\ Start(at, i - 1) \in Nat
    BY <2>1, StartsGrow
  <2> QED BY <1>2, <2>1, <2>2
<1> HIDE DEF n
<1>4. PICK P : P[1] = at[n] /\ LineIsIn(P, Texts(n), at[n + 1], Size)
  BY <1>1, <1>3, LineInRange
<1>5. \A c \in 1 .. Columns : NL \notin ToSet(Texts(n)[c])
  BY <1>1, TextsUnbroken
<1>6. /\ at[n + 1] - 1 \in Nat \ {0} /\ P[1] <= at[n + 1] - 1
      /\ \A k \in P[1] .. at[n + 1] - 2 : buffer[k] # NL
      /\ buffer[at[n + 1] - 1] = NL \/ (at[n + 1] = Size + 1 /\ buffer[at[n + 1] - 1] # NL /\ ~form.ended)
  BY <1>4, <1>5, LineNewline
<1> QED BY <1>2, <1>3, <1>4, <1>6

(* Every byte of the rows is in one of them.                               *)
LEMMA RowOfByte ==
  ASSUME Filled, NEW at, IsLaid(at), NEW x \in FirstRow .. Size
  PROVE  \E i \in 1 .. Len(csv) : Start(at, i - 1) <= x /\ x < Start(at, i)
<1> DEFINE N == Len(csv)
           f == [i \in 0 .. N |-> Start(at, i)]
<1>1. /\ N \in Nat /\ Size \in Nat /\ \A i \in 0 .. N : Start(at, i) \in Nat
      /\ Start(at, 0) = FirstRow /\ Start(at, N) = Size + 1
  BY StartsGrow
<1>2. 0 \in 0 .. N /\ N \in 0 .. N
  BY <1>1
<1> HIDE DEF N
<1>3. f \in [0 .. N -> Nat] /\ f[0] = FirstRow /\ f[N] = Size + 1 /\ \A i \in 0 .. N : f[i] = Start(at, i)
  BY <1>1, <1>2
<1> HIDE DEF f
<1>4. FirstRow \in Nat
  BY <1>1, <1>2
<1>5. x \in Nat /\ f[0] <= x /\ x < f[N]
  BY <1>1, <1>3, <1>4
<1>6. PICK i \in 1 .. N : f[i - 1] <= x /\ x < f[i]
  BY <1>1, <1>3, <1>5, Interval
<1>7. i - 1 \in 0 .. N /\ i \in 0 .. N
  BY <1>1
<1> QED BY <1>3, <1>6, <1>7 DEF N

(* A place behind a newline is the start of a row when no cell has a       *)
(* newline.                                                                *)
LEMMA LineStartsAre ==
  ASSUME Filled, NoBreak, NEW at, IsLaid(at), NEW s \in LineStarts
  PROVE  \E i \in 0 .. Len(csv) : s = Start(at, i)
<1>1. /\ Len(csv) \in Nat /\ Size \in Nat /\ Start(at, 0) = FirstRow /\ Start(at, Len(csv)) = Size + 1
      /\ 0 \in 0 .. Len(csv) /\ Len(csv) \in 0 .. Len(csv)
  BY StartsGrow
<1>0. FirstRow \in Nat
  BY <1>1, StartsGrow
<1>2. CASE s \in {FirstRow, Size + 1}
  BY <1>1, <1>2
<1>3. CASE \E x \in FirstRow .. Size + 1 : s = FindLineStart(x)
  <2>1. PICK x \in FirstRow .. Size + 1 : s = FindLineStart(x)
    BY <1>3
  <2>2. x \in Nat /\ x <= Size + 1
    BY <1>0, <1>1
  <2>3. s \in x .. Size + 1
    BY <1>1, <2>1, <2>2, LineStartIs
  <2>4. PICK q \in x .. Size + 1 :
              /\ \A i \in x .. q - 1 : buffer[i] # NL
              /\ q <= Size => buffer[q] = NL
              /\ FindLineStart(x) = IF q <= Size THEN q + 1 ELSE q
    BY <1>1, <2>2, LineStartIs
  <2>5. CASE x = Size + 1
    <3>1. s = Size + 1
      BY <1>1, <2>3, <2>5
    <3> QED BY <1>1, <3>1
  <2>6. CASE x # Size + 1
    <3>1. x \in FirstRow .. Size
      BY <1>0, <1>1, <2>6
    <3>2. PICK i \in 1 .. Len(csv) : Start(at, i - 1) <= x /\ x < Start(at, i)
      BY <3>1, RowOfByte
    <3> DEFINE a == Start(at, i - 1)
               b == Start(at, i)
    <3>3. /\ a \in Nat /\ b \in Nat /\ b - 1 \in Nat /\ a <= x /\ x < b
          /\ \A k \in a .. b - 2 : buffer[k] # NL
          /\ buffer[b - 1] = NL \/ (b = Size + 1 /\ buffer[b - 1] # NL)
      BY <3>2, RowNewline
    <3>4. i \in 0 .. Len(csv) /\ b <= Size + 1
      <4>1. i \in 0 .. Len(csv)
        BY <1>1
      <4> QED BY <4>1, StartsGrow
    <3> HIDE DEF a, b
    <3>5. CASE buffer[b - 1] = NL
      <4>1. ~(b - 1 < q)
        <5> SUFFICES ASSUME b - 1 < q PROVE FALSE
          OBVIOUS
        <5>1. b - 1 \in x .. q - 1
          BY <2>2, <3>3
        <5> QED BY <2>4, <3>5, <5>1
      <4>2. q <= Size /\ buffer[q] = NL
        BY <1>1, <2>2, <2>4, <3>3, <3>4, <4>1
      <4>3. ~(q < b - 1)
        <5> SUFFICES ASSUME q < b - 1 PROVE FALSE
          OBVIOUS
        <5>1. q \in a .. b - 2
          BY <2>2, <3>3
        <5> QED BY <3>3, <4>2, <5>1
      <4>4. s = b
        BY <2>1, <2>2, <2>4, <3>3, <4>1, <4>2, <4>3
      <4> QED BY <3>4, <4>4 DEF b
    <3>6. CASE b = Size + 1 /\ buffer[b - 1] # NL
      <4>1. ~(q <= Size)
        <5> SUFFICES ASSUME q <= Size PROVE FALSE
          OBVIOUS
        <5>1. buffer[q] = NL /\ (q \in a .. b - 2 \/ q = b - 1)
          BY <1>1, <2>2, <2>4, <3>3, <3>6
        <5> QED BY <3>3, <3>6, <5>1
      <4>2. s = Size + 1
        BY <1>1, <2>1, <2>2, <2>4, <4>1
      <4> QED BY <3>4, <3>6, <4>2 DEF b
    <3> QED BY <3>3, <3>5, <3>6
  <2> QED BY <2>5, <2>6
<1> QED BY <1>2, <1>3 DEF LineStarts

(* A file with a header is counted by its newlines.                        *)
LEMMA CountIs ==
  ASSUME Filled, NoBreak, form.header, csv = <<>> => form.ended
  PROVE  Newlines + (IF Last(buffer) # NL THEN 1 ELSE 0) = Len(csv)
<1> DEFINE N == Len(csv)
           ends == {i \in FirstRow .. Size : buffer[i] = NL}
<1>1. PICK at : IsLaid(at)
  BY LinesLaid
<1>2. /\ N \in Nat /\ Size \in Nat /\ FirstRow \in Nat
      /\ \A i \in 0 .. N : Start(at, i) \in Nat \ {0} /\ Start(at, i) <= Size + 1
      /\ Start(at, 0) = FirstRow /\ Start(at, N) = Size + 1
      /\ \A i \in 0 .. N : \A j \in 0 .. N : i < j <=> Start(at, i) < Start(at, j)
  <2>1. 0 \in 0 .. N
    BY <1>1, StartsGrow
  <2> QED BY <1>1, <2>1, StartsGrow
<1>3. Last(buffer) = buffer[Size] /\ Newlines = Cardinality(ends)
  BY DEF Last, Size, Newlines
<1>4. \A i \in 1 .. N :
         /\ Start(at, i) - 1 \in Nat \ {0} /\ Start(at, i - 1) <= Start(at, i) - 1
         /\ Start(at, i - 1) \in Nat /\ Start(at, i) \in Nat
         /\ \A k \in Start(at, i - 1) .. Start(at, i) - 2 : buffer[k] # NL
         /\ buffer[Start(at, i) - 1] = NL \/ (Start(at, i) = Size + 1 /\ buffer[Start(at, i) - 1] # NL)
  BY <1>1, RowNewline
<1>5. \A k \in ends : \E i \in 1 .. N : Start(at, i - 1) <= k /\ k < Start(at, i)
  BY <1>1, RowOfByte
<1>6. CASE N = 0
  <2>1. ends = {}
    BY <1>2, <1>6
  <2>2. Cardinality(ends) = 0
    BY <2>1, FS_EmptySet
  <2>3. csv = <<>> /\ form.ended
    <3>1. csv \in Seq({csv[i] : i \in DOMAIN csv})
      BY CsvFileAssumption DEF Filled, FileOK
    <3>2. csv = <<>>
      BY <1>6, <3>1
    <3> QED BY <3>2
  <2>4. 1 \in 1 .. Len(Lines) /\ 1 + 1 = Above + 0 + 1
    <3>1. Len(Lines) = Above + Len(csv) /\ Above = 1
      BY LinesType DEF Filled, Above
    <3> QED BY <1>6, <3>1
  <2>5. at[1 + 1] = Size + 1
    BY <1>2, <1>6, <2>4 DEF Start
  <2>6. Size <= Size /\ at[1 + 1] <= Size + 1
    BY <1>2, <2>5
  <2>7. PICK P : P[1] = at[1] /\ LineIsIn(P, Texts(1), at[1 + 1], Size)
    BY <1>1, <1>2, <2>4, <2>6, LineInRange
  <2>8. \A c \in 1 .. Columns : NL \notin ToSet(Texts(1)[c])
    BY <2>4, TextsUnbroken
  <2>9. buffer[at[1 + 1] - 1] = NL
    BY <2>3, <2>7, <2>8, LineNewline
  <2>10. buffer[Size] = NL
    <3>1. (Size + 1) - 1 = Size
      BY <1>2
    <3> QED BY <2>5, <2>9, <3>1
  <2> QED BY <1>3, <1>6, <2>2, <2>10
<1>7. CASE N # 0
  <2> DEFINE M == IF buffer[Size] = NL THEN N ELSE N - 1
             f == [i \in 1 .. M |-> Start(at, i) - 1]
  <2>1. M \in Nat /\ M <= N /\ (M = N <=> buffer[Size] = NL)
    BY <1>2, <1>7
  <2>2. (Size + 1) - 1 = Size /\ \A i \in 1 .. M : i \in 1 .. N /\ i \in 0 .. N /\ i - 1 \in 0 .. N
    BY <1>2, <2>1
  <2> HIDE DEF M
  <2>3. ASSUME NEW i \in 1 .. M PROVE Start(at, i) - 1 \in ends
    <3>1. FirstRow <= Start(at, i) - 1
      <4>1. i - 1 = 0 \/ 0 < i - 1
        BY <2>1
      <4>2. 0 \in 0 .. N
        BY <1>2
      <4>3. FirstRow <= Start(at, i - 1)
        <5>1. CASE i - 1 = 0
          BY <1>2, <5>1
        <5>2. CASE 0 < i - 1
          <6>1. Start(at, 0) < Start(at, i - 1)
            BY <1>2, <2>2, <4>2, <5>2
          <6> QED BY <1>2, <1>4, <2>2, <6>1
        <5> QED BY <4>1, <5>1, <5>2
      <4> QED BY <1>2, <1>4, <2>2, <4>3
    <3>2. Start(at, i) - 1 <= Size /\ Start(at, i) - 1 \in Nat
      <4>1. Start(at, i) \in Nat \ {0} /\ Start(at, i) <= Size + 1
        BY <1>2, <2>2
      <4> QED BY <1>2, <4>1
    <3>3. buffer[Start(at, i) - 1] = NL
      <4> SUFFICES ASSUME Start(at, i) = Size + 1, buffer[Start(at, i) - 1] # NL PROVE FALSE
        BY <1>4, <2>2
      <4>1. buffer[Size] # NL
        BY <2>2
      <4>2. i < N /\ N \in 0 .. N
        BY <1>2, <2>1, <2>2, <4>1
      <4>3. Start(at, i) < Start(at, N)
        BY <1>2, <2>2, <4>2
      <4> QED BY <1>2, <4>3
    <3> QED BY <1>2, <3>1, <3>2, <3>3
  <2>4. ASSUME NEW k \in ends PROVE \E i \in 1 .. M : k = Start(at, i) - 1
    <3>1. PICK i \in 1 .. N : Start(at, i - 1) <= k /\ k < Start(at, i)
      BY <1>5
    <3> DEFINE a == Start(at, i - 1)
               b == Start(at, i)
    <3>2. /\ b - 1 \in Nat \ {0} /\ a <= b - 1 /\ a \in Nat /\ b \in Nat
          /\ \A j \in a .. b - 2 : buffer[j] # NL
          /\ buffer[b - 1] = NL \/ (b = Size + 1 /\ buffer[b - 1] # NL)
      BY <1>4
    <3>3. a <= k /\ k < b /\ k \in Nat /\ buffer[k] = NL
      BY <1>2, <3>1
    <3> HIDE DEF a, b
    <3>4. k = b - 1
      <4>1. ~(k \in a .. b - 2)
        BY <3>2, <3>3
      <4> QED BY <3>2, <3>3, <4>1
    <3>5. i \in 1 .. M
      <4> SUFFICES ASSUME ~(i <= M) PROVE FALSE
        BY <1>2, <2>1
      <4>1. i = N /\ buffer[Size] # NL
        BY <1>2, <2>1 DEF M
      <4>2. b = Size + 1
        BY <1>2, <4>1 DEF b
      <4> QED BY <2>2, <3>3, <3>4, <4>1, <4>2
    <3> QED BY <3>4, <3>5 DEF b
  <2>5. ASSUME NEW i \in 1 .. M, NEW j \in 1 .. M, Start(at, i) - 1 = Start(at, j) - 1 PROVE i = j
    <3>1. Start(at, i) = Start(at, j) /\ Start(at, i) \in Nat
      <4>1. Start(at, i) \in Nat /\ Start(at, j) \in Nat
        BY <1>2, <2>2
      <4> QED BY <2>5, <4>1
    <3>2. ~(i < j) /\ ~(j < i)
      BY <1>2, <2>2, <3>1
    <3> QED BY <2>1, <3>2
  <2> HIDE DEF ends
  <2>6. f \in Bijection(1 .. M, ends)
    BY <2>3, <2>4, <2>5 DEF Bijection, Injection, Surjection, IsInjective
  <2>7. ExistsBijection(1 .. M, ends)
    BY <2>6 DEF ExistsBijection
  <2>8. IsFiniteSet(1 .. M) /\ Cardinality(1 .. M) = M
    <3>1. 1 \in Int /\ M \in Int
      BY <2>1
    <3>2. IsFiniteSet(1 .. M) /\ Cardinality(1 .. M) = IF 1 > M THEN 0 ELSE M - 1 + 1
      BY <3>1, FS_Interval
    <3> QED BY <2>1, <3>2
  <2>9. Cardinality(ends) = M
    BY <2>7, <2>8, FS_Bijection
  <2> HIDE DEF N
  <2>10. CASE buffer[Size] = NL
    <3>1. M = N
      BY <2>1, <2>10
    <3>2. N + 0 = N
      BY <1>2
    <3> QED BY <1>3, <2>9, <2>10, <3>1, <3>2 DEF N
  <2>11. CASE buffer[Size] # NL
    <3>1. M = N - 1
      BY <2>11 DEF M
    <3>2. (N - 1) + 1 = N
      BY <1>2
    <3> QED BY <1>3, <2>9, <2>11, <3>1, <3>2 DEF N
  <2> QED BY <2>10, <2>11
<1> QED BY <1>6, <1>7

-----------------------------------------------------------------------------
(* The type that is detected for a column                                  *)

(* The classes of texts, which are the types of columns too.               *)
Classes == {"timestamp", "double", "bigint", "varchar"}

(* The texts of a column that say something of its type.                   *)
Telling(c) == {i \in DOMAIN csv : Seen(csv[i][c]) # Null}

(* A type that some text of the column has, or that takes every text.      *)
FitsColumn(type, c) == type \in Classes /\ (type = "varchar" \/ \E i \in Telling(c) : Class(csv[i][c]) = type)

(* All the texts of a column of one class that say something have that     *)
(* class.                                                                  *)
LEMMA OneClass ==
  ASSUME Filled, NEW c, OfOneClass(c), NEW i \in Telling(c), NEW j \in Telling(c)
  PROVE  Class(csv[i][c]) = Class(csv[j][c])
<1> DEFINE S == {Class(csv[k][c]) : k \in Telling(c)}
           x == Class(csv[i][c])
           y == Class(csv[j][c])
<1>1. x \in S /\ y \in S /\ Cardinality(S) <= 1
  <2>1. {Class(csv[k][c]) : k \in {k \in DOMAIN csv : Seen(csv[k][c]) # Null}} = S
    BY DEF Telling
  <2> QED BY <2>1 DEF OfOneClass, Telling
<1>2. \A cell : Class(cell) \in Classes
  BY DEF Class, Classes
<1>3. S \subseteq Classes
  BY <1>2
<1>4. IsFiniteSet(S)
  <2>1. IsFiniteSet(Classes)
    <3> DEFINE A == {"timestamp"}
               B == A \cup {"double"}
               C == B \cup {"bigint"}
               D == C \cup {"varchar"}
    <3>1. IsFiniteSet(A)
      BY FS_Singleton
    <3>2. IsFiniteSet(B)
      <4> HIDE DEF A
      <4> QED BY <3>1, FS_AddElement
    <3>3. IsFiniteSet(C)
      <4> HIDE DEF B
      <4> QED BY <3>2, FS_AddElement
    <3>4. IsFiniteSet(D)
      <4> HIDE DEF C
      <4> QED BY <3>3, FS_AddElement
    <3>5. D = Classes
      BY DEF Classes
    <3> HIDE DEF D
    <3> QED BY <3>4, <3>5
  <2> HIDE DEF S
  <2> QED BY <1>3, <2>1, FS_Subset
<1> HIDE DEF S, x, y
<1>5. x = y
  <2> SUFFICES ASSUME x # y PROVE FALSE
    OBVIOUS
  <2>1. Cardinality({x}) = 1 /\ IsFiniteSet({x})
    BY FS_Singleton
  <2>2. Cardinality({x} \cup {y}) = 2
    BY <2>1, FS_AddElement
  <2>3. {x} \cup {y} \in SUBSET S
    BY <1>1
  <2>4. Cardinality({x} \cup {y}) <= Cardinality(S) /\ Cardinality(S) \in Nat
    BY <1>4, <2>3, FS_Subset, FS_CardinalityType
  <2> QED BY <1>1, <2>2, <2>4
<1> QED BY <1>5 DEF x, y

-----------------------------------------------------------------------------
(* The sample                                                              *)

(* A type is widened to that of the first text, and then no more by texts  *)
(* of its class.                                                           *)
LEMMA WidenedIs ==
  ASSUME NEW type \in Classes, NEW field
  PROVE  /\ Widened(type, field) \in Classes /\ Class(field) \in Classes
         /\ field = <<>> => Widened(type, field) = type
         /\ field # <<>> /\ (type = "varchar" \/ type = Class(field)) => Widened(type, field) = Class(field)
<1> DEFINE class == Class(field)
<1>1. class \in Classes
  BY DEF Class, Classes
<1> HIDE DEF class
<1>2. Widened(type, field) = IF field = <<>> THEN type
                             ELSE IF class = "timestamp"
                             THEN IF type \in {"varchar", "timestamp"} THEN "timestamp" ELSE type
                             ELSE IF type = "timestamp" THEN "varchar"
                             ELSE IF class = "bigint" THEN IF type = "varchar" THEN "bigint" ELSE type
                             ELSE IF class = "double" THEN IF type \in {"varchar", "bigint"} THEN "double" ELSE type
                             ELSE "varchar"
  <2>1. CASE field = <<>>
    BY <2>1 DEF Widened, class
  <2>2. CASE field # <<>> /\ class = "timestamp"
    BY <2>2 DEF Widened, class
  <2>3. CASE field # <<>> /\ class # "timestamp" /\ type = "timestamp"
    BY <2>3 DEF Widened, class
  <2>4. CASE field # <<>> /\ class # "timestamp" /\ type # "timestamp"
    BY <1>1, <2>4 DEF Widened, class, Classes
  <2> QED BY <2>1, <2>2, <2>3, <2>4
<1>3. Widened(type, field) \in Classes
  BY <1>2 DEF Classes
<1>4. field = <<>> => Widened(type, field) = type
  BY <1>2
<1>5. field # <<>> /\ (type = "varchar" \/ type = class) => Widened(type, field) = class
  BY <1>1, <1>2 DEF Classes
<1> QED BY <1>1, <1>3, <1>4, <1>5 DEF class

(* Types that fit the columns whose texts are all of one class.            *)
Fitted(t, m) == /\ m \in 0 .. Columns /\ t \in [1 .. m -> Classes]
                /\ \A c \in 1 .. m : OfOneClass(c) => FitsColumn(t[c], c)

(* How far the sample has come, and the types it has found.                *)
Sampled(p, t) == [pos |-> p, types |-> t]

(* One more line leaves types that fit, and comes to the start of a row.   *)
LEMMA WithLineFits ==
  ASSUME Filled, ~Misreads, NEW at, IsLaid(at), NEW j \in 0 .. Len(csv), NEW t, NEW m, Fitted(t, m)
  PROVE  \E k \in 0 .. Len(csv) : \E u, l :
           Fitted(u, l) /\ WithLine(Sampled(Start(at, j), t)) = Sampled(Start(at, k), u)
<1> DEFINE s == Sampled(Start(at, j), t)
<1>0. s.pos = Start(at, j) /\ s.types = t
  BY DEF Sampled
<1> HIDE DEF s
<1>1. CASE s.pos > Size
  <2>1. WithLine(s) = s
    BY <1>1 DEF WithLine
  <2> QED BY <2>1 DEF s
<1>2. CASE ~(s.pos > Size)
  <2> DEFINE i == j + 1
             n == Above + i
             F == LineFields(n)
             v == Visible(Texts(n))
             line == FieldsFrom(s.pos, Size, Size)
             fields == [c \in 1 .. v |-> F[c]]
  <2>1. /\ Len(csv) \in Nat /\ Size \in Nat /\ j < Len(csv) /\ i \in 1 .. Len(csv) /\ i \in 0 .. Len(csv)
        /\ n \in 1 .. Len(Lines) /\ Start(at, i) = at[n + 1] /\ Start(at, j) = at[n]
        /\ Start(at, i) <= Size + 1
    <3>1. /\ Len(csv) \in Nat /\ Above \in {0, 1} /\ Len(Lines) = Above + Len(csv) /\ Size \in Nat
          /\ Start(at, Len(csv)) = Size + 1
      BY StartsGrow
    <3>2. j # Len(csv)
      BY <1>0, <1>2, <3>1
    <3>3. j < Len(csv) /\ i \in 1 .. Len(csv) /\ i \in 0 .. Len(csv) /\ n \in 1 .. Len(Lines)
          /\ n + 1 = Above + i + 1 /\ n = Above + j + 1
      BY <3>1, <3>2
    <3>4. Start(at, i) <= Size + 1
      <4> HIDE DEF i
      <4> QED BY <3>3, StartsGrow
    <3> QED BY <3>1, <3>3, <3>4 DEF Start
  <2> HIDE DEF n
  <2>2. PICK P : P[1] = at[n] /\ LineIsIn(P, Texts(n), at[n + 1], Size)
    <3>1. Size <= Size /\ at[n + 1] <= Size + 1
      BY <2>1
    <3> QED BY <2>1, <3>1, LineInRange
  <2>3. AllStand(Texts(n), F)
    BY <2>1, FieldsStand DEF Misreads
  <2>4. line = [fields |-> fields, pos |-> P[Columns + 1]] /\ EndLine(P[Columns + 1], Size) = at[n + 1]
    <3> HIDE DEF F
    <3> QED BY <1>0, <2>1, <2>2, <2>3, WholeLine
  <2>5. v \in Nat /\ v \in {Columns - 1, Columns} /\ Columns \in Nat /\ Columns >= 1 /\ v <= Columns
    BY <2>2, LineOrder DEF Visible
  <2>6. m \in Nat /\ m <= Columns /\ DOMAIN t = 1 .. m /\ t \in [1 .. m -> Classes]
    BY <2>5 DEF Fitted
  <2> DEFINE Old(c) == IF c \in DOMAIN t THEN t[c] ELSE "varchar"
             u == [c \in DOMAIN t \cup DOMAIN fields |->
                     IF c \in DOMAIN fields THEN Widened(Old(c), fields[c]) ELSE Old(c)]
             l == IF m <= v THEN v ELSE m
  <2>7. WithLine(s) = [pos |-> Start(at, i), types |-> u]
    <3>1. line.fields = fields /\ line.pos = P[Columns + 1]
      BY <2>4
    <3> HIDE DEF line, fields
    <3>2. WithLine(s) = [pos |-> EndLine(line.pos, Size),
                         types |-> [c \in DOMAIN s.types \cup DOMAIN line.fields |->
                            IF c \in DOMAIN line.fields
                            THEN Widened(IF c \in DOMAIN s.types THEN s.types[c] ELSE "varchar", line.fields[c])
                            ELSE IF c \in DOMAIN s.types THEN s.types[c] ELSE "varchar"]]
      BY <1>2 DEF WithLine, line
    <3> QED BY <1>0, <2>1, <2>4, <3>1, <3>2
  <2>a. WithLine(s) = Sampled(Start(at, i), u)
    <3> HIDE DEF u, i
    <3> QED BY <2>7 DEF Sampled
  <2>8. l \in 0 .. Columns /\ DOMAIN t \cup DOMAIN fields = 1 .. l /\ DOMAIN fields = 1 .. v
    <3>1. DOMAIN fields = 1 .. v
      OBVIOUS
    <3> HIDE DEF fields, v
    <3> QED BY <2>5, <2>6, <3>1
  <2> HIDE DEF v, l
  <2>9. ASSUME NEW c \in 1 .. l
        PROVE  /\ u[c] = IF c \in 1 .. v THEN Widened(Old(c), F[c]) ELSE Old(c)
               /\ Old(c) \in Classes /\ u[c] \in Classes
               /\ OfOneClass(c) => FitsColumn(u[c], c)
    <3>1. u[c] = IF c \in 1 .. v THEN Widened(Old(c), F[c]) ELSE Old(c)
      <4>1. c \in 1 .. v => fields[c] = F[c]
        OBVIOUS
      <4> HIDE DEF F, Old, fields
      <4> QED BY <2>8, <4>1
    <3>2. Old(c) \in Classes
      BY <2>6 DEF Classes
    <3>3. Widened(Old(c), F[c]) \in Classes
      <4> HIDE DEF Old, F
      <4> QED BY <3>2, WidenedIs
    <3>4. ASSUME OfOneClass(c) PROVE FitsColumn(u[c], c)
      <4>1. FitsColumn(Old(c), c)
        <5>1. CASE c \in DOMAIN t
          BY <2>6, <3>4, <5>1 DEF Fitted
        <5>2. CASE c \notin DOMAIN t
          BY <5>2 DEF FitsColumn, Classes
        <5> QED BY <5>1, <5>2
      <4> HIDE DEF Old
      <4>2. CASE c \notin 1 .. v
        BY <3>1, <4>1, <4>2
      <4>3. CASE c \in 1 .. v /\ F[c] = <<>>
        <5>1. Widened(Old(c), F[c]) = Old(c)
          BY <3>2, <4>3, WidenedIs
        <5> QED BY <3>1, <4>1, <4>3, <5>1
      <4>4. CASE c \in 1 .. v /\ F[c] # <<>>
        <5>0. c \in 1 .. Columns
          BY <2>5, <4>4
        <5>1. CASE form.header /\ n = 1
          <6>1. Above = 1 /\ i >= 1
            BY <2>1, <5>1 DEF Above
          <6> QED BY <2>1, <5>1, <6>1 DEF n
        <5>2. CASE ~(form.header /\ n = 1)
          <6>1. n - Above = i
            <7>1. Above \in {0, 1} /\ i \in Nat
              BY <2>1, StartsGrow
            <7> QED BY <7>1 DEF n
          <6>2. F[c] = Plain(csv[i][c])
            BY <5>0, <5>2, <6>1 DEF LineFields
          <6>3. csv[i][c] # Null /\ F[c] = csv[i][c] /\ csv[i][c] # <<>>
            BY <4>4, <6>2 DEF Plain
          <6>4. i \in Telling(c)
            <7>1. i \in DOMAIN csv
              BY <2>1, FileType DEF Filled
            <7> HIDE DEF i
            <7> QED BY <6>3, <7>1 DEF Telling, Seen
          <6>5. Old(c) = "varchar" \/ Old(c) = Class(F[c])
            <7>1. CASE Old(c) = "varchar"
              BY <7>1
            <7>2. CASE \E x \in Telling(c) : Class(csv[x][c]) = Old(c)
              <8>1. PICK x \in Telling(c) : Class(csv[x][c]) = Old(c)
                BY <7>2
              <8> HIDE DEF i, F
              <8>2. Class(csv[i][c]) = Class(csv[x][c])
                BY <3>4, <6>4, OneClass
              <8> QED BY <6>3, <8>1, <8>2
            <7> QED BY <4>1, <7>1, <7>2 DEF FitsColumn
          <6> HIDE DEF i, F
          <6>6. Widened(Old(c), F[c]) = Class(F[c])
            BY <3>2, <4>4, <6>5, WidenedIs
          <6>7. Class(csv[i][c]) \in Classes
            BY <3>2, WidenedIs
          <6>8. u[c] = Class(csv[i][c])
            BY <3>1, <4>4, <6>3, <6>6
          <6> HIDE DEF u
          <6> QED BY <6>4, <6>7, <6>8 DEF FitsColumn
        <5> QED BY <5>1, <5>2
      <4> QED BY <4>2, <4>3, <4>4
    <3> HIDE DEF u, Old, F
    <3> QED BY <3>1, <3>2, <3>3, <3>4
  <2>10. u = [c \in 1 .. l |-> u[c]]
    <3> HIDE DEF fields, Old
    <3> QED BY <2>8
  <2> HIDE DEF u
  <2>11. u \in [1 .. l -> Classes]
    BY <2>9, <2>10
  <2>12. Fitted(u, l)
    BY <2>8, <2>9, <2>11 DEF Fitted
  <2> HIDE DEF i
  <2> QED BY <2>1, <2>a, <2>12 DEF s
<1> QED BY <1>1, <1>2

(* The types that are detected fit the columns of one class.               *)
LEMMA DetectTypesIs ==
  ASSUME Filled, ~Misreads
  PROVE  \E m : Fitted(DetectTypes, m)
<1>1. PICK at : IsLaid(at)
  BY LinesLaid
<1>a. \A j \in 0 .. Len(csv) : \A t, m : Fitted(t, m) =>
        \E k \in 0 .. Len(csv) : \E u, l :
          Fitted(u, l) /\ WithLine(Sampled(Start(at, j), t)) = Sampled(Start(at, k), u)
  BY <1>1, WithLineFits
<1> DEFINE Types == {t \in UNION {[1 .. m -> Classes] : m \in 0 .. Columns} : \E m : Fitted(t, m)}
           E(q) == [k \in 0 .. SampleSize |-> IF k = 0 THEN [pos |-> FirstRow, types |-> <<>>]
                                              ELSE WithLine(q[k - 1])]
           h == CHOOSE q : q = E(q)
<1>2. Len(csv) \in Nat /\ Start(at, 0) = FirstRow /\ Columns \in Nat /\ SampleSize \in Nat
  BY <1>1, StartsGrow, CsvFileAssumption
<1>3. ASSUME NEW t, NEW m, Fitted(t, m) PROVE t \in Types
  BY <1>3 DEF Fitted
<1>4. ASSUME NEW t \in Types PROVE \E m : Fitted(t, m)
  OBVIOUS
<1>5. <<>> \in Types
  <2>1. 0 \in 0 .. Columns /\ <<>> \in [1 .. 0 -> Classes]
    BY <1>2
  <2>2. Fitted(<<>>, 0)
    BY <2>1 DEF Fitted
  <2> HIDE DEF Types
  <2> QED BY <1>3, <2>2
<1> DEFINE S == {Sampled(Start(at, j), t) : j \in 0 .. Len(csv), t \in Types}
           first == [pos |-> FirstRow, types |-> <<>>]
           step == [k \in Nat |-> [s \in S |-> WithLine(s)]]
<1> HIDE DEF Types
<1>6. first \in S
  <2>1. 0 \in 0 .. Len(csv) /\ first = Sampled(Start(at, 0), <<>>)
    BY <1>2 DEF Sampled
  <2> QED BY <1>5, <2>1
<1>7. ASSUME NEW s \in S PROVE WithLine(s) \in S
  <2>1. PICK j \in 0 .. Len(csv), t \in Types : s = Sampled(Start(at, j), t)
    OBVIOUS
  <2>2. PICK m : Fitted(t, m)
    BY <1>4
  <2>a. PICK k \in 0 .. Len(csv) : \E u, l :
          Fitted(u, l) /\ WithLine(Sampled(Start(at, j), t)) = Sampled(Start(at, k), u)
    BY <1>a, <2>2
  <2>3. PICK u, l :
          Fitted(u, l) /\ WithLine(Sampled(Start(at, j), t)) = Sampled(Start(at, k), u)
    BY <2>a
  <2>4. u \in Types
    BY <1>3, <2>3
  <2> QED BY <2>1, <2>3, <2>4
<1>8. ASSUME NEW s \in S PROVE s.types \in Types
  BY DEF Sampled
<1> HIDE DEF S
<1>9. h = E(h)
  <2>1. step \in [Nat -> [S -> S]]
    BY <1>7
  <2> HIDE DEF step, first
  <2>2. PICK f : Computes(f, first, step, S, SampleSize)
    BY <1>2, <1>6, <2>1, Recursion
  <2>3. f \in [0 .. SampleSize -> S] /\ f[0] = first /\ \A k \in 1 .. SampleSize : f[k] = step[k][f[k - 1]]
    BY <2>2 DEF Computes
  <2>4. ASSUME NEW k \in 0 .. SampleSize PROVE f[k] = IF k = 0 THEN first ELSE WithLine(f[k - 1])
    <3>1. CASE k = 0
      BY <2>3, <3>1
    <3>2. CASE k # 0
      <4>1. k \in 1 .. SampleSize /\ k - 1 \in 0 .. SampleSize /\ k \in Nat
        BY <1>2, <3>2
      <4>2. f[k - 1] \in S /\ f[k] = step[k][f[k - 1]]
        BY <2>3, <4>1
      <4> QED BY <3>2, <4>1, <4>2 DEF step
    <3> QED BY <3>1, <3>2
  <2>5. f = E(f)
    <3>1. f = [k \in 0 .. SampleSize |-> f[k]]
      BY <2>3
    <3> QED BY <2>4, <3>1 DEF first
  <2> HIDE DEF E
  <2> QED BY <2>5
<1>10. h[0] \in S /\ \A k \in 1 .. SampleSize : h[k] = WithLine(h[k - 1])
  <2> HIDE DEF h
  <2>1. 0 \in 0 .. SampleSize /\ \A k \in 1 .. SampleSize : k \in 0 .. SampleSize /\ k # 0
    BY <1>2
  <2>2. h[0] = first
    BY <1>9, <2>1
  <2>3. ASSUME NEW k \in 1 .. SampleSize PROVE h[k] = WithLine(h[k - 1])
    BY <1>9, <2>1
  <2> HIDE DEF E
  <2> QED BY <1>6, <2>2, <2>3
<1>11. DetectTypes = h[SampleSize].types
  BY DEF DetectTypes
<1> HIDE DEF h, E, step, first
<1> DEFINE G == {k \in Nat : k <= SampleSize => h[k] \in S}
<1>12. 0 \in G
  BY <1>10
<1>13. ASSUME NEW k \in Nat, k \in G PROVE k + 1 \in G
  <2> SUFFICES ASSUME k + 1 <= SampleSize PROVE h[k + 1] \in S
    OBVIOUS
  <2>1. k + 1 \in 1 .. SampleSize /\ (k + 1) - 1 = k /\ k <= SampleSize
    BY <1>2
  <2>2. h[k + 1] = WithLine(h[k]) /\ h[k] \in S
    BY <1>10, <1>13, <2>1
  <2> QED BY <1>7, <2>2
<1>14. \A k \in Nat : k \in G
  <2> HIDE DEF G
  <2> QED BY <1>12, <1>13, Induction
<1>15. h[SampleSize] \in S
  BY <1>2, <1>14
<1> QED BY <1>4, <1>8, <1>11, <1>15

(* A type takes a text as it is.                                           *)
Takes(type, c) == type = "varchar" \/ (OfOneClass(c) /\ FitsColumn(type, c))

(* A text is converted to the cell that is seen when the type takes it.    *)
LEMMA ConvertedIs ==
  ASSUME Filled, NEW c, NEW type, Takes(type, c), NEW i \in DOMAIN csv
  PROVE  Converted(Plain(csv[i][c]), type) = Seen(csv[i][c])
<1> DEFINE cell == csv[i][c]
<1>1. CASE Plain(cell) = <<>>
  BY <1>1 DEF Converted, Plain, Seen
<1>2. CASE Plain(cell) # <<>>
  <2>1. cell # Null /\ Plain(cell) = cell /\ cell # <<>> /\ Seen(cell) = cell
    BY <1>2 DEF Plain, Seen
  <2>2. i \in Telling(c)
    BY <2>1 DEF Telling, Seen
  <2>3. type = "varchar" \/ Class(cell) = type
    <3>1. CASE type = "varchar"
      BY <3>1
    <3>2. CASE type # "varchar"
      <4>1. OfOneClass(c) /\ FitsColumn(type, c)
        BY <3>2 DEF Takes
      <4>2. PICK x \in Telling(c) : Class(csv[x][c]) = type
        BY <3>2, <4>1 DEF FitsColumn
      <4> HIDE DEF cell
      <4>3. Class(csv[i][c]) = Class(csv[x][c])
        BY <2>2, <4>1, OneClass
      <4> QED BY <4>2, <4>3 DEF cell
    <3> QED BY <3>1, <3>2
  <2>4. Parses(cell, type)
    <3> HIDE DEF cell
    <3> QED BY <2>3 DEF Parses
  <2> HIDE DEF cell
  <2> QED BY <1>2, <2>1, <2>4 DEF Converted, cell
<1> QED BY <1>1, <1>2

(* What is read of row i, of the columns that are needed.                  *)
SeenAt(i) == [c \in DOMAIN types |-> IF c \in Needed THEN Seen(csv[i][c]) ELSE Unread]

(* What is read of a row are the cells that are seen, of the columns that  *)
(* are needed.                                                             *)
LEMMA RowIsSeen ==
  ASSUME Filled, NEW m, Reads(m), NEW i \in 1 .. Len(csv), \A c \in Needed : Takes(types[c], c)
  PROVE  RowAt(i) = SeenAt(i)
<1>1. /\ DOMAIN csv = 1 .. Len(csv) /\ Above \in {0, 1} /\ Needed \subseteq 1 .. m /\ m \in Nat /\ m <= Columns
      /\ Columns \in Nat
  BY FileType, NeededIs, CsvFileAssumption DEF Filled, Reads
<1>2. ~(form.header /\ Above + i = 1) /\ (Above + i) - Above = i
  BY <1>1 DEF Above
<1>3. ASSUME NEW c \in Needed PROVE Converted(FieldsOf(i)[c], types[c]) = Seen(csv[i][c])
  <2>1. c \in 1 .. Columns /\ Takes(types[c], c) /\ i \in DOMAIN csv
    BY <1>1
  <2>2. FieldsOf(i)[c] = Plain(csv[i][c])
    BY <1>2, <2>1 DEF FieldsOf, LineFields
  <2> QED BY <2>1, <2>2, ConvertedIs
<1>4. RowAt(i) = [c \in DOMAIN types |-> IF c \in Needed THEN Converted(FieldsOf(i)[c], types[c]) ELSE Unread]
  BY DEF RowAt, RowOf
<1> QED BY <1>3, <1>4 DEF SeenAt

-----------------------------------------------------------------------------
(* The parts of a file                                                     *)

(* The rows behind row a up to row b, and the parts of a file that are     *)
(* given to its readers: part w ends with row cut[w].                      *)
RowsFrom(a, b) == [j \in 1 .. b - a |-> RowAt(a + j)]

(* The cuts do not go back, and go from the first row to the last.         *)
Cutting(cut, K) ==
  /\ K \in Nat /\ cut \in [0 .. K -> 0 .. Len(csv)]
  /\ cut[0] = 0 /\ cut[K] = Len(csv) /\ \A w \in 1 .. K : cut[w - 1] <= cut[w]

(* A reader that has come to row i of its part.                            *)
PartRead(at, cut, w, i) ==
  [pos |-> Start(at, i), end |-> Start(at, cut[w]) - 1, rows |-> RowsFrom(cut[w - 1], i)]

(* There are no rows between a row and itself.                             *)
LEMMA NoRows == ASSUME NEW a \in Nat PROVE RowsFrom(a, a) = <<>>
<1>1. a - a = 0
  OBVIOUS
<1>2. [j \in 1 .. 0 |-> RowAt(a + j)] = <<>>
  OBVIOUS
<1> QED BY <1>1, <1>2 DEF RowsFrom

(* The ranges of a file are parts of which nothing has been read: each     *)
(* begins with a row.                                                      *)
LEMMA PartsAre ==
  ASSUME Filled, NEW at, IsLaid(at), NEW n \in Nat \ {0}, NoBreak \/ Len(Ranges(n)) <= 1
  PROVE  /\ DOMAIN Ranges(n) = 1 .. Len(Ranges(n))
         /\ \E cut : /\ Cutting(cut, Len(Ranges(n)))
                     /\ \A w \in 1 .. Len(Ranges(n)) : Ranges(n)[w] = PartRead(at, cut, w, cut[w - 1])
<1> DEFINE K == Len(Ranges(n))
           N == Len(csv)
<1>1. /\ N \in Nat /\ Size \in Nat /\ Start(at, 0) = FirstRow /\ Start(at, N) = Size + 1
      /\ 0 \in 0 .. N /\ N \in 0 .. N
      /\ \A i \in 0 .. N : Start(at, i) \in Nat \ {0} /\ Start(at, i) <= Size + 1
      /\ \A i \in 0 .. N : \A j \in 0 .. N : i < j <=> Start(at, i) < Start(at, j)
  BY StartsGrow
<1>2. FirstRow \in Nat /\ FirstRow <= Size + 1
  BY <1>1
<1>3. PICK q : Between(Ranges(n), q, FirstRow, Size + 1) /\ \A w \in 0 .. K : q[w] \in LineStarts
  BY <1>1, <1>2, RangesAre
<1>4. /\ K \in Nat /\ DOMAIN Ranges(n) = 1 .. K /\ q \in [0 .. K -> Nat] /\ q[0] = FirstRow /\ q[K] = Size + 1
      /\ \A w \in 1 .. K : /\ q[w - 1] < q[w]
                           /\ Ranges(n)[w] = [pos |-> q[w - 1], end |-> q[w] - 1, rows |-> <<>>]
  BY <1>3 DEF Between
<1>5. ASSUME NEW w \in 0 .. K PROVE \E i \in 0 .. N : q[w] = Start(at, i)
  <2>1. CASE NoBreak
    BY <1>3, <2>1, LineStartsAre
  <2>2. CASE K <= 1
    <3> HIDE DEF N, K
    <3>1. w = 0 \/ w = K
      BY <1>4, <2>2
    <3> QED BY <1>1, <1>4, <3>1
  <2> QED BY <2>1, <2>2
<1> HIDE DEF K, N
<1> DEFINE cut == [w \in 0 .. K |-> CHOOSE i \in 0 .. N : q[w] = Start(at, i)]
<1>6. ASSUME NEW w \in 0 .. K PROVE cut[w] \in 0 .. N /\ q[w] = Start(at, cut[w])
  BY <1>5
<1>7. cut \in [0 .. K -> 0 .. N]
  BY <1>5
<1>8. 0 \in 0 .. K /\ K \in 0 .. K /\ \A w \in 1 .. K : w \in 0 .. K /\ w - 1 \in 0 .. K
  BY <1>4
<1> HIDE DEF cut
<1>9. ASSUME NEW i \in 0 .. N, NEW j \in 0 .. N, Start(at, i) = Start(at, j) PROVE i = j
  <2>1. Start(at, i) \in Nat /\ ~(i < j) /\ ~(j < i)
    BY <1>1, <1>9
  <2> QED BY <1>1, <2>1
<1>10. cut[0] = 0 /\ cut[K] = N
  BY <1>1, <1>4, <1>6, <1>8, <1>9
<1>11. ASSUME NEW w \in 1 .. K PROVE cut[w - 1] <= cut[w]
  <2>1. w \in 0 .. K /\ w - 1 \in 0 .. K
    BY <1>8
  <2>2. q[w - 1] < q[w] /\ q[w - 1] = Start(at, cut[w - 1]) /\ q[w] = Start(at, cut[w])
        /\ cut[w - 1] \in 0 .. N /\ cut[w] \in 0 .. N
    BY <1>4, <1>6, <2>1
  <2>3. cut[w - 1] < cut[w]
    BY <1>1, <2>2
  <2> QED BY <1>1, <2>2, <2>3
<1>12. Cutting(cut, K)
  BY <1>4, <1>7, <1>10, <1>11 DEF Cutting, N
<1>13. ASSUME NEW w \in 1 .. K PROVE Ranges(n)[w] = PartRead(at, cut, w, cut[w - 1])
  <2>1. w \in 0 .. K /\ w - 1 \in 0 .. K
    BY <1>8
  <2>2. q[w - 1] = Start(at, cut[w - 1]) /\ q[w] = Start(at, cut[w]) /\ cut[w - 1] \in 0 .. N
    BY <1>6, <2>1
  <2>3. cut[w - 1] \in Nat
    BY <1>1, <2>2
  <2>4. RowsFrom(cut[w - 1], cut[w - 1]) = <<>>
    BY <2>3, NoRows
  <2>5. Ranges(n)[w] = [pos |-> q[w - 1], end |-> q[w] - 1, rows |-> <<>>]
    BY <1>4
  <2> QED BY <2>2, <2>4, <2>5 DEF PartRead
<1> QED BY <1>4, <1>12, <1>13 DEF K

(* One more chunk of a part.                                               *)
LEMMA RowsMore ==
  ASSUME NEW a \in Nat, NEW i \in Nat, NEW K \in Nat, a <= i
  PROVE  RowsFrom(a, i) \o [j \in 1 .. K |-> RowAt(i + j)] = RowsFrom(a, i + K)
<1> DEFINE T == {RowAt(x) : x \in Nat}
           s == RowsFrom(a, i)
           t == [j \in 1 .. K |-> RowAt(i + j)]
           u == RowsFrom(a, i + K)
           m == i - a
<1>1. m \in Nat /\ (i + K) - a = m + K /\ m + K \in Nat
  OBVIOUS
<1>2. s = [j \in 1 .. m |-> RowAt(a + j)] /\ u = [j \in 1 .. m + K |-> RowAt(a + j)]
  <2> HIDE DEF m
  <2>1. u = [j \in 1 .. (i + K) - a |-> RowAt(a + j)]
    BY DEF RowsFrom
  <2>2. s = [j \in 1 .. m |-> RowAt(a + j)]
    BY DEF RowsFrom, m
  <2> QED BY <1>1, <2>1, <2>2
<1>3. s \in Seq(T) /\ Len(s) = m /\ \A j \in 1 .. m : s[j] = RowAt(a + j)
  <2>1. \A j \in 1 .. m : RowAt(a + j) \in T
    <3>1. \A j \in 1 .. m : a + j \in Nat
      BY <1>1
    <3> QED BY <3>1
  <2> HIDE DEF s, m, T
  <2> QED BY <1>1, <1>2, <2>1
<1>4. t \in Seq(T) /\ Len(t) = K /\ \A j \in 1 .. K : t[j] = RowAt(i + j)
  <2>1. \A j \in 1 .. K : RowAt(i + j) \in T
    <3>1. \A j \in 1 .. K : i + j \in Nat
      OBVIOUS
    <3> QED BY <3>1
  <2> HIDE DEF T
  <2> QED BY <2>1
<1>5. u \in Seq(T) /\ Len(u) = m + K /\ \A j \in 1 .. m + K : u[j] = RowAt(a + j)
  <2>1. \A j \in 1 .. m + K : RowAt(a + j) \in T
    <3>1. \A j \in 1 .. m + K : a + j \in Nat
      BY <1>1
    <3> QED BY <3>1
  <2> HIDE DEF u, m, T
  <2> QED BY <1>1, <1>2, <2>1
<1> HIDE DEF s, t, u, T
<1>6. /\ s \o t \in Seq(T) /\ Len(s \o t) = Len(s) + Len(t)
      /\ \A k \in 1 .. Len(s) : (s \o t)[k] = s[k]
      /\ \A k \in 1 .. Len(t) : (s \o t)[Len(s) + k] = t[k]
  <2>1. s \in Seq(T) /\ t \in Seq(T)
    BY <1>3, <1>4
  <2> QED BY <2>1, ConcatPlaces
<1>7. ASSUME NEW j \in 1 .. m + K PROVE (s \o t)[j] = u[j]
  <2>1. CASE j \in 1 .. m
    BY <1>3, <1>5, <1>6, <2>1
  <2>2. CASE j \notin 1 .. m
    <3> DEFINE k == j - m
    <3>1. k \in 1 .. K /\ m + k = j /\ i + k = a + j
      BY <1>1, <2>2
    <3> HIDE DEF k, m
    <3>2. (s \o t)[m + k] = t[k] /\ t[k] = RowAt(i + k)
      BY <1>3, <1>4, <1>6, <3>1
    <3> QED BY <1>5, <3>1, <3>2
  <2> QED BY <2>1, <2>2
<1> HIDE DEF m
<1>8. s \o t = u
  <2> DEFINE st == s \o t
  <2>1. st \in Seq(T) /\ Len(st) = m + K /\ \A j \in 1 .. m + K : st[j] = u[j]
    BY <1>3, <1>4, <1>6, <1>7
  <2> HIDE DEF st
  <2>2. st = u
    BY <1>1, <1>5, <2>1
  <2> QED BY <2>2 DEF st
<1> QED BY <1>8 DEF s, t, u

(* The parts put together are the rows of the file.                        *)
LEMMA JoinedIs ==
  ASSUME Len(csv) \in Nat, NEW K, NEW cut, Cutting(cut, K), NEW s, DOMAIN s = 1 .. K,
         s = [w \in 1 .. K |-> RowsFrom(cut[w - 1], cut[w])]
  PROVE  FlattenSeq(s) = [i \in 1 .. Len(csv) |-> RowAt(i)]
<1> DEFINE N == Len(csv)
           T == {RowAt(x) : x \in Nat}
           flat == FlattenSeq(s)
<1>1. /\ N \in Nat /\ K \in Nat /\ cut \in [0 .. K -> 0 .. N] /\ cut[0] = 0 /\ cut[K] = N
      /\ \A w \in 1 .. K : cut[w - 1] <= cut[w]
  BY DEF Cutting
<1> HIDE DEF N
<1>2. ASSUME NEW w \in 1 .. K
      PROVE  /\ w \in 0 .. K /\ w - 1 \in 0 .. K /\ cut[w - 1] \in Nat /\ cut[w] \in Nat
             /\ s[w] \in Seq(T) /\ Len(s[w]) = cut[w] - cut[w - 1] /\ cut[w] - cut[w - 1] \in Nat
             /\ \A k \in 1 .. cut[w] - cut[w - 1] : s[w][k] = RowAt(cut[w - 1] + k)
  <2>1. w \in 0 .. K /\ w - 1 \in 0 .. K
    BY <1>1
  <2>2. cut[w - 1] \in Nat /\ cut[w] \in Nat /\ cut[w - 1] <= cut[w]
    BY <1>1, <2>1
  <2> DEFINE a == cut[w - 1]
             d == cut[w] - cut[w - 1]
  <2>3. d \in Nat /\ a \in Nat
    BY <2>2
  <2>4. s[w] = [j \in 1 .. d |-> RowAt(a + j)]
    BY DEF RowsFrom
  <2>5. \A j \in 1 .. d : RowAt(a + j) \in T
    <3>1. \A j \in 1 .. d : a + j \in Nat
      BY <2>3
    <3> QED BY <3>1
  <2> DEFINE z == [j \in 1 .. d |-> RowAt(a + j)]
  <2> HIDE DEF a, d, T
  <2>6. z \in Seq(T) /\ Len(z) = d /\ \A k \in 1 .. d : z[k] = RowAt(a + k)
    BY <2>3, <2>5
  <2> HIDE DEF z
  <2>7. s[w] \in Seq(T) /\ Len(s[w]) = d /\ \A k \in 1 .. d : s[w][k] = RowAt(a + k)
    <3>1. s[w] = z
      BY <2>4 DEF z
    <3> QED BY <2>6, <3>1
  <2> QED BY <2>1, <2>2, <2>3, <2>7 DEF a, d
<1>3. s \in Seq(Seq(T)) /\ Len(s) = K
  <2>1. \A w \in 1 .. K : s[w] \in Seq(T)
    BY <1>2
  <2>2. s = [w \in 1 .. K |-> s[w]]
    OBVIOUS
  <2> HIDE DEF T
  <2> QED BY <1>1, <2>1, <2>2
<1> HIDE DEF T
<1>4. PICK o \in [0 .. Len(s) -> Nat] : IsPlaced(o, s, flat)
  BY <1>3, FlattenPlaces
<1>5. flat \in Seq(T)
  BY <1>3, FlattenPlaces
<1>6. /\ o[0] = 0 /\ Len(flat) = o[K]
      /\ \A n \in 1 .. K : /\ o[n] = o[n - 1] + Len(s[n])
                           /\ \A k \in 1 .. Len(s[n]) : flat[o[n - 1] + k] = s[n][k]
  BY <1>3, <1>4 DEF IsPlaced
<1> DEFINE G == {w \in Nat : w <= K => o[w] = cut[w]}
<1>7. 0 \in G
  BY <1>1, <1>6
<1>8. ASSUME NEW w \in Nat, w \in G PROVE w + 1 \in G
  <2> SUFFICES ASSUME w + 1 <= K PROVE o[w + 1] = cut[w + 1]
    OBVIOUS
  <2> DEFINE v == w + 1
  <2>1. v \in 1 .. K /\ v - 1 = w /\ w <= K
    BY <1>1
  <2> HIDE DEF v
  <2>2. o[v] = o[v - 1] + Len(s[v]) /\ Len(s[v]) = cut[v] - cut[v - 1] /\ cut[v] \in Nat /\ cut[v - 1] \in Nat
    BY <1>2, <1>6, <2>1
  <2>3. o[v - 1] = cut[v - 1]
    BY <1>8, <2>1
  <2>4. o[v] = cut[v]
    BY <2>2, <2>3
  <2> QED BY <2>4 DEF v
<1>9. \A w \in Nat : w \in G
  <2> HIDE DEF G
  <2> QED BY <1>7, <1>8, Induction
<1>10. \A w \in 0 .. K : o[w] = cut[w]
  BY <1>1, <1>9
<1>11. Len(flat) = N
  <2>1. K \in 0 .. K
    BY <1>1
  <2> QED BY <1>1, <1>6, <1>10, <2>1
<1>12. ASSUME NEW i \in 1 .. N PROVE flat[i] = RowAt(i)
  <2> DEFINE x == i - 1
  <2>1. x \in Nat /\ 0 <= x /\ x < N
    BY <1>1
  <2>2. cut \in [0 .. K -> Nat]
    BY <1>1
  <2> HIDE DEF x
  <2>3. PICK w \in 1 .. K : cut[w - 1] <= x /\ x < cut[w]
    BY <1>1, <2>1, <2>2, Interval
  <2> DEFINE k == i - cut[w - 1]
             d == cut[w] - cut[w - 1]
  <2>4. cut[w - 1] \in Nat /\ cut[w] \in Nat /\ w - 1 \in 0 .. K /\ Len(s[w]) = d
    BY <1>2
  <2>5. k \in 1 .. d /\ cut[w - 1] + k = i
    BY <2>3, <2>4 DEF x
  <2> HIDE DEF k, d
  <2>6. s[w][k] = RowAt(cut[w - 1] + k)
    BY <1>2, <2>5 DEF d
  <2>7. flat[o[w - 1] + k] = s[w][k]
    BY <1>6, <2>4, <2>5
  <2>8. o[w - 1] = cut[w - 1]
    BY <1>10, <2>4
  <2> QED BY <2>5, <2>6, <2>7, <2>8
<1> HIDE DEF flat
<1>13. flat = [i \in 1 .. N |-> flat[i]]
  BY <1>1, <1>5, <1>11
<1>14. flat = [i \in 1 .. N |-> RowAt(i)]
  BY <1>12, <1>13
<1> QED BY <1>14 DEF flat, N

-----------------------------------------------------------------------------
(* What a step leaves as it is                                             *)

(* What depends on the rows and the form of the file only.                 *)
LEMMA SameLines ==
  ASSUME csv' = csv, form' = form
  PROVE  /\ Lines' = Lines /\ Text' = Text /\ Above' = Above
         /\ \A n : Texts(n)' = Texts(n) /\ FieldsOf(n)' = FieldsOf(n)
         /\ \A at, i : Start(at, i)' = Start(at, i)
<1> DEFINE Body(rows) == [i \in DOMAIN rows |-> Separated([c \in 1 .. Columns |-> Written(rows[i][c])])]
           LinesOf(rows, f) == (IF f.header THEN <<Separated(Header)>> ELSE <<>>) \o Body(rows)
           TextOf(lines, f) == LET ended == FlattenSeq([l \in DOMAIN lines |-> lines[l] \o f.eol])
                               IN  IF f.ended THEN ended ELSE SubSeq(ended, 1, Len(ended) - Len(f.eol))
           AboveOf(f) == IF f.header THEN 1 ELSE 0
           WrittenRow(row) == [c \in 1 .. Columns |-> Written(row[c])]
           PlainRow(row) == [c \in 1 .. Columns |-> Plain(row[c])]
           TextsOf(rows, f, n) == IF f.header /\ n = 1 THEN Header ELSE WrittenRow(rows[n - AboveOf(f)])
           Fields(rows, f, n) == IF f.header /\ n = 1 THEN Header ELSE PlainRow(rows[n - AboveOf(f)])
<1>1. Lines = LinesOf(csv, form) /\ Lines' = LinesOf(csv', form')
  BY DEF Lines
<1>2. Text = TextOf(Lines, form) /\ Text' = TextOf(Lines', form')
  BY DEF Text
<1>3. Above = AboveOf(form) /\ Above' = AboveOf(form')
  BY DEF Above
<1>4. \A n : Texts(n) = TextsOf(csv, form, n) /\ Texts(n)' = TextsOf(csv', form', n)
  BY DEF Texts, Above
<1>5. \A n : FieldsOf(n) = Fields(csv, form, AboveOf(form) + n)
             /\ FieldsOf(n)' = Fields(csv', form', AboveOf(form') + n)
  BY DEF FieldsOf, LineFields, Above
<1>6. \A at, i : Start(at, i) = at[AboveOf(form) + i + 1] /\ Start(at, i)' = at[AboveOf(form') + i + 1]
  BY DEF Start, Above
<1> HIDE DEF LinesOf, TextOf, AboveOf, TextsOf, Fields
<1> QED BY <1>1, <1>2, <1>3, <1>4, <1>5, <1>6

(* What is asked of the rows of the file depends on them alone.            *)
LEMMA SameRows ==
  ASSUME csv' = csv, form' = form
  PROVE  /\ (FileOK' <=> FileOK)
         /\ (Misreads' <=> Misreads) /\ (NoBreak' <=> NoBreak)
         /\ \A c : (OfOneClass(c)' <=> OfOneClass(c)) /\ Telling(c)' = Telling(c)
<1>1. Lines' = Lines
  BY SameLines
<1>2. FileOK' <=> FileOK
  BY <1>1 DEF FileOK
<1>3. Cells' = Cells
  <2> DEFINE CellsOf(rows) == {rows[i][c] : i \in DOMAIN rows, c \in 1 .. Columns}
  <2>1. Cells = CellsOf(csv) /\ Cells' = CellsOf(csv')
    BY DEF Cells
  <2> HIDE DEF CellsOf
  <2> QED BY <2>1
<1>4. (Misreads' <=> Misreads) /\ (NoBreak' <=> NoBreak)
  BY <1>3 DEF Misreads, NoBreak
<1>5. \A c : OfOneClass(c)' <=> OfOneClass(c)
  <2> DEFINE One(rows, c) == Cardinality({Class(rows[i][c]) : i \in {j \in DOMAIN rows : Seen(rows[j][c]) # Null}}) <= 1
  <2>1. \A c : (OfOneClass(c) <=> One(csv, c)) /\ (OfOneClass(c)' <=> One(csv', c))
    BY DEF OfOneClass
  <2> HIDE DEF One
  <2> QED BY <2>1
<1>6. \A c : Telling(c)' = Telling(c)
  <2> DEFINE Tells(rows, c) == {i \in DOMAIN rows : Seen(rows[i][c]) # Null}
  <2>1. \A c : Telling(c) = Tells(csv, c) /\ Telling(c)' = Tells(csv', c)
    BY DEF Telling
  <2> HIDE DEF Tells
  <2> QED BY <2>1
<1> QED BY <1>2, <1>4, <1>5, <1>6

(* Where the lines are depends on the file only.                           *)
LEMMA SameFile ==
  ASSUME csv' = csv, form' = form, buffer' = buffer
  PROVE  (Filled' <=> Filled) /\ \A at : IsLaid(at)' <=> IsLaid(at)
<1>1. Lines' = Lines /\ Text' = Text /\ \A n : Texts(n)' = Texts(n)
  BY SameLines
<1>2. Filled' <=> Filled
  BY <1>1, SameRows DEF Filled
<1>3. Size' = Size
  BY DEF Size
<1>4. \A P, texts, next : InLine(P, texts, next)' <=> InLine(P, texts, next)
  BY <1>3 DEF InLine
<1>5. \A P, n, next : InLine(P, Texts(n), next)' <=> InLine(P, Texts(n), next)
  <2> DEFINE Line(buf, f, size, P, texts, next) ==
               /\ P \in [1 .. Columns + 1 -> Nat \ {0}]
               /\ \A c \in 1 .. Columns :
                    /\ P[c + 1] = P[c] + Len(texts[c]) + (IF c < Columns THEN 1 ELSE 0)
                    /\ \A k \in 1 .. Len(texts[c]) : buf[P[c] + k - 1] = texts[c][k]
                    /\ c < Columns => buf[P[c + 1] - 1] = Delimiter
               /\ \/ /\ next = P[Columns + 1] + Len(f.eol) /\ next <= size + 1
                     /\ \A k \in 1 .. Len(f.eol) : buf[P[Columns + 1] + k - 1] = f.eol[k]
                  \/ ~f.ended /\ next = P[Columns + 1] /\ next = size + 1 /\ P[1] < next
  <2>1. \A P, n, next : /\ InLine(P, Texts(n), next) <=> Line(buffer, form, Size, P, Texts(n), next)
                        /\ InLine(P, Texts(n), next)' <=> Line(buffer', form', Size', P, Texts(n)', next)
    BY DEF InLine
  <2> HIDE DEF Line
  <2> QED BY <1>1, <1>3, <2>1
<1>6. \A at : IsLaid(at)' <=> IsLaid(at)
  BY <1>1, <1>3, <1>5 DEF IsLaid
<1> QED BY <1>2, <1>6

(* Types that fit the columns fit them as long as the rows are the same.   *)
LEMMA SameTypes ==
  ASSUME csv' = csv, form' = form, NEW m, NEW t, t = types', Fitted(t, m)
  PROVE  Fitted(types, m)'
<1>1. \A c : (OfOneClass(c)' <=> OfOneClass(c)) /\ Telling(c)' = Telling(c)
  BY SameRows
<1>2. \A c \in 1 .. m : OfOneClass(c)' => FitsColumn(t[c], c)
  BY <1>1 DEF Fitted
<1>3. \A c \in 1 .. m : OfOneClass(c)' => FitsColumn(types[c], c)'
  BY <1>1, <1>2 DEF FitsColumn
<1>4. m \in 0 .. Columns /\ types' \in [1 .. m -> Classes]
  BY DEF Fitted
<1> QED BY <1>3, <1>4 DEF Fitted

(* What is being read.                                                     *)
LEMMA SameReading ==
  ASSUME csv' = csv, form' = form, buffer' = buffer, types' = types, projection' = projection
  PROVE  /\ \A m : Reads(m)' <=> Reads(m)
         /\ \A i : RowAt(i)' = RowAt(i)
         /\ \A at, m : CanRead(at, m)' <=> CanRead(at, m)
         /\ \A a, b : RowsFrom(a, b)' = RowsFrom(a, b)
         /\ \A at, cut, w, i : PartRead(at, cut, w, i)' = PartRead(at, cut, w, i)
         /\ \A cut, K : Cutting(cut, K)' <=> Cutting(cut, K)
<1>1. \A n : FieldsOf(n)' = FieldsOf(n)
  BY SameLines
<1>2. \A m : Reads(m)' <=> Reads(m)
  BY DEF Reads
<1>3. Needed' = Needed
  BY DEF Needed
<1>4. \A i : RowAt(i)' = RowAt(i)
  <2> DEFINE Of(F, ts, needed) ==
               [c \in DOMAIN ts |-> IF c \in needed THEN Converted(F[c], ts[c]) ELSE Unread]
  <2>1. \A i : RowAt(i) = Of(FieldsOf(i), types, Needed) /\ RowAt(i)' = Of(FieldsOf(i)', types', Needed')
    BY DEF RowAt, RowOf
  <2> HIDE DEF Of
  <2> QED BY <1>1, <1>3, <2>1
<1>5. \A i : Readable(FieldsOf(i))' <=> Readable(FieldsOf(i))
  <2> DEFINE Can(F, needed) ==
        /\ \A c \in 1 .. Columns : CR \notin ToSet(F[c]) /\ (c > Greatest(needed) => NL \notin ToSet(F[c]))
        /\ \A c \in 1 .. Least(needed) - 1 : Delimiter \notin ToSet(F[c])
  <2>1. \A i : /\ Readable(FieldsOf(i)) <=> Can(FieldsOf(i), Needed)
               /\ Readable(FieldsOf(i))' <=> Can(FieldsOf(i)', Needed')
    BY DEF Readable
  <2> HIDE DEF Can
  <2> QED BY <1>1, <1>3, <2>1
<1>6. \A at, m : CanRead(at, m)' <=> CanRead(at, m)
  <2>1. (Filled' <=> Filled) /\ \A at : IsLaid(at)' <=> IsLaid(at)
    BY SameFile
  <2>2. Misreads' <=> Misreads
    BY SameRows
  <2> QED BY <1>2, <1>5, <2>1, <2>2 DEF CanRead
<1>7. \A a, b : RowsFrom(a, b)' = RowsFrom(a, b)
  <2> SUFFICES ASSUME NEW a, NEW b PROVE RowsFrom(a, b)' = RowsFrom(a, b)
    OBVIOUS
  <2> QED BY <1>4 DEF RowsFrom
<1>8. \A at, cut, w, i : PartRead(at, cut, w, i)' = PartRead(at, cut, w, i)
  <2>1. \A at, i : Start(at, i)' = Start(at, i)
    BY SameLines
  <2> QED BY <1>7, <2>1 DEF PartRead
<1>9. \A cut, K : Cutting(cut, K)' <=> Cutting(cut, K)
  BY DEF Cutting
<1> QED BY <1>2, <1>4, <1>6, <1>7, <1>8, <1>9

-----------------------------------------------------------------------------
(* The inductive invariant                                                 *)

(* Rows have been asked for, and not their number.                         *)
Asked == how \in {"copy", "scan"}

(* A range begins with a row.                                              *)
Whole == NoBreak \/ Len(workers) <= 1

(* What a file was opened for: all columns as texts by one reader, or      *)
(* columns with types that fit them.                                       *)
Opened(m) ==
  /\ Reads(m)
  /\ how = "copy" => /\ m = Columns /\ projection = {} /\ Len(workers) <= 1
                     /\ \A c \in 1 .. m : types[c] = "varchar"
  /\ how = "scan" => Fitted(types, m)

(* The file is that of the rows, and the buffer its text once it is        *)
(* written.                                                                *)
FileIsWritten == FileOK /\ (reading # "write" => buffer = Text)

(* Readers read the rows that were asked for.                              *)
WorkersAre == reading = "read" => /\ Asked
                                  /\ Len(workers) \in Nat /\ DOMAIN workers = 1 .. Len(workers)

(* A file in which no cell is misread is read with types that fit it.      *)
IsOpened == reading \in {"read", "done"} /\ Asked /\ ~Misreads => \E m : Opened(m)

(* Every reader has the rows of its part up to where it is.                *)
PartsRead ==
  reading = "read" => \A at, m : CanRead(at, m) /\ Whole =>
    \E cut : /\ Cutting(cut, Len(workers))
             /\ \A w \in 1 .. Len(workers) : \E i \in cut[w - 1] .. cut[w] : workers[w] = PartRead(at, cut, w, i)

(* The rows that were read are those of the file, in their order.          *)
RowsRead ==
  reading = "done" /\ Asked => \A at, m : CanRead(at, m) /\ Whole =>
    result = [i \in 1 .. Len(csv) |-> RowAt(i)]

(* The number that was counted is that of the rows.                        *)
Counted == Done("count") /\ NoBreak /\ (csv = <<>> => form.ended) => result = Len(csv)

(* The inductive invariant of the readers of a file.                       *)
CsvInvariant == FileIsWritten /\ WorkersAre /\ IsOpened /\ PartsRead /\ RowsRead /\ Counted

(* It holds before the file is written,                                    *)
LEMMA CsvStarts == CsvInit => CsvInvariant
<1> SUFFICES ASSUME CsvInit PROVE CsvInvariant
  OBVIOUS
<1>1. FileOK
  BY DEF CsvInit, FileOK
<1>2. reading = "write"
  BY DEF CsvInit
<1> QED BY <1>1, <1>2 DEF CsvInvariant, FileIsWritten, WorkersAre, IsOpened, PartsRead, RowsRead, Counted, Done

(* Nothing is read of the file.                                            *)
LEMMA CsvUnread ==
  ASSUME CsvInvariant, csv' = csv, form' = form, reading' \in {"idle", "threw"}, buffer' = Text
  PROVE  CsvInvariant'
<1>1. FileOK' /\ Text' = Text
  BY SameRows, SameLines DEF CsvInvariant, FileIsWritten
<1> QED BY <1>1 DEF CsvInvariant, FileIsWritten, WorkersAre, IsOpened, PartsRead, RowsRead, Counted, Done

(* a count keeps it,                                                       *)
LEMMA CsvCounts ==
  ASSUME CsvInvariant, CountRows
  PROVE  CsvInvariant'
<1>1. /\ reading = "idle" /\ form.header /\ how' = "count" /\ reading' = "done"
      /\ result' = Newlines + (IF Last(buffer) # NL THEN 1 ELSE 0)
      /\ csv' = csv /\ form' = form /\ buffer' = buffer
  BY DEF CountRows
<1>2. Filled
  BY <1>1 DEF CsvInvariant, FileIsWritten, Filled
<1>3. FileIsWritten'
  BY <1>1, <1>2, SameRows, SameLines DEF Filled, FileIsWritten
<1>4. Counted'
  <2> SUFFICES ASSUME NoBreak', csv' = <<>> => form'.ended PROVE result' = Len(csv')
    BY DEF Counted
  <2>1. NoBreak /\ (csv = <<>> => form.ended)
    BY <1>1, SameRows
  <2>2. Newlines + (IF Last(buffer) # NL THEN 1 ELSE 0) = Len(csv)
    BY <1>1, <1>2, <2>1, CountIs
  <2> QED BY <1>1, <2>2
<1>5. ~Asked' /\ reading' # "read"
  BY <1>1 DEF Asked
<1> QED BY <1>3, <1>4, <1>5 DEF CsvInvariant, WorkersAre, IsOpened, PartsRead, RowsRead

(* A file that is opened is cut into parts of which nothing has been read. *)
LEMMA CsvOpens ==
  ASSUME CsvInvariant, NEW purpose \in {"copy", "scan"}, NEW columns, NEW needed, NEW n \in Nat \ {0},
         OpenFile(purpose, columns, needed, n),
         ~Misreads => \E m : Opened(m)'
  PROVE  CsvInvariant'
<1>1. /\ reading = "idle" /\ how' = purpose /\ workers' = Ranges(n) /\ reading' = "read"
      /\ csv' = csv /\ form' = form /\ buffer' = buffer
  BY DEF OpenFile
<1>2. Filled
  BY <1>1 DEF CsvInvariant, FileIsWritten, Filled
<1>3. FileIsWritten'
  BY <1>1, <1>2, SameRows, SameLines DEF Filled, FileIsWritten
<1>4. WorkersAre'
  <2>1. PICK at : IsLaid(at)
    BY <1>2, LinesLaid
  <2>2. Size \in Nat /\ FirstRow \in Nat /\ FirstRow <= Size + 1
    <3>1. 0 \in 0 .. Len(csv)
      BY <1>2, <2>1, StartsGrow
    <3> QED BY <1>2, <2>1, <3>1, StartsGrow
  <2>3. \E q : Between(Ranges(n), q, FirstRow, Size + 1)
    BY <2>2, RangesAre
  <2>4. Len(Ranges(n)) \in Nat /\ DOMAIN Ranges(n) = 1 .. Len(Ranges(n))
    BY <2>3 DEF Between
  <2> QED BY <1>1, <2>4 DEF WorkersAre, Asked
<1>5. IsOpened'
  <2>1. Misreads' <=> Misreads
    BY <1>1, SameRows
  <2> QED BY <2>1 DEF IsOpened
<1>6. PartsRead'
  <2> SUFFICES ASSUME NEW at, NEW m, CanRead(at, m)', Whole'
               PROVE  (\E cut : /\ Cutting(cut, Len(workers))
                                /\ \A w \in 1 .. Len(workers) : \E i \in cut[w - 1] .. cut[w] :
                                     workers[w] = PartRead(at, cut, w, i))'
    BY DEF PartsRead
  <2>1. IsLaid(at)
    BY <1>1, SameFile DEF CanRead
  <2>2. NoBreak \/ Len(Ranges(n)) <= 1
    BY <1>1, SameRows DEF Whole
  <2>3. PICK cut : /\ Cutting(cut, Len(Ranges(n)))
                   /\ \A w \in 1 .. Len(Ranges(n)) : Ranges(n)[w] = PartRead(at, cut, w, cut[w - 1])
    BY <1>2, <2>1, <2>2, PartsAre
  <2>4. Cutting(cut, Len(workers))'
    BY <1>1, <2>3 DEF Cutting
  <2>5. ASSUME NEW w \in 1 .. Len(Ranges(n))
        PROVE  cut[w - 1] \in cut[w - 1] .. cut[w] /\ workers'[w] = PartRead(at, cut, w, cut[w - 1])'
    <3> DEFINE a == cut[w - 1]
    <3>1. Len(csv) \in Nat /\ a \in Nat /\ cut[w] \in Nat /\ a <= cut[w]
      <4>1. Len(csv) \in Nat
        BY <1>2, <2>1, StartsGrow
      <4>2. w - 1 \in 0 .. Len(Ranges(n)) /\ w \in 0 .. Len(Ranges(n))
        BY <2>3 DEF Cutting
      <4> QED BY SMTT(40), <2>3, <4>1, <4>2 DEF Cutting
    <3>2. RowsFrom(a, a) = <<>>
      <4> HIDE DEF a
      <4> QED BY <3>1, NoRows
    <3>3. RowsFrom(a, a)' = <<>>
      <4> HIDE DEF a
      <4>1. a - a = 0 /\ [j \in 1 .. 0 |-> RowAt(a + j)'] = <<>>
        BY <3>1
      <4>2. RowsFrom(a, a)' = [j \in 1 .. a - a |-> RowAt(a + j)']
        BY DEF RowsFrom
      <4> QED BY <4>1, <4>2
    <3>4. \A x, y : Start(x, y)' = Start(x, y)
      BY <1>1, SameLines
    <3> HIDE DEF a
    <3>5. PartRead(at, cut, w, a)' = PartRead(at, cut, w, a)
      <4>1. PartRead(at, cut, w, a) = [pos |-> Start(at, a), end |-> Start(at, cut[w]) - 1, rows |-> <<>>]
        BY <3>2 DEF PartRead, a
      <4>2. PartRead(at, cut, w, a)' = [pos |-> Start(at, a)', end |-> Start(at, cut[w])' - 1, rows |-> <<>>]
        BY <3>3 DEF PartRead, a
      <4> QED BY <3>4, <4>1, <4>2
    <3>6. a \in a .. cut[w]
      BY <3>1
    <3> QED BY <1>1, <2>3, <3>5, <3>6 DEF a
  <2> QED BY <1>1, <2>4, <2>5
<1>7. RowsRead' /\ Counted'
  BY <1>1 DEF RowsRead, Counted, Done
<1> QED BY <1>3, <1>4, <1>5, <1>6, <1>7 DEF CsvInvariant

(* COPY FROM opens a file, and so does                                     *)
LEMMA CsvCopies ==
  ASSUME CsvInvariant, Copy
  PROVE  CsvInvariant'
<1> DEFINE columns == [c \in 1 .. Columns |-> "varchar"]
<1>1. OpenFile("copy", columns, {}, 1)
  BY DEF Copy
<1>2. /\ reading = "idle" /\ how' = "copy" /\ types' = columns /\ projection' = {} /\ workers' = Ranges(1)
      /\ csv' = csv /\ form' = form /\ buffer' = buffer
  BY <1>1 DEF OpenFile
<1>3. Filled
  BY <1>2 DEF CsvInvariant, FileIsWritten, Filled
<1>4. Len(Ranges(1)) <= 1
  <2>1. PICK at : IsLaid(at)
    BY <1>3, LinesLaid
  <2>2. Size \in Nat /\ FirstRow \in Nat /\ FirstRow <= Size + 1
    <3>1. 0 \in 0 .. Len(csv)
      BY <1>3, <2>1, StartsGrow
    <3> QED BY <1>3, <2>1, <3>1, StartsGrow
  <2>3. 1 \in Nat \ {0}
    OBVIOUS
  <2>4. \A n \in Nat \ {0} : n = 1 => Len(Ranges(n)) <= 1
    BY <2>2, RangesAre
  <2> QED BY <2>3, <2>4
<1>5. Columns \in Nat /\ 1 <= Columns
  BY CsvFileAssumption
<1>6. Len(columns) = Columns /\ DOMAIN columns = 1 .. Columns /\ \A c \in 1 .. Columns : columns[c] = "varchar"
  BY <1>5
<1> HIDE DEF columns
<1>7. Opened(Columns)'
  BY <1>2, <1>4, <1>5, <1>6 DEF Opened, Reads
<1> QED BY <1>1, <1>7, CsvOpens

(* a query, with the types that are detected.                              *)
LEMMA CsvScans ==
  ASSUME CsvInvariant, ScanFile
  PROVE  CsvInvariant'
<1>1. PICK needed \in SUBSET DOMAIN DetectTypes, n \in {1, Threads} :
        DetectTypes # <<>> /\ OpenFile("scan", DetectTypes, needed, n)
  BY DEF ScanFile
<1>2. /\ reading = "idle" /\ how' = "scan" /\ types' = DetectTypes /\ projection' = needed
      /\ csv' = csv /\ form' = form /\ buffer' = buffer
  BY <1>1 DEF OpenFile
<1>3. Filled
  BY <1>2 DEF CsvInvariant, FileIsWritten, Filled
<1>4. n \in Nat \ {0}
  BY CsvFileAssumption
<1>5. ASSUME ~Misreads PROVE \E m : Opened(m)'
  <2>1. PICK m : Fitted(DetectTypes, m)
    BY <1>3, <1>5, DetectTypesIs
  <2>2. m \in 0 .. Columns /\ DetectTypes \in [1 .. m -> Classes] /\ Columns \in Nat
    BY <2>1, CsvFileAssumption DEF Fitted
  <2>3. m # 0
    <3> SUFFICES ASSUME m = 0 PROVE FALSE
      OBVIOUS
    <3>1. DetectTypes \in [1 .. 0 -> Classes]
      BY <2>2
    <3>2. DetectTypes = <<>>
      <4> DEFINE d == DetectTypes
      <4>1. d \in [1 .. 0 -> Classes]
        BY <3>1
      <4> HIDE DEF d
      <4>2. d = <<>>
        BY <4>1
      <4> QED BY <4>2 DEF d
    <3> QED BY <1>1, <3>2
  <2>4. m \in Nat /\ 1 <= m /\ m <= Columns
    BY <2>2, <2>3
  <2>5. Len(DetectTypes) = m /\ DOMAIN DetectTypes = 1 .. m
    <3> DEFINE d == DetectTypes
    <3>1. d \in [1 .. m -> Classes]
      BY <2>2
    <3> HIDE DEF d
    <3>2. Len(d) = m /\ DOMAIN d = 1 .. m
      BY <2>4, <3>1
    <3> QED BY <3>2 DEF d
  <2>6. Reads(m)'
    BY <1>2, <2>4, <2>5 DEF Reads
  <2>7. Fitted(types, m)'
    <3>1. \A t : t = types' /\ Fitted(t, m) => Fitted(types, m)'
      BY <1>2, SameTypes
    <3> QED BY <1>2, <2>1, <3>1
  <2> QED BY <1>2, <2>6, <2>7 DEF Opened
<1> QED BY <1>1, <1>4, <1>5, CsvOpens

(* A file is still opened for what it was while the rows and types are the *)
(* same.                                                                   *)
LEMMA StillOpened ==
  ASSUME csv' = csv, form' = form, types' = types, projection' = projection, how' = how,
         Len(workers') = Len(workers), NEW m, Opened(m)
  PROVE  Opened(m)'
<1>1. Reads(m)'
  BY DEF Opened, Reads
<1>2. how = "scan" => Fitted(types, m)'
  <2>1. \A t : t = types' /\ Fitted(t, m) => Fitted(types, m)'
    BY SameTypes
  <2> QED BY <2>1 DEF Opened
<1> QED BY <1>1, <1>2 DEF Opened

(* A reader that takes one more chunk goes on to a row of its part.        *)
LEMMA CsvReads ==
  ASSUME CsvInvariant, NEW w \in DOMAIN workers, ReadChunk(w)
  PROVE  CsvInvariant'
<1> DEFINE old == workers[w]
           chunk == Chunk(old.pos, old.end)
           K == Len(workers)
<1>1. /\ reading = "read" /\ old.pos <= old.end
      /\ workers' = [workers EXCEPT ![w].pos = chunk.pos, ![w].rows = @ \o chunk.rows]
      /\ csv' = csv /\ form' = form /\ reading' = reading /\ buffer' = buffer /\ how' = how
      /\ types' = types /\ projection' = projection /\ result' = result
  BY DEF ReadChunk
<1>2. /\ FileOK /\ buffer = Text /\ Filled /\ Asked /\ K \in Nat /\ DOMAIN workers = 1 .. K
  BY <1>1 DEF CsvInvariant, FileIsWritten, WorkersAre, Filled
<1>3. FileIsWritten'
  BY <1>1, <1>2, SameRows, SameLines DEF FileIsWritten
<1> HIDE DEF old, chunk, K
<1>4. Len(workers') = K /\ DOMAIN workers' = 1 .. K
  <2>1. workers' = [x \in 1 .. K |-> workers'[x]]
    BY <1>1, <1>2
  <2> QED BY <1>2, <2>1
<1>5. WorkersAre'
  BY <1>1, <1>2, <1>4 DEF WorkersAre, Asked
<1>6. IsOpened'
  <2> SUFFICES ASSUME ~Misreads' PROVE \E m : Opened(m)'
    BY DEF IsOpened
  <2>1. ~Misreads
    BY <1>1, SameRows
  <2>2. PICK m : Opened(m)
    BY <1>1, <1>2, <2>1 DEF CsvInvariant, IsOpened
  <2>3. Opened(m)'
    BY <1>1, <1>4, <2>2, StillOpened DEF K
  <2> QED BY <2>3
<1>7. PartsRead'
  <2> SUFFICES ASSUME NEW at, NEW m, CanRead(at, m)', Whole'
               PROVE  (\E cut : /\ Cutting(cut, Len(workers))
                                /\ \A v \in 1 .. Len(workers) : \E i \in cut[v - 1] .. cut[v] :
                                     workers[v] = PartRead(at, cut, v, i))'
    BY DEF PartsRead
  <2>1. CanRead(at, m)
    BY <1>1, SameReading
  <2>2. Whole
    BY <1>1, <1>4, SameRows DEF Whole, K
  <2>3. PICK cut : /\ Cutting(cut, K)
                   /\ \A v \in 1 .. K : \E i \in cut[v - 1] .. cut[v] : workers[v] = PartRead(at, cut, v, i)
    BY <1>1, <2>1, <2>2 DEF CsvInvariant, PartsRead, K
  <2>4. \A x, y, c, i : PartRead(x, c, y, i)' = PartRead(x, c, y, i)
    BY <1>1, SameReading
  <2>5. Cutting(cut, Len(workers))'
    BY <1>1, <1>4, <2>3 DEF Cutting
  <2> DEFINE a == cut[w - 1]
             b == cut[w]
  <2>6. PICK i \in a .. b : old = PartRead(at, cut, w, i)
    BY <1>2, <2>3 DEF old
  <2>7. Filled /\ IsLaid(at) /\ Len(csv) \in Nat
    <3>1. Filled /\ IsLaid(at)
      BY <2>1 DEF CanRead
    <3> QED BY <3>1, StartsGrow
  <2>8. /\ a \in Nat /\ b \in 0 .. Len(csv) /\ b \in Nat /\ i \in 0 .. b /\ i \in Nat /\ a <= i /\ i <= b
        /\ i \in 0 .. Len(csv)
    <3>1. w \in 1 .. K /\ w - 1 \in 0 .. K /\ w \in 0 .. K
      BY <1>2
    <3>2. a \in 0 .. Len(csv) /\ b \in 0 .. Len(csv)
      BY <2>3, <3>1 DEF Cutting
    <3> HIDE DEF a, b
    <3> QED BY <2>6, <2>7, <3>2
  <2> HIDE DEF a, b
  <2>9. old.pos = Start(at, i) /\ old.end = Start(at, b) - 1 /\ old.rows = RowsFrom(a, i)
    BY <2>6 DEF PartRead, a, b
  <2> DEFINE d == b - i
             k == Fewer(VectorSize, d)
             more == [j \in 1 .. k |-> RowAt(i + j)]
  <2>10. k \in Nat /\ i + k \in a .. b
    <3>1. VectorSize \in Nat
      BY VectorAssumption
    <3> QED BY <2>8, <3>1 DEF Fewer
  <2>11. chunk = [pos |-> Start(at, i + k), rows |-> more]
    <3>1. Chunk(Start(at, i), Start(at, b) - 1) = [pos |-> Start(at, i + k), rows |-> more]
      BY <2>1, <2>8, ChunkIs
    <3> HIDE DEF k, more
    <3> QED BY <2>9, <3>1 DEF chunk
  <2>12. RowsFrom(a, i) \o more = RowsFrom(a, i + k)
    <3> HIDE DEF k
    <3> QED BY <2>8, <2>10, RowsMore
  <2> HIDE DEF k, more
  <2>13. workers'[w] = PartRead(at, cut, w, i + k)
    <3>1. workers'[w] = [workers[w] EXCEPT !.pos = chunk.pos, !.rows = workers[w].rows \o chunk.rows]
      BY <1>1, <1>2
    <3>2. workers[w] = [pos |-> Start(at, i), end |-> Start(at, b) - 1, rows |-> RowsFrom(a, i)]
      BY <2>6 DEF PartRead, a, b, old
    <3>3. workers[w].rows = RowsFrom(a, i) /\ chunk.pos = Start(at, i + k) /\ chunk.rows = more
      BY <2>11, <3>2
    <3>4. workers'[w] = [pos |-> Start(at, i + k), end |-> Start(at, b) - 1, rows |-> RowsFrom(a, i + k)]
      <4> DEFINE row == RowsFrom(a, i)
                 s == Start(at, i)
                 e == Start(at, b) - 1
                 p == Start(at, i + k)
                 sum == RowsFrom(a, i + k)
      <4>1. workers'[w] = [workers[w] EXCEPT !.pos = p, !.rows = sum]
        BY <2>12, <3>1, <3>3
      <4>2. workers[w] = [pos |-> s, end |-> e, rows |-> row]
        BY <3>2
      <4> HIDE DEF row, s, e, p, sum
      <4> DEFINE old1 == [pos |-> s, end |-> e, rows |-> row]
                 new == [old1 EXCEPT !.pos = p, !.rows = sum]
      <4>3. DOMAIN new = {"pos", "end", "rows"} /\ new = [x \in {"pos", "end", "rows"} |-> new[x]]
        OBVIOUS
      <4>4. new["pos"] = p /\ new["end"] = e /\ new["rows"] = sum
        OBVIOUS
      <4>5. new = workers'[w]
        BY <4>1, <4>2
      <4> HIDE DEF new
      <4>6. new = [pos |-> p, end |-> e, rows |-> sum]
        BY <4>3, <4>4
      <4> QED BY <4>5, <4>6 DEF p, e, sum
    <3> QED BY <3>4 DEF PartRead, a, b
  <2>14. ASSUME NEW v \in 1 .. K
         PROVE  \E x \in cut[v - 1] .. cut[v] : workers'[v] = PartRead(at, cut, v, x)'
    <3>1. CASE v = w
      BY <2>4, <2>10, <2>13, <3>1 DEF a, b
    <3>2. CASE v # w
      <4>1. workers'[v] = workers[v]
        BY <1>1, <1>2, <3>2
      <4>2. PICK x \in cut[v - 1] .. cut[v] : workers[v] = PartRead(at, cut, v, x)
        BY <2>3
      <4> QED BY <2>4, <4>1, <4>2
    <3> QED BY <3>1, <3>2
  <2> QED BY <1>4, <2>5, <2>14
<1>8. RowsRead' /\ Counted'
  BY <1>1 DEF RowsRead, Counted, Done
<1> QED BY <1>3, <1>5, <1>6, <1>7, <1>8 DEF CsvInvariant

(* Readers that have all come to the end of their parts have read all the  *)
(* rows.                                                                   *)
LEMMA CsvJoins ==
  ASSUME CsvInvariant, Join
  PROVE  CsvInvariant'
<1> DEFINE K == Len(workers)
           s == [w \in DOMAIN workers |-> workers[w].rows]
<1>1. /\ reading = "read" /\ result' = FlattenSeq(s) /\ reading' = "done"
      /\ csv' = csv /\ form' = form /\ buffer' = buffer /\ how' = how
      /\ types' = types /\ projection' = projection /\ workers' = workers
      /\ \A w \in DOMAIN workers : workers[w].pos > workers[w].end
  BY DEF Join
<1>2. /\ FileOK /\ buffer = Text /\ Asked /\ K \in Nat /\ DOMAIN workers = 1 .. K
  BY <1>1 DEF CsvInvariant, FileIsWritten, WorkersAre
<1>3. FileIsWritten'
  BY <1>1, <1>2, SameRows, SameLines DEF FileIsWritten
<1>4. IsOpened'
  <2> SUFFICES ASSUME ~Misreads' PROVE \E m : Opened(m)'
    BY DEF IsOpened
  <2>1. ~Misreads
    BY <1>1, SameRows
  <2>2. PICK m : Opened(m)
    BY <1>1, <1>2, <2>1 DEF CsvInvariant, IsOpened
  <2>3. Opened(m)'
    BY <1>1, <2>2, StillOpened
  <2> QED BY <2>3
<1> HIDE DEF K, s
<1>5. RowsRead'
  <2> SUFFICES ASSUME NEW at, NEW m, CanRead(at, m)', Whole'
               PROVE  result' = [i \in 1 .. Len(csv') |-> RowAt(i)']
    BY DEF RowsRead
  <2>1. CanRead(at, m)
    BY <1>1, SameReading
  <2>2. Whole
    BY <1>1, SameRows DEF Whole
  <2>3. PICK cut : /\ Cutting(cut, K)
                   /\ \A v \in 1 .. K : \E i \in cut[v - 1] .. cut[v] : workers[v] = PartRead(at, cut, v, i)
    BY <1>1, <2>1, <2>2 DEF CsvInvariant, PartsRead, K
  <2>4. Filled /\ IsLaid(at) /\ Len(csv) \in Nat
    <3>1. Filled /\ IsLaid(at)
      BY <2>1 DEF CanRead
    <3> QED BY <3>1, StartsGrow
  <2>5. ASSUME NEW v \in 1 .. K PROVE s[v] = RowsFrom(cut[v - 1], cut[v])
    <3>1. PICK i \in cut[v - 1] .. cut[v] : workers[v] = PartRead(at, cut, v, i)
      BY <2>3
    <3> DEFINE a == cut[v - 1]
               b == cut[v]
    <3>2. a \in 0 .. Len(csv) /\ b \in 0 .. Len(csv)
      <4>1. v - 1 \in 0 .. K /\ v \in 0 .. K
        BY <1>2
      <4> QED BY <2>3, <4>1 DEF Cutting
    <3>3. workers[v] = [pos |-> Start(at, i), end |-> Start(at, b) - 1, rows |-> RowsFrom(a, i)]
      BY <3>1 DEF PartRead
    <3>4. Start(at, i) > Start(at, b) - 1
      BY <1>1, <1>2, <3>3
    <3> HIDE DEF a, b
    <3>5. i \in 0 .. Len(csv) /\ i <= b /\ i \in Nat /\ b \in Nat
      BY <2>4, <3>1, <3>2 DEF a, b
    <3>6. Start(at, i) \in Nat /\ Start(at, b) \in Nat
      BY <2>4, <3>2, <3>5, StartsGrow
    <3>7. ~(Start(at, i) < Start(at, b))
      BY <3>4, <3>6
    <3>8. ~(i < b)
      BY <2>4, <3>2, <3>5, <3>7, StartsGrow
    <3>9. i = b
      BY <3>5, <3>8
    <3>10. s[v] = RowsFrom(a, i)
      BY <1>2, <3>3 DEF s
    <3> QED BY <3>9, <3>10 DEF a, b
  <2>6. DOMAIN s = 1 .. K /\ s = [w \in 1 .. K |-> RowsFrom(cut[w - 1], cut[w])]
    <3>1. DOMAIN s = 1 .. K /\ s = [w \in 1 .. K |-> s[w]]
      BY <1>2 DEF s
    <3> QED BY <2>5, <3>1
  <2>7. FlattenSeq(s) = [i \in 1 .. Len(csv) |-> RowAt(i)]
    BY <2>3, <2>4, <2>6, JoinedIs
  <2>8. \A i : RowAt(i)' = RowAt(i)
    BY <1>1, SameReading
  <2> QED BY <1>1, <2>7, <2>8
<1>6. WorkersAre' /\ PartsRead' /\ Counted'
  BY <1>1, <1>2 DEF WorkersAre, PartsRead, Counted, Done, Asked
<1> QED BY <1>3, <1>4, <1>5, <1>6 DEF CsvInvariant

(* Nothing changes when nothing is done.                                   *)
LEMMA CsvStutters ==
  ASSUME CsvInvariant, UNCHANGED csvVars
  PROVE  CsvInvariant'
<1>1. /\ csv' = csv /\ form' = form /\ buffer' = buffer /\ reading' = reading /\ how' = how
      /\ types' = types /\ projection' = projection /\ workers' = workers /\ result' = result
  BY DEF csvVars, reader
<1>2. FileIsWritten'
  BY <1>1, SameRows, SameLines DEF CsvInvariant, FileIsWritten
<1>3. WorkersAre'
  BY <1>1 DEF CsvInvariant, WorkersAre, Asked
<1>4. IsOpened'
  <2> SUFFICES ASSUME reading \in {"read", "done"}, Asked, ~Misreads' PROVE \E m : Opened(m)'
    BY <1>1 DEF IsOpened, Asked
  <2>1. ~Misreads
    BY <1>1, SameRows
  <2>2. PICK m : Opened(m)
    BY <2>1 DEF CsvInvariant, IsOpened
  <2>3. Opened(m)'
    BY <1>1, <2>2, StillOpened
  <2> QED BY <2>3
<1>5. Whole' <=> Whole
  BY <1>1, SameRows DEF Whole
<1>6. PartsRead'
  <2> SUFFICES ASSUME reading = "read", NEW at, NEW m, CanRead(at, m)', Whole'
               PROVE  (\E cut : /\ Cutting(cut, Len(workers))
                                /\ \A v \in 1 .. Len(workers) : \E i \in cut[v - 1] .. cut[v] :
                                     workers[v] = PartRead(at, cut, v, i))'
    BY <1>1 DEF PartsRead
  <2>1. CanRead(at, m)
    BY <1>1, SameReading
  <2>2. PICK cut : /\ Cutting(cut, Len(workers))
                   /\ \A v \in 1 .. Len(workers) : \E i \in cut[v - 1] .. cut[v] :
                        workers[v] = PartRead(at, cut, v, i)
    BY <1>5, <2>1 DEF CsvInvariant, PartsRead
  <2>3. \A x, y, c, i : PartRead(x, c, y, i)' = PartRead(x, c, y, i)
    BY <1>1, SameReading
  <2>4. Cutting(cut, Len(workers))'
    BY <1>1, <2>2 DEF Cutting
  <2> QED BY <1>1, <2>2, <2>3, <2>4
<1>7. RowsRead'
  <2> SUFFICES ASSUME reading = "done", Asked, NEW at, NEW m, CanRead(at, m)', Whole'
               PROVE  result' = [i \in 1 .. Len(csv') |-> RowAt(i)']
    BY <1>1 DEF RowsRead, Asked
  <2>1. CanRead(at, m)
    BY <1>1, SameReading
  <2>2. result = [i \in 1 .. Len(csv) |-> RowAt(i)]
    BY <1>5, <2>1 DEF CsvInvariant, RowsRead
  <2>3. \A i : RowAt(i)' = RowAt(i)
    BY <1>1, SameReading
  <2> QED BY <1>1, <2>2, <2>3
<1>8. Counted'
  BY <1>1, SameRows DEF CsvInvariant, Counted, Done
<1> QED BY <1>2, <1>3, <1>4, <1>6, <1>7, <1>8 DEF CsvInvariant

-----------------------------------------------------------------------------
(* The theorems                                                            *)

(* Every step keeps the invariant.                                         *)
LEMMA CsvSteps == CsvInvariant /\ [CsvNext]_csvVars => CsvInvariant'
<1> SUFFICES ASSUME CsvInvariant, [CsvNext]_csvVars PROVE CsvInvariant'
  OBVIOUS
<1>1. CASE Write
  BY <1>1, CsvUnread DEF Write
<1>2. CASE Copy
  BY <1>2, CsvCopies
<1>3. CASE ScanFile
  BY <1>3, CsvScans
<1>4. CASE OpenThrows
  <2>1. csv' = csv /\ form' = form /\ reading' \in {"idle", "threw"} /\ buffer' = Text
    BY <1>4 DEF OpenThrows, CsvInvariant, FileIsWritten
  <2> QED BY <2>1, CsvUnread
<1>5. CASE CountRows
  BY <1>5, CsvCounts
<1>6. CASE \E w \in DOMAIN workers : ReadChunk(w)
  BY <1>6, CsvReads
<1>7. CASE Join
  BY <1>7, CsvJoins
<1>8. CASE UNCHANGED csvVars
  BY <1>8, CsvStutters
<1> QED BY <1>1, <1>2, <1>3, <1>4, <1>5, <1>6, <1>7, <1>8 DEF CsvNext

(* Every cell of a row is one of those in the file.                        *)
LEMMA CellOfRow ==
  ASSUME FileOK, NEW i \in 1 .. Len(csv), NEW c \in 1 .. Columns
  PROVE  i \in DOMAIN csv /\ csv[i][c] \in Cells
         /\ (FieldsOf(i)[c] = Plain(csv[i][c]))
<1>1. DOMAIN csv = 1 .. Len(csv) /\ Above \in {0, 1} /\ Len(csv) \in Nat
  BY FileType
<1>2. ~(form.header /\ Above + i = 1) /\ (Above + i) - Above = i
  BY <1>1 DEF Above
<1>3. FieldsOf(i)[c] = Plain(csv[i][c])
  BY <1>2 DEF FieldsOf, LineFields
<1> QED BY <1>1, <1>3 DEF Cells

(* Bytes that no text of a column has.                                     *)
LEMMA PlainHas ==
  ASSUME NEW cell, NEW byte, ~HasByte({byte}, cell)
  PROVE  byte \notin ToSet(Plain(cell))
<1>1. CASE cell = Null
  BY <1>1 DEF Plain, ToSet
<1>2. CASE cell # Null
  <2>1. {byte} \cap ToSet(cell) = {}
    BY <1>2 DEF HasByte
  <2> QED BY <1>2, <2>1 DEF Plain
<1> QED BY <1>1, <1>2

(* A cell with a carriage return in it is misread.                         *)
LEMMA MisreadHas ==
  ASSUME NEW cell, ~Misread(cell)
  PROVE  ~HasByte({CR}, cell)
BY DEF Misread, HasByte

(* What the invariant says of a copy, of a count, and of a query.          *)
LEMMA CopiesAreRight == CsvInvariant => CopyRoundTrip
<1> SUFFICES ASSUME CsvInvariant, Done("copy"), ~Misreads
             PROVE  result = [i \in DOMAIN csv |-> [c \in 1 .. Columns |-> Seen(csv[i][c])]]
  BY DEF CopyRoundTrip, Misreads
<1>1. reading = "done" /\ how = "copy" /\ Asked
  BY DEF Done, Asked
<1>2. Filled /\ FileOK /\ DOMAIN csv = 1 .. Len(csv) /\ Len(csv) \in Nat
  BY <1>1, FileType DEF CsvInvariant, FileIsWritten, Filled
<1>3. PICK m : Opened(m)
  BY <1>1 DEF CsvInvariant, IsOpened
<1>4. Reads(m) /\ m = Columns /\ projection = {} /\ Len(workers) <= 1 /\ DOMAIN types = 1 .. Columns
      /\ Needed = 1 .. Columns /\ \A c \in 1 .. Columns : types[c] = "varchar"
  BY <1>1, <1>3 DEF Opened, Reads, Needed
<1>5. PICK at : IsLaid(at)
  BY <1>2, LinesLaid
<1>6. ASSUME NEW i \in 1 .. Len(csv) PROVE Readable(FieldsOf(i))
  <2>1. Least(Needed) = 1 /\ Greatest(Needed) = Columns /\ Columns \in Nat
    BY <1>4, NeededIs, CsvFileAssumption
  <2>2. ASSUME NEW c \in 1 .. Columns PROVE CR \notin ToSet(FieldsOf(i)[c])
    <3>1. csv[i][c] \in Cells /\ FieldsOf(i)[c] = Plain(csv[i][c])
      BY <1>2, CellOfRow
    <3>2. ~Misread(csv[i][c])
      BY <3>1 DEF Misreads
    <3>3. CR \notin ToSet(Plain(csv[i][c]))
      BY <3>2, MisreadHas, PlainHas
    <3> QED BY <3>1, <3>3
  <2>3. \A c \in 1 .. Columns : ~(c > Greatest(Needed))
    BY <2>1
  <2>4. \A c \in 1 .. Least(Needed) - 1 : FALSE
    BY <2>1
  <2> QED BY <2>2, <2>3, <2>4 DEF Readable
<1>7. CanRead(at, m) /\ Whole
  BY <1>2, <1>4, <1>5, <1>6 DEF CanRead, Whole
<1>8. result = [i \in 1 .. Len(csv) |-> RowAt(i)]
  BY <1>1, <1>7 DEF CsvInvariant, RowsRead
<1>9. ASSUME NEW i \in 1 .. Len(csv) PROVE RowAt(i) = [c \in 1 .. Columns |-> Seen(csv[i][c])]
  <2>1. \A c \in Needed : Takes(types[c], c)
    BY <1>4 DEF Takes
  <2>2. RowAt(i) = SeenAt(i)
    BY <1>2, <1>4, <2>1, RowIsSeen
  <2> QED BY <1>4, <2>2 DEF SeenAt
<1> QED BY <1>2, <1>8, <1>9

(* A count is the number of the rows.                                      *)
LEMMA CountsAreRight == CsvInvariant => CountIsRows
<1> SUFFICES ASSUME CsvInvariant, Done("count"), ~(\E cell \in Cells : HasByte({NL}, cell)),
                    csv = <<>> => form.ended
             PROVE  result = Len(csv)
  BY DEF CountIsRows
<1>1. NoBreak
  BY DEF NoBreak
<1> QED BY <1>1 DEF CsvInvariant, Counted

(* A query sees the cells that stand in the file.                          *)
LEMMA ScansAreRight == CsvInvariant => CellsAgree
<1> DEFINE BreaksLine(c)  == \E i \in DOMAIN csv : HasByte({NL}, csv[i][c])
           BreaksField(c) == \E i \in DOMAIN csv : HasByte({Delimiter}, csv[i][c])
<1> SUFFICES ASSUME CsvInvariant, Done("scan"), ~Misreads, \A c \in Needed : OfOneClass(c),
                    \A c \in 1 .. Columns : BreaksLine(c) => Len(workers) <= 1 /\ c <= Greatest(Needed),
                    \A c \in 1 .. Least(Needed) - 1 : ~BreaksField(c)
             PROVE  result = [i \in DOMAIN csv |-> [c \in DOMAIN types |->
                                IF c \in Needed THEN Seen(csv[i][c]) ELSE Unread]]
  BY DEF CellsAgree, Misreads
<1>b. \A c \in 1 .. Columns : BreaksLine(c) => Len(workers) <= 1 /\ c <= Greatest(Needed)
  OBVIOUS
<1>c. \A i \in DOMAIN csv : \A c : HasByte({NL}, csv[i][c]) => BreaksLine(c)
  OBVIOUS
<1> HIDE DEF BreaksLine
<1>1. reading = "done" /\ how = "scan" /\ Asked
  BY DEF Done, Asked
<1>2. Filled /\ FileOK /\ DOMAIN csv = 1 .. Len(csv) /\ Len(csv) \in Nat
  BY <1>1, FileType DEF CsvInvariant, FileIsWritten, Filled
<1>3. PICK m : Opened(m)
  BY <1>1 DEF CsvInvariant, IsOpened
<1>4. Reads(m) /\ Fitted(types, m) /\ Needed \subseteq 1 .. m /\ m \in Nat /\ m <= Columns /\ Columns \in Nat
      /\ Least(Needed) \in 1 .. m /\ Greatest(Needed) \in 1 .. m
  <2>1. Reads(m) /\ Fitted(types, m)
    BY <1>1, <1>3 DEF Opened
  <2>2. Needed \subseteq 1 .. m /\ Least(Needed) \in Needed /\ Greatest(Needed) \in Needed
    BY <2>1, NeededIs
  <2> QED BY <2>1, <2>2, CsvFileAssumption DEF Reads
<1>5. PICK at : IsLaid(at)
  BY <1>2, LinesLaid
<1>6. ASSUME NEW i \in 1 .. Len(csv) PROVE Readable(FieldsOf(i))
  <2>1. ASSUME NEW c \in 1 .. Columns
        PROVE  /\ i \in DOMAIN csv /\ csv[i][c] \in Cells /\ FieldsOf(i)[c] = Plain(csv[i][c])
               /\ CR \notin ToSet(FieldsOf(i)[c])
    <3>1. i \in DOMAIN csv /\ csv[i][c] \in Cells /\ FieldsOf(i)[c] = Plain(csv[i][c])
      BY <1>2, CellOfRow
    <3>2. ~Misread(csv[i][c])
      BY <3>1 DEF Misreads
    <3>3. CR \notin ToSet(Plain(csv[i][c]))
      BY <3>2, MisreadHas, PlainHas
    <3> QED BY <3>1, <3>3
  <2>2. ASSUME NEW c \in 1 .. Columns, c > Greatest(Needed) PROVE NL \notin ToSet(FieldsOf(i)[c])
    <3> DEFINE g == Greatest(Needed)
    <3>0. g \in Nat /\ c \in Nat /\ c > g
      BY <1>4, <2>2
    <3> HIDE DEF g
    <3>a. ~(c <= g)
      BY <3>0
    <3>1. ~BreaksLine(c)
      BY <1>b, <2>2, <3>a DEF g
    <3>2. ~HasByte({NL}, csv[i][c])
      BY <1>c, <2>1, <3>1
    <3> QED BY <2>1, <3>2, PlainHas
  <2>3. ASSUME NEW c \in 1 .. Least(Needed) - 1 PROVE Delimiter \notin ToSet(FieldsOf(i)[c])
    <3>1. c \in 1 .. Columns
      BY <1>4
    <3>2. ~HasByte({Delimiter}, csv[i][c])
      BY <2>1, <3>1
    <3> QED BY <2>1, <3>1, <3>2, PlainHas
  <2> QED BY <2>1, <2>2, <2>3 DEF Readable
<1>7. Whole
  <2>1. CASE \E c \in 1 .. Columns : BreaksLine(c)
    BY <1>b, <2>1 DEF Whole
  <2>2. CASE ~\E c \in 1 .. Columns : BreaksLine(c)
    <3>1. ASSUME NEW cell \in Cells PROVE ~HasByte({NL}, cell)
      <4>1. PICK i \in DOMAIN csv, c \in 1 .. Columns : cell = csv[i][c]
        BY DEF Cells
      <4>2. ~BreaksLine(c)
        BY <2>2
      <4>3. ~HasByte({NL}, csv[i][c])
        BY <1>c, <4>2
      <4> QED BY <4>1, <4>3
    <3>2. NoBreak
      BY <3>1 DEF NoBreak
    <3> QED BY <3>2 DEF Whole
  <2> QED BY <2>1, <2>2
<1>8. CanRead(at, m)
  BY <1>2, <1>4, <1>5, <1>6 DEF CanRead
<1>9. result = [i \in 1 .. Len(csv) |-> RowAt(i)]
  BY <1>1, <1>7, <1>8 DEF CsvInvariant, RowsRead
<1>10. ASSUME NEW i \in 1 .. Len(csv)
       PROVE  RowAt(i) = [c \in DOMAIN types |-> IF c \in Needed THEN Seen(csv[i][c]) ELSE Unread]
  <2>1. \A c \in Needed : Takes(types[c], c)
    BY <1>4 DEF Takes, Fitted
  <2>2. RowAt(i) = SeenAt(i)
    BY <1>2, <1>4, <2>1, RowIsSeen
  <2> QED BY <2>2 DEF SeenAt
<1> QED BY <1>2, <1>9, <1>10

(* The invariant holds always.                                             *)
LEMMA CsvAlways == CsvSpec => []CsvInvariant
BY CsvStarts, CsvSteps, PTL DEF CsvSpec

(* Theorem: for all tables, columns and forms of a file, what COPY TO      *)
(* wrote COPY FROM reads, cell for cell.                                   *)
THEOREM CopiesRoundTrip == CsvSpec => []CopyRoundTrip
BY CsvAlways, CopiesAreRight, PTL

(* Theorem: for all tables, columns, projections and numbers of threads a  *)
(* query sees the same cells, and counts as many rows.                     *)
THEOREM ScansAlwaysAgree == CsvSpec => []ScansAgree
<1>1. CsvInvariant => ScansAgree
  BY ScansAreRight, CountsAreRight DEF ScansAgree
<1> QED BY <1>1, CsvAlways, PTL
=============================================================================
