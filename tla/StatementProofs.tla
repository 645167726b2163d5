-------------------------- MODULE StatementProofs ---------------------------
(***************************************************************************)
(* For every table, chunk size and number of connections: a statement that *)
(* runs alone leaves the primary key unique, and has its whole effect or,  *)
(* when it throws, none; a copy that throws leaves whole chunks. And for   *)
(* every recursive query: what its statements append is all that follows;  *)
(* for every hash join: its chunks are the join of its inputs; for every   *)
(* chain of set operations: how often each row is returned, and in order.  *)
(***************************************************************************)
EXTENDS TableWrites, RecursiveQuery, HashJoin, SetOperations, SequenceLemmas, FiniteSetTheorems

-----------------------------------------------------------------------------
(* The rows with some keys                                                 *)

KeptStep(s, some, kept) ==
  kept = [n \in 0 .. Len(s) |->
            IF n = 0 THEN <<>>
            ELSE IF s[n].key \in some THEN Append(kept[n - 1], s[n]) ELSE kept[n - 1]]

LEMMA OnlyKeysSteps ==
  ASSUME NEW s \in Seq(AnyRow), NEW some
  PROVE  \E kept \in [0 .. Len(s) -> Seq(AnyRow)] :
           KeptStep(s, some, kept) /\ OnlyKeys(s, some) = kept[Len(s)]
<1> DEFINE S == Seq(AnyRow)
           N == Len(s)
           step == [n \in Nat |-> [p \in S |-> IF n \in 1 .. N /\ s[n].key \in some
                                               THEN Append(p, s[n]) ELSE p]]
<1>1. N \in Nat /\ <<>> \in S /\ step \in [Nat -> [S -> S]]
  OBVIOUS
<1>2. PICK f : Computes(f, <<>>, step, S, N)
  <2> HIDE DEF step, N, S
  <2> QED BY <1>1, Recursion
<1> USE DEF Computes
<1>3. \A n \in 1 .. N : f[n] = IF s[n].key \in some THEN Append(f[n - 1], s[n]) ELSE f[n - 1]
  <2> SUFFICES ASSUME NEW n \in 1 .. N
               PROVE  f[n] = IF s[n].key \in some THEN Append(f[n - 1], s[n]) ELSE f[n - 1]
    OBVIOUS
  <2>1. f[n - 1] \in S /\ n \in Nat
    <3>1. n - 1 \in 0 .. N /\ n \in Nat
      BY <1>1
    <3> HIDE DEF S, N
    <3> QED BY <1>2, <3>1
  <2> QED BY <1>2, <2>1
<1>4. KeptStep(s, some, f)
  <2>1. \A n \in 0 .. N : n # 0 => n \in 1 .. N
    BY <1>1
  <2>2. f \in [0 .. N -> S] /\ f[0] = <<>>
    BY <1>2
  <2> HIDE DEF step, Computes
  <2> QED BY <2>1, <2>2, <1>3 DEF KeptStep
<1> DEFINE h == CHOOSE q : KeptStep(s, some, q)
<1>5. KeptStep(s, some, h)
  BY <1>4
<1>6. OnlyKeys(s, some) = h[N]
  BY DEF OnlyKeys, KeptStep
<1>7. \A n \in Nat : n \in 0 .. N => h[n] \in S
  <2> DEFINE G == {n \in Nat : n \in 0 .. N => h[n] \in S}
  <2> HIDE DEF h
  <2>1. 0 \in G
    BY <1>1, <1>5 DEF KeptStep
  <2>2. ASSUME NEW n \in Nat, n \in G PROVE n + 1 \in G
    <3> SUFFICES ASSUME n + 1 \in 0 .. N PROVE h[n + 1] \in S
      OBVIOUS
    <3>1. n \in 0 .. N /\ n + 1 \in 1 .. N /\ n + 1 # 0 /\ (n + 1) - 1 = n
      BY <1>1
    <3>2. h[n + 1] = IF s[n + 1].key \in some THEN Append(h[n], s[n + 1]) ELSE h[n]
      BY <3>1, <1>5 DEF KeptStep
    <3>3. h[n] \in S /\ s[n + 1] \in AnyRow
      BY <3>1, <2>2
    <3> QED BY <3>2, <3>3
  <2>3. \A n \in Nat : n \in G
    <3> HIDE DEF G
    <3> QED BY <2>1, <2>2, Induction
  <2> QED BY <2>3
<1> HIDE DEF h
<1>8. h \in [0 .. N -> S]
  BY <1>1, <1>5, <1>7 DEF KeptStep
<1> QED BY <1>5, <1>6, <1>8

LEMMA OnlyKeysType ==
  ASSUME NEW s \in Seq(AnyRow), NEW some PROVE OnlyKeys(s, some) \in Seq(AnyRow)
<1>1. Len(s) \in 0 .. Len(s)
  OBVIOUS
<1> QED BY <1>1, OnlyKeysSteps

LEMMA OnlyKeysEmpty == ASSUME NEW some PROVE OnlyKeys(<<>>, some) = <<>>
<1>1. <<>> \in Seq(AnyRow) /\ Len(<<>>) = 0 /\ 0 \in 0 .. 0
  OBVIOUS
<1> DEFINE e == <<>>
<1> HIDE DEF e
<1>2. e \in Seq(AnyRow) /\ Len(e) = 0
  BY <1>1 DEF e
<1>3. PICK kept : KeptStep(e, some, kept) /\ OnlyKeys(e, some) = kept[Len(e)]
  BY <1>2, OnlyKeysSteps
<1> QED BY <1>1, <1>2, <1>3 DEF KeptStep, e

LEMMA OnlyKeysAppend ==
  ASSUME NEW s \in Seq(AnyRow), NEW e \in AnyRow, NEW some
  PROVE  OnlyKeys(Append(s, e), some) =
           IF e.key \in some THEN Append(OnlyKeys(s, some), e) ELSE OnlyKeys(s, some)
<1> DEFINE t == Append(s, e)
           N == Len(s)
<1>1. /\ t \in Seq(AnyRow) /\ Len(t) = N + 1 /\ N \in Nat
      /\ t[N + 1] = e /\ \A n \in 1 .. N : t[n] = s[n]
  OBVIOUS
<1> HIDE DEF t
<1>2. PICK f : KeptStep(s, some, f) /\ OnlyKeys(s, some) = f[Len(s)]
  BY OnlyKeysSteps
<1>3. PICK g : KeptStep(t, some, g) /\ OnlyKeys(t, some) = g[Len(t)]
  BY <1>1, OnlyKeysSteps
<1> DEFINE Next1(h, u, n) == h[n] = IF u[n].key \in some THEN Append(h[n - 1], u[n]) ELSE h[n - 1]
<1>4. f[0] = <<>> /\ g[0] = <<>>
  BY <1>1, <1>2, <1>3 DEF KeptStep
<1>5. \A n \in 1 .. N : Next1(f, s, n)
  <2>1. \A n \in 1 .. N : n \in 0 .. N /\ n # 0
    OBVIOUS
  <2> QED BY <2>1, <1>2 DEF KeptStep
<1>6. \A n \in 1 .. N + 1 : Next1(g, t, n)
  <2>1. \A n \in 1 .. N + 1 : n \in 0 .. Len(t) /\ n # 0
    BY <1>1
  <2> QED BY <2>1, <1>3 DEF KeptStep
<1> HIDE DEF N
<1>7. f[N] = g[N]
  <2> DEFINE G == {m \in Nat : m \in 0 .. N => f[m] = g[m]}
  <2>1. 0 \in G
    BY <1>4
  <2>2. ASSUME NEW n \in Nat, n \in G PROVE n + 1 \in G
    <3> SUFFICES ASSUME n + 1 \in 0 .. N PROVE f[n + 1] = g[n + 1]
      OBVIOUS
    <3>1. n \in 0 .. N /\ n + 1 \in 1 .. N /\ n + 1 \in 1 .. N + 1 /\ (n + 1) - 1 = n
      BY <1>1
    <3>2. Next1(f, s, n + 1) /\ Next1(g, t, n + 1) /\ t[n + 1] = s[n + 1] /\ f[n] = g[n]
      BY <3>1, <1>1, <1>5, <1>6, <2>2
    <3> QED BY <3>1, <3>2
  <2>3. \A n \in Nat : n \in G
    <3> HIDE DEF G
    <3> QED BY <2>1, <2>2, Induction
  <2> QED BY <1>1, <2>3
<1>8. N + 1 \in 1 .. N + 1 /\ (N + 1) - 1 = N
  BY <1>1
<1>9. Next1(g, t, N + 1)
  BY <1>6, <1>8
<1> QED BY <1>1, <1>2, <1>3, <1>7, <1>8, <1>9 DEF t, N

(* They are rows of the sequence, in their order.                          *)
LEMMA OnlyKeysRows ==
  ASSUME NEW s \in Seq(AnyRow), NEW some
  PROVE  \A i \in DOMAIN OnlyKeys(s, some) :
           /\ OnlyKeys(s, some)[i].key \in some
           /\ \E j \in DOMAIN s : OnlyKeys(s, some)[i] = s[j]
<1> DEFINE Of(u) == \A i \in DOMAIN OnlyKeys(u, some) :
                      /\ OnlyKeys(u, some)[i].key \in some
                      /\ \E j \in DOMAIN u : OnlyKeys(u, some)[i] = u[j]
           G == {u \in Seq(AnyRow) : Of(u)}
<1>1. <<>> \in G
  BY OnlyKeysEmpty
<1>2. ASSUME NEW u \in Seq(AnyRow), NEW e \in AnyRow, u \in G PROVE Append(u, e) \in G
  <2> DEFINE k == OnlyKeys(u, some)
  <2>1. k \in Seq(AnyRow)
    BY OnlyKeysType
  <2>2. OnlyKeys(Append(u, e), some) = IF e.key \in some THEN Append(k, e) ELSE k
    BY OnlyKeysAppend
  <2>3. \A i \in DOMAIN k : k[i].key \in some /\ \E j \in DOMAIN u : k[i] = u[j]
    BY <1>2
  <2> HIDE DEF k
  <2>4. SUFFICES ASSUME NEW i \in DOMAIN OnlyKeys(Append(u, e), some)
                 PROVE  LET r == OnlyKeys(Append(u, e), some)[i]
                        IN  r.key \in some /\ \E j \in DOMAIN Append(u, e) : r = Append(u, e)[j]
    <3>1. Append(u, e) \in Seq(AnyRow)
      OBVIOUS
    <3> QED BY <2>4, <3>1
  <2>5. /\ \A j \in DOMAIN u : j \in DOMAIN Append(u, e) /\ Append(u, e)[j] = u[j]
        /\ Len(u) + 1 \in DOMAIN Append(u, e) /\ Append(u, e)[Len(u) + 1] = e
    OBVIOUS
  <2>6. CASE e.key \in some /\ i = Len(k) + 1
    BY <2>1, <2>2, <2>5, <2>6
  <2>7. CASE i \in DOMAIN k
    <3>1. OnlyKeys(Append(u, e), some)[i] = k[i]
      BY <2>1, <2>2, <2>7
    <3> QED BY <2>3, <2>5, <2>7, <3>1
  <2>8. i \in DOMAIN k \/ (e.key \in some /\ i = Len(k) + 1)
    BY <2>1, <2>2
  <2> QED BY <2>6, <2>7, <2>8
<1>3. \A u \in Seq(AnyRow) : u \in G
  <2> HIDE DEF G
  <2> QED BY <1>1, <1>2, SequenceInduction
<1> QED BY <1>3

LEMMA OnlyKeysTwice ==
  ASSUME NEW s \in Seq(AnyRow), NEW some, NEW others
  PROVE  OnlyKeys(OnlyKeys(s, some), others) = OnlyKeys(s, some \cap others)
<1> DEFINE G == {u \in Seq(AnyRow) :
                   OnlyKeys(OnlyKeys(u, some), others) = OnlyKeys(u, some \cap others)}
<1>1. <<>> \in G
  BY OnlyKeysEmpty
<1>2. ASSUME NEW u \in Seq(AnyRow), NEW e \in AnyRow, u \in G PROVE Append(u, e) \in G
  <2>1. OnlyKeys(u, some) \in Seq(AnyRow)
    BY OnlyKeysType
  <2>2. Append(u, e) \in Seq(AnyRow)
    OBVIOUS
  <2> DEFINE k == OnlyKeys(u, some)
  <2>3. OnlyKeys(Append(u, e), some) = IF e.key \in some THEN Append(k, e) ELSE k
    BY OnlyKeysAppend
  <2>4. OnlyKeys(Append(k, e), others) =
          IF e.key \in others THEN Append(OnlyKeys(k, others), e) ELSE OnlyKeys(k, others)
    BY <2>1, OnlyKeysAppend
  <2>5. OnlyKeys(Append(u, e), some \cap others) =
          IF e.key \in some \cap others THEN Append(OnlyKeys(u, some \cap others), e)
          ELSE OnlyKeys(u, some \cap others)
    BY OnlyKeysAppend
  <2>6. OnlyKeys(k, others) = OnlyKeys(u, some \cap others)
    BY <1>2
  <2> HIDE DEF k
  <2>7. OnlyKeys(OnlyKeys(Append(u, e), some), others) = OnlyKeys(Append(u, e), some \cap others)
    <3>1. CASE e.key \in some
      <4>1. OnlyKeys(Append(u, e), some) = Append(k, e)
        BY <2>3, <3>1
      <4>2. e.key \in others <=> e.key \in some \cap others
        BY <3>1
      <4> QED BY <2>4, <2>5, <2>6, <4>1, <4>2
    <3>2. CASE e.key \notin some
      <4>1. OnlyKeys(Append(u, e), some) = k
        BY <2>3, <3>2
      <4> QED BY <2>5, <2>6, <3>2, <4>1
    <3> QED BY <3>1, <3>2
  <2> QED BY <2>2, <2>7
<1>3. \A u \in Seq(AnyRow) : u \in G
  <2> HIDE DEF G
  <2> QED BY <1>1, <1>2, SequenceInduction
<1> QED BY <1>3

LEMMA OnlyKeysNone == ASSUME NEW s \in Seq(AnyRow) PROVE OnlyKeys(s, {}) = <<>>
<1> DEFINE G == {u \in Seq(AnyRow) : OnlyKeys(u, {}) = <<>>}
<1>1. <<>> \in G
  BY OnlyKeysEmpty
<1>2. ASSUME NEW u \in Seq(AnyRow), NEW e \in AnyRow, u \in G PROVE Append(u, e) \in G
  <2>1. OnlyKeys(Append(u, e), {}) = IF e.key \in {} THEN Append(OnlyKeys(u, {}), e) ELSE OnlyKeys(u, {})
    BY OnlyKeysAppend
  <2>2. Append(u, e) \in Seq(AnyRow)
    OBVIOUS
  <2> QED BY <1>2, <2>1, <2>2
<1>3. \A u \in Seq(AnyRow) : u \in G
  <2> HIDE DEF G
  <2> QED BY <1>1, <1>2, SequenceInduction
<1> QED BY <1>3

UniqueKeys(s) == \A i, j \in DOMAIN s : s[i].key = s[j].key => i = j

LEMMA OnlyKeysUnique ==
  ASSUME NEW s \in Seq(AnyRow), NEW some, UniqueKeys(s)
  PROVE  UniqueKeys(OnlyKeys(s, some))
<1> DEFINE G == {u \in Seq(AnyRow) : UniqueKeys(u) => UniqueKeys(OnlyKeys(u, some))}
<1>1. <<>> \in G
  BY OnlyKeysEmpty DEF UniqueKeys
<1>2. ASSUME NEW u \in Seq(AnyRow), NEW e \in AnyRow, u \in G PROVE Append(u, e) \in G
  <2> SUFFICES ASSUME UniqueKeys(Append(u, e)) PROVE UniqueKeys(OnlyKeys(Append(u, e), some))
    OBVIOUS
  <2> DEFINE k == OnlyKeys(u, some)
  <2>1. k \in Seq(AnyRow) /\ \A i \in DOMAIN k : \E j \in DOMAIN u : k[i] = u[j]
    BY OnlyKeysType, OnlyKeysRows
  <2>2. OnlyKeys(Append(u, e), some) = IF e.key \in some THEN Append(k, e) ELSE k
    BY OnlyKeysAppend
  <2>3. /\ \A j \in DOMAIN u : j \in DOMAIN Append(u, e) /\ Append(u, e)[j] = u[j] /\ j # Len(u) + 1
        /\ Len(u) + 1 \in DOMAIN Append(u, e) /\ Append(u, e)[Len(u) + 1] = e
    OBVIOUS
  <2>4. UniqueKeys(u) /\ \A j \in DOMAIN u : u[j].key # e.key
    BY <2>3 DEF UniqueKeys
  <2>5. UniqueKeys(k)
    BY <1>2, <2>4
  <2>6. \A i \in DOMAIN k : k[i].key # e.key
    BY <2>1, <2>4
  <2> HIDE DEF k
  <2>7. UniqueKeys(Append(k, e))
    BY <2>1, <2>5, <2>6 DEF UniqueKeys
  <2> QED BY <2>2, <2>5, <2>7
<1>3. \A u \in Seq(AnyRow) : u \in G
  <2> HIDE DEF G
  <2> QED BY <1>1, <1>2, SequenceInduction
<1> QED BY <1>3
-----------------------------------------------------------------------------
(* Merging the source into a table                                         *)

LEMMA MergeRowType ==
  ASSUME NEW t \in Seq(AnyRow), NEW r \in AnyRow PROVE MergeRow(t, r) \in Seq(AnyRow)
<1>1. CASE r.key \in Keys(t)
  <2>1. \A i \in 1 .. Len(t) : t[i] \in AnyRow
    OBVIOUS
  <2>2. MergeRow(t, r) = [i \in 1 .. Len(t) |-> IF t[i].key = r.key THEN r ELSE t[i]]
    BY <1>1 DEF MergeRow
  <2>3. Len(t) \in Nat
    OBVIOUS
  <2>4. [i \in 1 .. Len(t) |-> IF t[i].key = r.key THEN r ELSE t[i]] \in Seq(AnyRow)
    <3> HIDE DEF AnyRow
    <3> QED BY <2>1, <2>3
  <2> QED BY <2>2, <2>4
<1>2. CASE r.key \notin Keys(t)
  BY <1>2 DEF MergeRow
<1> QED BY <1>1, <1>2

MergeStep(s, target) ==
  target = [n \in 0 .. Len(source) |-> IF n = 0 THEN s ELSE MergeRow(target[n - 1], source[n])]

LEMMA MergeSteps ==
  ASSUME source \in Seq(AnyRow), NEW s \in Seq(AnyRow)
  PROVE  \E target \in [0 .. Len(source) -> Seq(AnyRow)] :
           MergeStep(s, target) /\ MergedRows(s) = target[Len(source)]
<1> DEFINE S == Seq(AnyRow)
           N == Len(source)
           step == [n \in Nat |-> [p \in S |-> IF n \in 1 .. N THEN MergeRow(p, source[n]) ELSE p]]
<1>1. N \in Nat /\ s \in S /\ step \in [Nat -> [S -> S]] /\ \A n \in 1 .. N : source[n] \in AnyRow
  <2>1. N \in Nat /\ s \in S /\ \A n \in 1 .. N : source[n] \in AnyRow
    OBVIOUS
  <2>2. \A n \in 1 .. N : \A p \in S : MergeRow(p, source[n]) \in S
    BY <2>1, MergeRowType
  <2> HIDE DEF S, N
  <2> QED BY <2>1, <2>2
<1>2. PICK f : Computes(f, s, step, S, N)
  <2> HIDE DEF step, N, S
  <2> QED BY <1>1, Recursion
<1> USE DEF Computes
<1>3. \A n \in 1 .. N : f[n] = MergeRow(f[n - 1], source[n])
  <2> SUFFICES ASSUME NEW n \in 1 .. N PROVE f[n] = MergeRow(f[n - 1], source[n])
    OBVIOUS
  <2>1. f[n - 1] \in S /\ n \in Nat
    <3>1. n - 1 \in 0 .. N /\ n \in Nat
      BY <1>1
    <3> HIDE DEF S, N
    <3> QED BY <1>2, <3>1
  <2> QED BY <1>2, <2>1
<1>4. MergeStep(s, f)
  <2>1. \A n \in 0 .. N : n # 0 => n \in 1 .. N
    BY <1>1
  <2>2. f \in [0 .. N -> S] /\ f[0] = s
    BY <1>2
  <2> HIDE DEF step, Computes
  <2> QED BY <2>1, <2>2, <1>3 DEF MergeStep
<1> DEFINE h == CHOOSE q : MergeStep(s, q)
<1>5. MergeStep(s, h)
  BY <1>4
<1>6. MergedRows(s) = h[N]
  BY DEF MergedRows, MergeStep
<1>7. \A n \in Nat : n \in 0 .. N => h[n] \in S
  <2> DEFINE G == {n \in Nat : n \in 0 .. N => h[n] \in S}
  <2> HIDE DEF h
  <2>1. 0 \in G
    BY <1>1, <1>5 DEF MergeStep
  <2>2. ASSUME NEW n \in Nat, n \in G PROVE n + 1 \in G
    <3> SUFFICES ASSUME n + 1 \in 0 .. N PROVE h[n + 1] \in S
      OBVIOUS
    <3>1. n \in 0 .. N /\ n + 1 \in 1 .. N /\ n + 1 # 0 /\ (n + 1) - 1 = n
      BY <1>1
    <3>2. h[n + 1] = MergeRow(h[n], source[n + 1])
      BY <3>1, <1>5 DEF MergeStep
    <3>3. h[n] \in S /\ source[n + 1] \in AnyRow
      BY <3>1, <2>2
    <3> QED BY <3>2, <3>3, MergeRowType
  <2>3. \A n \in Nat : n \in G
    <3> HIDE DEF G
    <3> QED BY <2>1, <2>2, Induction
  <2> QED BY <2>3
<1> HIDE DEF h
<1>8. h \in [0 .. N -> S]
  <2>1. h = [n \in 0 .. N |-> h[n]]
    BY <1>5 DEF MergeStep
  <2>2. \A n \in 0 .. N : h[n] \in S
    BY <1>1, <1>7
  <2> HIDE DEF N, S
  <2> QED BY <2>1, <2>2
<1> QED BY <1>5, <1>6, <1>8

(* What the target is after some of the source rows.                       *)
KeysUpto(n) == {source[m].key : m \in 1 .. n}

LastUpto(k, n, r) == \E m \in 1 .. n : /\ source[m] = r /\ r.key = k
                                       /\ \A j \in 1 .. n : j > m => source[j].key # k

MergedUpto(s, t, n) ==
  /\ Len(t) >= Len(s)
  /\ Keys(t) = Keys(s) \cup KeysUpto(n)
  /\ \A i \in DOMAIN t : IF t[i].key \in KeysUpto(n) THEN LastUpto(t[i].key, n, t[i])
                         ELSE i \in DOMAIN s /\ t[i] = s[i]
  /\ \A i, j \in DOMAIN t : i < j /\ t[i].key = t[j].key => j \in DOMAIN s
  /\ UniqueKeys(s) => UniqueKeys(t)

LEMMA MergeRowUpto ==
  ASSUME source \in Seq(AnyRow), NEW s \in Seq(AnyRow), NEW t \in Seq(AnyRow),
         NEW n \in Nat, n + 1 \in DOMAIN source, MergedUpto(s, t, n)
  PROVE  MergedUpto(s, MergeRow(t, source[n + 1]), n + 1)
<1> DEFINE r == source[n + 1]
           u == MergeRow(t, r)
<1>1. r \in AnyRow
  OBVIOUS
<1>2. u \in Seq(AnyRow)
  BY <1>1, MergeRowType
<1>3. KeysUpto(n + 1) = KeysUpto(n) \cup {r.key}
  <2>1. 1 .. n + 1 = (1 .. n) \cup {n + 1}
    OBVIOUS
  <2> QED BY <2>1 DEF KeysUpto
<1>4. LastUpto(r.key, n + 1, r)
  <2>1. n + 1 \in 1 .. n + 1 /\ \A j \in 1 .. n + 1 : ~(j > n + 1)
    OBVIOUS
  <2> QED BY <2>1 DEF LastUpto
<1>5. ASSUME NEW k, NEW q, k # r.key, LastUpto(k, n, q) PROVE LastUpto(k, n + 1, q)
  <2>1. PICK m \in 1 .. n : /\ source[m] = q /\ q.key = k
                            /\ \A j \in 1 .. n : j > m => source[j].key # k
    BY <1>5 DEF LastUpto
  <2>2. m \in 1 .. n + 1 /\ \A j \in 1 .. n + 1 : j \in 1 .. n \/ j = n + 1
    OBVIOUS
  <2>3. \A j \in 1 .. n + 1 : j > m => source[j].key # k
    BY <1>5, <2>1, <2>2
  <2> QED BY <2>1, <2>2, <2>3 DEF LastUpto
<1> HIDE DEF r
<1>6. CASE r.key \in Keys(t)
  <2>1. /\ DOMAIN u = DOMAIN t /\ Len(u) = Len(t)
        /\ \A i \in DOMAIN t : /\ u[i] = IF t[i].key = r.key THEN r ELSE t[i]
                               /\ u[i].key = t[i].key
    <3>1. u = [i \in DOMAIN t |-> IF t[i].key = r.key THEN r ELSE t[i]]
      BY <1>6 DEF MergeRow
    <3>2. DOMAIN u = DOMAIN t
      BY <3>1
    <3>3. Len(u) = Len(t)
      <4> HIDE DEF u
      <4> QED BY <1>2, <3>2
    <3> QED BY <3>1, <3>2, <3>3
  <2> HIDE DEF u
  <2>2. Keys(u) = Keys(t)
    BY <2>1 DEF Keys
  <2>3. Keys(u) = Keys(s) \cup KeysUpto(n + 1)
    BY <1>3, <1>6, <2>2 DEF MergedUpto
  <2>4. ASSUME NEW i \in DOMAIN u
        PROVE  IF u[i].key \in KeysUpto(n + 1) THEN LastUpto(u[i].key, n + 1, u[i])
               ELSE i \in DOMAIN s /\ u[i] = s[i]
    <3>1. CASE t[i].key = r.key
      BY <1>3, <1>4, <2>1, <2>4, <3>1
    <3>2. CASE t[i].key # r.key
      <4>1. u[i] = t[i] /\ (u[i].key \in KeysUpto(n + 1) <=> t[i].key \in KeysUpto(n))
        BY <1>3, <2>1, <2>4, <3>2
      <4>2. CASE t[i].key \in KeysUpto(n)
        <5>1. LastUpto(t[i].key, n, t[i])
          BY <2>1, <2>4, <4>2 DEF MergedUpto
        <5> QED BY <1>5, <3>2, <4>1, <4>2, <5>1
      <4>3. CASE t[i].key \notin KeysUpto(n)
        BY <2>1, <2>4, <4>1, <4>3 DEF MergedUpto
      <4> QED BY <4>2, <4>3
    <3> QED BY <3>1, <3>2
  <2>5. \A i, j \in DOMAIN u : i < j /\ u[i].key = u[j].key => j \in DOMAIN s
    BY <2>1 DEF MergedUpto
  <2>6. UniqueKeys(s) => UniqueKeys(u)
    BY <2>1 DEF MergedUpto, UniqueKeys
  <2>7. Len(u) >= Len(s)
    BY <2>1 DEF MergedUpto
  <2> QED BY <2>3, <2>4, <2>5, <2>6, <2>7 DEF MergedUpto, u, r
<1>7. CASE r.key \notin Keys(t)
  <2>1. /\ DOMAIN u = DOMAIN t \cup {Len(t) + 1} /\ Len(u) = Len(t) + 1
        /\ u[Len(t) + 1] = r /\ \A i \in DOMAIN t : i # Len(t) + 1 /\ i < Len(t) + 1 /\ u[i] = t[i]
    <3>1. u = Append(t, r)
      BY <1>7 DEF MergeRow
    <3> HIDE DEF u
    <3> QED BY <1>1, <3>1 DEF r
  <2> HIDE DEF u
  <2>2. \A i \in DOMAIN t : t[i].key # r.key
    BY <1>7 DEF Keys
  <2>3. Keys(u) = Keys(t) \cup {r.key}
    BY <2>1 DEF Keys
  <2>4. Keys(u) = Keys(s) \cup KeysUpto(n + 1)
    BY <1>3, <2>3 DEF MergedUpto
  <2>5. ASSUME NEW i \in DOMAIN u
        PROVE  IF u[i].key \in KeysUpto(n + 1) THEN LastUpto(u[i].key, n + 1, u[i])
               ELSE i \in DOMAIN s /\ u[i] = s[i]
    <3>1. CASE i = Len(t) + 1
      BY <1>3, <1>4, <2>1, <3>1
    <3>2. CASE i \in DOMAIN t
      <4>1. u[i] = t[i] /\ (u[i].key \in KeysUpto(n + 1) <=> t[i].key \in KeysUpto(n))
        BY <1>3, <2>1, <2>2, <3>2
      <4>2. CASE t[i].key \in KeysUpto(n)
        <5>1. LastUpto(t[i].key, n, t[i])
          BY <3>2, <4>2 DEF MergedUpto
        <5> QED BY <1>5, <2>2, <3>2, <4>1, <4>2, <5>1
      <4>3. CASE t[i].key \notin KeysUpto(n)
        BY <3>2, <4>1, <4>3 DEF MergedUpto
      <4> QED BY <4>2, <4>3
    <3> QED BY <2>1, <2>5, <3>1, <3>2
  <2>6. ASSUME NEW i \in DOMAIN u, NEW j \in DOMAIN u, i < j, u[i].key = u[j].key
        PROVE  j \in DOMAIN s
    <3>1. i \in DOMAIN t
      BY <2>1, <2>6
    <3>2. j # Len(t) + 1
      BY <2>1, <2>2, <2>6, <3>1
    <3> QED BY <2>1, <2>6, <3>1, <3>2 DEF MergedUpto
  <2>7. UniqueKeys(s) => UniqueKeys(u)
    BY <2>1, <2>2 DEF MergedUpto, UniqueKeys
  <2>8. Len(u) >= Len(s)
    BY <2>1 DEF MergedUpto
  <2> QED BY <2>4, <2>5, <2>6, <2>7, <2>8 DEF MergedUpto, u, r
<1> QED BY <1>6, <1>7

LEMMA MergedAll ==
  ASSUME source \in Seq(AnyRow), NEW s \in Seq(AnyRow)
  PROVE  MergedRows(s) \in Seq(AnyRow) /\ MergedUpto(s, MergedRows(s), Len(source))
<1> DEFINE N == Len(source)
<1>1. PICK target \in [0 .. N -> Seq(AnyRow)] : MergeStep(s, target) /\ MergedRows(s) = target[N]
  BY MergeSteps
<1>2. N \in Nat /\ DOMAIN source = 1 .. N
  OBVIOUS
<1>3. target[0] = s /\ \A n \in 1 .. N : target[n] = MergeRow(target[n - 1], source[n])
  <2>1. 0 \in 0 .. N /\ \A n \in 1 .. N : n \in 0 .. N /\ n # 0
    BY <1>2
  <2> QED BY <1>1, <2>1 DEF MergeStep
<1> HIDE DEF N
<1> DEFINE G == {n \in Nat : n \in 0 .. N => MergedUpto(s, target[n], n)}
<1>4. 0 \in G
  <2>1. KeysUpto(0) = {}
    BY DEF KeysUpto
  <2>2. MergedUpto(s, s, 0)
    <3>1. Keys(s) = Keys(s) \cup KeysUpto(0)
      BY <2>1
    <3>2. \A i, j \in DOMAIN s : i < j /\ s[i].key = s[j].key => j \in DOMAIN s
      OBVIOUS
    <3>3. Len(s) >= Len(s)
      OBVIOUS
    <3> QED BY <2>1, <3>1, <3>2, <3>3 DEF MergedUpto
  <2> QED BY <1>3, <2>2
<1>5. ASSUME NEW n \in Nat, n \in G PROVE n + 1 \in G
  <2> SUFFICES ASSUME n + 1 \in 0 .. N PROVE MergedUpto(s, target[n + 1], n + 1)
    OBVIOUS
  <2>1. n \in 0 .. N /\ n + 1 \in 1 .. N /\ (n + 1) - 1 = n
    BY <1>2
  <2>2. target[n] \in Seq(AnyRow) /\ MergedUpto(s, target[n], n)
    BY <1>1, <1>5, <2>1
  <2>3. MergedUpto(s, MergeRow(target[n], source[n + 1]), n + 1)
    BY <1>2, <2>1, <2>2, MergeRowUpto
  <2> QED BY <1>3, <2>1, <2>3
<1>6. \A n \in Nat : n \in G
  <2> HIDE DEF G
  <2> QED BY <1>4, <1>5, Induction
<1> QED BY <1>1, <1>2, <1>6 DEF N

LEMMA StoredRow ==
  ASSUME NEW r \in AnyRow
  PROVE  Stored(r) \in AnyRow /\ Stored(r).key = r.key /\ Stored(r) \notin TooBig
BY TableWritesAssumption DEF Stored, AnyRow

LEMMA MergedRow ==
  ASSUME source \in Seq(AnyRow), NEW s \in Seq(AnyRow)
  PROVE  /\ Merged(s) \in Seq(AnyRow)
         /\ DOMAIN Merged(s) = DOMAIN MergedRows(s)
         /\ \A i \in DOMAIN Merged(s) : /\ Merged(s)[i] = Stored(MergedRows(s)[i])
                                        /\ Merged(s)[i].key = MergedRows(s)[i].key
                                        /\ Merged(s)[i] \notin TooBig
<1> DEFINE t == MergedRows(s)
<1>1. t \in Seq(AnyRow)
  BY MergedAll
<1>2. Merged(s) = [i \in DOMAIN t |-> Stored(t[i])]
  BY DEF Merged
<1> HIDE DEF t
<1>3. \A i \in DOMAIN t : /\ Stored(t[i]) \in AnyRow /\ Stored(t[i]).key = t[i].key
                         /\ Stored(t[i]) \notin TooBig
  BY <1>1, StoredRow
<1>4. Merged(s) \in Seq(AnyRow)
  <2>1. DOMAIN t = 1 .. Len(t) /\ Len(t) \in Nat
    BY <1>1
  <2> HIDE DEF AnyRow
  <2> QED BY <1>2, <1>3, <2>1
<1> QED BY <1>2, <1>3, <1>4 DEF t

LEMMA LastOne ==
  ASSUME source \in Seq(AnyRow), NEW k, NEW r, LastUpto(k, Len(source), r)
  PROVE  r = LastOf(k)
<1> DEFINE P(m) == source[m].key = k /\ \A j \in DOMAIN source : j > m => source[j].key # k
           at == CHOOSE m \in DOMAIN source : P(m)
<1>1. PICK m \in DOMAIN source : source[m] = r /\ P(m)
  BY DEF LastUpto
<1>2. at \in DOMAIN source /\ P(at)
  BY <1>1
<1>3. LastOf(k) = source[at]
  BY DEF LastOf
<1> HIDE DEF at
<1>4. m = at
  <2>1. m \in Nat /\ at \in Nat
    BY <1>1, <1>2
  <2>2. ~(m > at) /\ ~(at > m)
    BY <1>1, <1>2
  <2> QED BY <2>1, <2>2
<1> QED BY <1>1, <1>3, <1>4

-----------------------------------------------------------------------------
(* What UPDATE, DELETE and MERGE build                                     *)

Fit(s) == \A i \in DOMAIN s : s[i] \notin TooBig

Building == {stmt \in AnyStatement : stmt.op \in {"update", "delete", "merge"}}

LEMMA Updates ==
  ASSUME NEW stmt \in AnyStatement, stmt.op = "update", NEW s \in Seq(AnyRow)
  PROVE  /\ Result(stmt, s) \in Seq(AnyRow) /\ Len(Result(stmt, s)) = Len(s)
         /\ \A i \in DOMAIN s :
              Result(stmt, s)[i] = IF s[i].key = stmt.where
                                   THEN [s[i] EXCEPT ![stmt.col] = stmt.to] ELSE s[i]
<1> DEFINE u(i) == IF s[i].key = stmt.where THEN [s[i] EXCEPT ![stmt.col] = stmt.to] ELSE s[i]
<1>1. Result(stmt, s) = [i \in DOMAIN s |-> u(i)]
  BY DEF Result, Updated
<1>2. \/ stmt.col = "key" /\ stmt.to \in AnyKey
      \/ stmt.col = "val" /\ stmt.to \in AnyVal
  BY DEF AnyStatement
<1>3. \A i \in DOMAIN s : u(i) \in AnyRow
  <2> SUFFICES ASSUME NEW i \in DOMAIN s PROVE u(i) \in AnyRow
    OBVIOUS
  <2>1. s[i] \in AnyRow
    OBVIOUS
  <2> QED BY <1>2, <2>1 DEF AnyRow
<1>4. DOMAIN s = 1 .. Len(s) /\ Len(s) \in Nat
  OBVIOUS
<1> HIDE DEF u, AnyRow
<1>5. [i \in DOMAIN s |-> u(i)] \in Seq(AnyRow) /\ Len([i \in DOMAIN s |-> u(i)]) = Len(s)
  BY <1>3, <1>4
<1> QED BY <1>1, <1>5 DEF u

LEMMA ResultType ==
  ASSUME source \in Seq(AnyRow), NEW stmt \in Building, NEW s \in Seq(AnyRow)
  PROVE  Result(stmt, s) \in Seq(AnyRow)
<1>1. CASE stmt.op = "update"
  BY <1>1, Updates DEF Building
<1>2. CASE stmt.op = "delete"
  <2>1. Result(stmt, s) = OnlyKeys(s, Keys(s) \ {stmt.where})
    BY <1>2 DEF Result, Kept
  <2> QED BY <2>1, OnlyKeysType
<1>3. CASE stmt.op = "merge"
  <2>1. Result(stmt, s) = Merged(s)
    BY <1>3 DEF Result
  <2> QED BY <2>1, MergedRow
<1> QED BY <1>1, <1>2, <1>3 DEF Building

LEMMA ResultFits ==
  ASSUME source \in Seq(AnyRow), NEW stmt \in Building, NEW s \in Seq(AnyRow), Fit(s),
         stmt.op = "update" => ~TooBigIn(Result(stmt, s))
  PROVE  Fit(Result(stmt, s))
<1>1. CASE stmt.op = "update"
  BY <1>1 DEF Fit, TooBigIn
<1>2. CASE stmt.op = "delete"
  <2>1. Result(stmt, s) = OnlyKeys(s, Keys(s) \ {stmt.where})
    BY <1>2 DEF Result, Kept
  <2> QED BY <2>1, OnlyKeysRows DEF Fit
<1>3. CASE stmt.op = "merge"
  <2>1. Result(stmt, s) = Merged(s)
    BY <1>3 DEF Result
  <2> QED BY <2>1, MergedRow DEF Fit
<1> QED BY <1>1, <1>2, <1>3 DEF Building

LEMMA ResultUnique ==
  ASSUME source \in Seq(AnyRow), NEW stmt \in Building, NEW s \in Seq(AnyRow), UniqueKeys(s),
         ~(stmt.op = "update" /\ stmt.col = "key")
  PROVE  UniqueKeys(Result(stmt, s))
<1>1. CASE stmt.op = "update"
  <2> DEFINE t == Result(stmt, s)
  <2>1. stmt.col = "val"
    BY <1>1 DEF Building, AnyStatement
  <2>2. /\ DOMAIN t = DOMAIN s
        /\ \A i \in DOMAIN s : t[i] = IF s[i].key = stmt.where
                                     THEN [s[i] EXCEPT ![stmt.col] = stmt.to] ELSE s[i]
    <3>1. t \in Seq(AnyRow) /\ Len(t) = Len(s)
      BY <1>1, Updates DEF Building
    <3>2. DOMAIN t = DOMAIN s
      BY <3>1
    <3> QED BY <1>1, <3>2, Updates DEF Building
  <2> HIDE DEF t
  <2>3. \A i \in DOMAIN s : t[i].key = s[i].key
    <3> SUFFICES ASSUME NEW i \in DOMAIN s PROVE t[i].key = s[i].key
      OBVIOUS
    <3>1. s[i] \in AnyRow
      OBVIOUS
    <3> QED BY <2>1, <2>2, <3>1 DEF AnyRow
  <2> QED BY <2>2, <2>3 DEF UniqueKeys, t
<1>2. CASE stmt.op = "delete"
  <2>1. Result(stmt, s) = OnlyKeys(s, Keys(s) \ {stmt.where})
    BY <1>2 DEF Result, Kept
  <2> QED BY <2>1, OnlyKeysUnique
<1>3. CASE stmt.op = "merge"
  <2>1. Result(stmt, s) = Merged(s)
    BY <1>3 DEF Result
  <2>2. UniqueKeys(MergedRows(s))
    BY MergedAll DEF MergedUpto
  <2> QED BY <2>1, <2>2, MergedRow DEF UniqueKeys
<1> QED BY <1>1, <1>2, <1>3 DEF Building

(* What they build is the whole effect of the statement.                   *)
LEMMA ResultEffect ==
  ASSUME source \in Seq(AnyRow), NEW stmt \in Building, NEW s \in Seq(AnyRow), Fit(s)
  PROVE  Effect(stmt, s, Result(stmt, s))
<1> DEFINE t == Result(stmt, s)
<1>1. CASE stmt.op = "update"
  <2>1. /\ Len(t) = Len(s)
        /\ \A i \in DOMAIN s : IF s[i].key = stmt.where
                               THEN t[i] = [s[i] EXCEPT ![stmt.col] = stmt.to]
                               ELSE t[i] = s[i]
    BY <1>1, Updates DEF Building
  <2> HIDE DEF t
  <2> QED BY <1>1, <2>1 DEF Effect, t
<1>2. CASE stmt.op = "delete"
  <2>1. t = OnlyKeys(s, Keys(s) \ {stmt.where})
    BY <1>2 DEF Result, Kept
  <2> HIDE DEF t
  <2>2. Keys(t) \subseteq Keys(s)
    BY <2>1, OnlyKeysRows DEF Keys
  <2>3. ASSUME NEW k \in Keys(s) \cup Keys(t)
        PROVE  OnlyKeys(t, {k}) = IF k = stmt.where THEN <<>> ELSE OnlyKeys(s, {k})
    <3>1. OnlyKeys(t, {k}) = OnlyKeys(s, (Keys(s) \ {stmt.where}) \cap {k})
      BY <2>1, OnlyKeysTwice
    <3>2. CASE k = stmt.where
      <4>1. (Keys(s) \ {stmt.where}) \cap {k} = {}
        BY <3>2
      <4>2. OnlyKeys(s, {}) = <<>>
        BY OnlyKeysNone
      <4> QED BY <3>1, <3>2, <4>1, <4>2
    <3>3. CASE k # stmt.where
      <4>1. (Keys(s) \ {stmt.where}) \cap {k} = {k}
        BY <2>2, <3>3
      <4> QED BY <3>1, <3>3, <4>1
    <3> QED BY <3>2, <3>3
  <2> QED BY <1>2, <2>3 DEF Effect, t
<1>3. CASE stmt.op = "merge"
  <2> SUFFICES ASSUME ToSet(source) \cap TooBig = {}
               PROVE  /\ Keys(t) = Keys(s) \cup Keys(source)
                      /\ \A i \in DOMAIN t : IF t[i].key \in Keys(source) THEN t[i] = LastOf(t[i].key)
                                             ELSE i \in DOMAIN s /\ t[i] = s[i]
                      /\ \A i, j \in DOMAIN t : i < j /\ t[i].key = t[j].key => j \in DOMAIN s
    BY <1>3 DEF Effect
  <2> DEFINE m == MergedRows(s)
             N == Len(source)
  <2>1. m \in Seq(AnyRow) /\ MergedUpto(s, m, N)
    BY MergedAll
  <2>2. KeysUpto(N) = Keys(source)
    BY DEF KeysUpto, Keys
  <2>3. DOMAIN source = 1 .. N
    OBVIOUS
  <2>4. t = Merged(s)
    BY <1>3 DEF Result
  <2>5. DOMAIN t = DOMAIN m /\ \A i \in DOMAIN t : t[i] = Stored(m[i]) /\ t[i].key = m[i].key
    BY <2>4, MergedRow
  <2> HIDE DEF m, t, N
  <2>6. \A i \in DOMAIN m : m[i] \notin TooBig
    <3> SUFFICES ASSUME NEW i \in DOMAIN m PROVE m[i] \notin TooBig
      OBVIOUS
    <3>1. CASE m[i].key \in KeysUpto(N)
      <4>1. LastUpto(m[i].key, N, m[i])
        BY <2>1, <3>1 DEF MergedUpto
      <4>2. m[i] \in ToSet(source)
        BY <2>3, <4>1 DEF LastUpto, ToSet
      <4> QED BY <4>2
    <3>2. CASE m[i].key \notin KeysUpto(N)
      BY <2>1, <3>2 DEF MergedUpto, Fit
    <3> QED BY <3>1, <3>2
  <2>7. \A i \in DOMAIN t : t[i] = m[i]
    BY <2>5, <2>6 DEF Stored
  <2>8. Keys(t) = Keys(m)
    BY <2>5 DEF Keys
  <2>9. Keys(t) = Keys(s) \cup Keys(source)
    BY <2>1, <2>2, <2>8 DEF MergedUpto
  <2>10. ASSUME NEW i \in DOMAIN t
         PROVE  IF t[i].key \in Keys(source) THEN t[i] = LastOf(t[i].key)
                ELSE i \in DOMAIN s /\ t[i] = s[i]
    <3>1. m[i] = t[i] /\ i \in DOMAIN m
      BY <2>5, <2>7, <2>10
    <3>2. CASE t[i].key \in Keys(source)
      <4>1. LastUpto(m[i].key, N, m[i])
        BY <2>1, <2>2, <3>1, <3>2 DEF MergedUpto
      <4>2. m[i] = LastOf(m[i].key)
        BY <4>1, LastOne DEF N
      <4> QED BY <3>1, <3>2, <4>2
    <3>3. CASE t[i].key \notin Keys(source)
      BY <2>1, <2>2, <3>1, <3>3 DEF MergedUpto
    <3> QED BY <3>2, <3>3
  <2>11. \A i, j \in DOMAIN t : i < j /\ t[i].key = t[j].key => j \in DOMAIN s
    BY <2>1, <2>5 DEF MergedUpto
  <2> QED BY <2>9, <2>10, <2>11
<1> QED BY <1>1, <1>2, <1>3 DEF Building
-----------------------------------------------------------------------------
(* The invariant                                                           *)

TypeOK ==
  /\ source \in Seq(AnyRow) /\ keyed \in BOOLEAN
  /\ rows \in Seq(AnyRow)
  /\ job \in [Connections -> AnyJob \cup {Idle}]
  /\ txn \subseteq Connections
  /\ before \in [Connections -> Seq(AnyRow)]
  /\ started \in Nat
  /\ outcome \in {"ok", "threw", "aborted", "commit", "rollback"}
  /\ overlap \in BOOLEAN /\ rekeyed \in BOOLEAN

Whole(n) == n % VectorSize = 0 \/ n = Len(source)

(* What a statement that runs alone has done, and what it has checked.     *)
ValuesInv(j, s) == /\ j.at \in {"start", "checked"}
                   /\ rows = s
                   /\ j.at = "checked" => Fit(j.stmt.rows) /\ ~Conflict(j.stmt.rows)

Copied(j, s, n) == /\ rows = s \o SubSeq(source, 1, n)
                   /\ j.read <= Len(source) /\ n <= j.read
                   /\ Whole(n) /\ Whole(j.read)
                   /\ IF j.at = "start" THEN n = j.read
                      ELSE n # j.read /\ j.chunk = SubSeq(source, n + 1, j.read)

SelectInv(j, s) == /\ j.at \in {"start", "fetched", "checked"}
                   /\ j.at = "checked" => Fit(j.chunk) /\ ~Conflict(j.chunk)
                   /\ j.stmt.from = "source" => \E n \in 0 .. j.read : Copied(j, s, n)

BuildInv(j, s) == /\ j.at \in {"start", "built"}
                  /\ rows = s
                  /\ j.at = "built" => /\ j.chunk = Result(j.stmt, s)
                                       /\ j.stmt.op = "update" => ~TooBigIn(j.chunk)
                  /\ j.stmt.op = "update" /\ j.stmt.col = "key" => rekeyed

JobInv(j, s) == CASE j.stmt.op = "values" -> ValuesInv(j, s)
                  [] j.stmt.op = "select" -> SelectInv(j, s)
                  [] OTHER                -> j.stmt \in Building /\ BuildInv(j, s)

(* The connections run one statement at a time.                            *)
Alone == \A c, d \in Connections : job[c] # Idle /\ job[d] # Idle => c = d

Solo == /\ Alone
        /\ Fit(rows)
        /\ \A c \in Connections : job[c] # Idle => JobInv(job[c], before[c])
        /\ keyed /\ ~rekeyed => UniqueKeys(rows)

IInv == TypeOK /\ (~overlap => Solo)

-----------------------------------------------------------------------------
(* Chunks                                                                  *)

LEMMA NextMultiple ==
  ASSUME NEW n \in Nat, n % VectorSize = 0
  PROVE  (n + VectorSize) % VectorSize = 0
<1> DEFINE q == n \div VectorSize
<1>1. VectorSize \in Nat \ {0}
  BY VectorAssumption
<1>2. q \in Nat /\ n = VectorSize * q + (n % VectorSize)
  BY <1>1
<1> HIDE DEF q
<1>3. n + VectorSize = (q + 1) * VectorSize
  BY <1>1, <1>2
<1>4. ((q + 1) * VectorSize) % VectorSize = 0
  BY <1>1, <1>2
<1> QED BY <1>3, <1>4

(* A chunk that passes the check of the key leaves the keys unique.        *)
LEMMA DistinctInChunk ==
  ASSUME NEW chunk \in Seq(AnyRow), ~(Cardinality(Keys(chunk)) < Len(chunk))
  PROVE  UniqueKeys(chunk)
<1> DEFINE S == DOMAIN chunk
           T == Keys(chunk)
           f == [i \in S |-> chunk[i].key]
<1>1. S = 1 .. Len(chunk) /\ Len(chunk) \in Nat
  OBVIOUS
<1>2. IsFiniteSet(S) /\ Cardinality(S) = Len(chunk)
  <2>1. 1 \in Int /\ Len(chunk) \in Int
    BY <1>1
  <2>2. IsFiniteSet(1 .. Len(chunk)) /\
        Cardinality(1 .. Len(chunk)) = IF 1 > Len(chunk) THEN 0 ELSE Len(chunk) - 1 + 1
    BY <2>1, FS_Interval
  <2> QED BY <1>1, <2>2
<1>3. f \in Surjection(S, T)
  BY DEF Surjection, Keys
<1> HIDE DEF f, T, S
<1>4. IsFiniteSet(T) /\ Cardinality(T) <= Cardinality(S) /\ (Cardinality(T) = Cardinality(S) <=> f \in Injection(S, T))
  BY <1>2, <1>3, FS_Surjection
<1>5. Cardinality(T) \in Nat
  BY <1>4, FS_CardinalityType
<1>6. Cardinality(T) = Cardinality(S)
  BY <1>1, <1>2, <1>4, <1>5 DEF T
<1>7. f \in Injection(S, T)
  BY <1>4, <1>6
<1> QED BY <1>7 DEF Injection, IsInjective, UniqueKeys, f, S

LEMMA NoConflict ==
  ASSUME NEW s \in Seq(AnyRow), s = rows, NEW chunk \in Seq(AnyRow), keyed, UniqueKeys(s), ~Conflict(chunk)
  PROVE  UniqueKeys(s \o chunk)
<1>1. Keys(chunk) \cap Keys(s) = {} /\ UniqueKeys(chunk)
  BY DistinctInChunk DEF Conflict
<1> DEFINE t == s \o chunk
<1>2. /\ \A i \in DOMAIN t : i \in Nat
      /\ \A i \in DOMAIN t : i \in DOMAIN s \/ i - Len(s) \in DOMAIN chunk
      /\ \A i \in DOMAIN s : t[i] = s[i]
      /\ \A i \in DOMAIN t : i \notin DOMAIN s => t[i] = chunk[i - Len(s)]
      /\ Len(s) \in Nat
  OBVIOUS
<1> HIDE DEF t
<1> SUFFICES ASSUME NEW i \in DOMAIN t, NEW j \in DOMAIN t, t[i].key = t[j].key PROVE i = j
  BY DEF UniqueKeys, t
<1>3. CASE i \in DOMAIN s /\ j \in DOMAIN s
  BY <1>2, <1>3 DEF UniqueKeys
<1>4. CASE i \notin DOMAIN s /\ j \notin DOMAIN s
  <2>1. i - Len(s) = j - Len(s)
    BY <1>1, <1>2, <1>4 DEF UniqueKeys
  <2> QED BY <1>2, <2>1
<1>7. \A m \in DOMAIN s, n \in DOMAIN chunk : s[m].key # chunk[n].key
  BY <1>1 DEF Keys
<1>5. CASE i \in DOMAIN s /\ j \notin DOMAIN s
  <2>1. t[i] = s[i] /\ j - Len(s) \in DOMAIN chunk /\ t[j] = chunk[j - Len(s)]
    BY <1>2, <1>5
  <2> QED BY <1>5, <1>7, <2>1
<1>6. CASE i \notin DOMAIN s /\ j \in DOMAIN s
  <2>1. t[j] = s[j] /\ i - Len(s) \in DOMAIN chunk /\ t[i] = chunk[i - Len(s)]
    BY <1>2, <1>6
  <2> QED BY <1>6, <1>7, <2>1
<1> QED BY <1>3, <1>4, <1>5, <1>6

LEMMA FitConcat ==
  ASSUME NEW s \in Seq(AnyRow), NEW t \in Seq(AnyRow), Fit(s), Fit(t) PROVE Fit(s \o t)
<1>1. \A i \in DOMAIN (s \o t) : (i \in DOMAIN s /\ (s \o t)[i] = s[i])
                                \/ (i - Len(s) \in DOMAIN t /\ (s \o t)[i] = t[i - Len(s)])
  OBVIOUS
<1> QED BY <1>1 DEF Fit

LEMMA SubSeqConcat ==
  ASSUME NEW T, NEW s \in Seq(T), NEW m \in Nat, NEW n \in Nat, m <= n, n <= Len(s)
  PROVE  SubSeq(s, 1, m) \o SubSeq(s, m + 1, n) = SubSeq(s, 1, n)
OBVIOUS
-----------------------------------------------------------------------------
(* Types                                                                   *)

At == {"start", "fetched", "checked", "built"}

LEMMA JobType ==
  ASSUME TypeOK, NEW c \in Connections, job[c] # Idle
  PROVE  /\ job[c] \in AnyJob
         /\ job[c].stmt \in AnyStatement /\ job[c].chunk \in Seq(AnyRow) /\ job[c].read \in Nat
         /\ job[c].stmt.op = "values" => job[c].stmt.rows \in Seq(AnyRow)
         /\ job[c].stmt.op \in {"update", "delete", "merge"} => job[c].stmt \in Building
<1>1. job[c] \in AnyJob
  BY DEF TypeOK
<1>2. job[c].stmt \in AnyStatement /\ job[c].chunk \in Seq(AnyRow) /\ job[c].read \in Nat
  BY <1>1 DEF AnyJob
<1>3. job[c].stmt.op = "values" => job[c].stmt.rows \in Seq(AnyRow)
  BY <1>2 DEF AnyStatement
<1> QED BY <1>1, <1>2, <1>3 DEF Building

LEMMA NoRows == <<>> \in Seq(AnyRow)
OBVIOUS

(* How a step changes the job of its connection, and no other.             *)
Becomes(c, j) == job' = [job EXCEPT ![c] = j]

LEMMA JobSteps ==
  ASSUME TypeOK, NEW c \in Connections, job[c] # Idle, NEW at \in At
  PROVE  /\ Goto(c, at) => Becomes(c, [job[c] EXCEPT !.at = at])
         /\ \A chunk : Hold(c, at, chunk) => Becomes(c, [job[c] EXCEPT !.at = at, !.chunk = chunk])
         /\ [job[c] EXCEPT !.at = at] \in AnyJob
         /\ \A chunk \in Seq(AnyRow) : [job[c] EXCEPT !.at = at, !.chunk = chunk] \in AnyJob
<1>1. job[c] \in AnyJob /\ DOMAIN job = Connections
  BY JobType DEF TypeOK
<1>2. /\ [job[c] EXCEPT !.at = at] \in AnyJob
      /\ \A chunk \in Seq(AnyRow) : [job[c] EXCEPT !.at = at, !.chunk = chunk] \in AnyJob
  <2> DEFINE Q == Seq(AnyRow)
             St == AnyStatement
  <2>1. AnyJob = [stmt : St, at : At, chunk : Q, read : Nat]
    BY DEF AnyJob, At
  <2> HIDE DEF Q, St
  <2>2. /\ [job[c] EXCEPT !.at = at] \in AnyJob
        /\ \A chunk \in Q : [job[c] EXCEPT !.at = at, !.chunk = chunk] \in AnyJob
    BY <1>1, <2>1
  <2> QED BY <2>2 DEF Q
<1> QED BY <1>1, <1>2 DEF Goto, Hold, Becomes

JobTypeOK == job \in [Connections -> AnyJob \cup {Idle}]

LEMMA BecomesType ==
  ASSUME TypeOK, NEW c \in Connections, NEW j \in AnyJob \cup {Idle}, Becomes(c, j)
  PROVE  JobTypeOK'
BY DEF TypeOK, JobTypeOK, Becomes

(* The chunk that Fetch delivers.                                          *)
LEMMA FetchSteps ==
  ASSUME TypeOK, NEW c \in Connections, Fetch(c)
  PROVE  \/ /\ Read(c) = <<>> \/ job[c].read = Len(Read(c))
            /\ End(c, "ok") /\ Stay
         \/ \E n \in Nat \ {0}, chunk \in Seq(AnyRow) :
              /\ Becomes(c, [job[c] EXCEPT !.at = "fetched", !.chunk = chunk, !.read = @ + n])
              /\ Stay /\ GoesOn
              /\ job[c].read <= Len(Read(c)) =>
                   /\ job[c].read + n <= Len(Read(c))
                   /\ n = VectorSize \/ job[c].read + n = Len(Read(c))
                   /\ chunk = SubSeq(Read(c), job[c].read + 1, job[c].read + n)
<1> DEFINE left   == Len(Read(c)) - job[c].read
           n      == IF left \in 0 .. VectorSize THEN left ELSE VectorSize
           chunks == IF left < 0 THEN Past
                     ELSE {SubSeq(Read(c), job[c].read + 1, job[c].read + n)}
<1>1. /\ Read(c) \in Seq(AnyRow) /\ Len(Read(c)) \in Nat
      /\ job[c].read \in Nat /\ VectorSize \in Nat \ {0}
  <2>1. Read(c) \in Seq(AnyRow)
    BY DEF Read, TypeOK
  <2>2. Len(Read(c)) \in Nat
    BY <2>1
  <2>3. job[c] # Idle
    BY DEF Fetch, Is
  <2>4. job[c].read \in Nat
    BY <2>3, JobType
  <2>5. VectorSize \in Nat \ {0}
    BY VectorAssumption
  <2> QED BY <2>1, <2>2, <2>4, <2>5
<1>2. chunks \in SUBSET Seq(AnyRow)
  <2>1. SubSeq(Read(c), job[c].read + 1, job[c].read + n) \in Seq(AnyRow) \/ left < 0
    <3> SUFFICES ASSUME ~(left < 0) PROVE SubSeq(Read(c), job[c].read + 1, job[c].read + n) \in Seq(AnyRow)
      OBVIOUS
    <3> DEFINE s == Read(c)
               r == job[c].read
    <3>1. /\ s \in Seq(AnyRow) /\ r \in Nat /\ left = Len(s) - r /\ Len(s) \in Nat
          /\ ~(left < 0) /\ VectorSize \in Nat \ {0}
      BY <1>1
    <3> HIDE DEF s, r, left
    <3>2. n \in Nat /\ r + n <= Len(s)
      BY <3>1
    <3> HIDE DEF n
    <3>3. SubSeq(s, r + 1, r + n) \in Seq(AnyRow)
      BY <3>1, <3>2
    <3> QED BY <3>3 DEF s, r
  <2>2. Past \in SUBSET Seq(AnyRow)
    <3> SUFFICES ASSUME NEW k \in AnyKey
                 PROVE  [i \in 1 .. VectorSize |-> [key |-> k, val |-> Garbage]] \in Seq(AnyRow)
      BY DEF Past
    <3>1. [key |-> k, val |-> Garbage] \in AnyRow
      BY TableWritesAssumption DEF AnyRow
    <3> HIDE DEF AnyRow
    <3> QED BY <1>1, <3>1
  <2> QED BY <2>1, <2>2
<1>3. CASE n = 0 \/ Read(c) = <<>>
  <2>1. End(c, "ok") /\ Stay
    BY <1>3 DEF Fetch
  <2>2. n = 0 => job[c].read = Len(Read(c))
    BY <1>1
  <2> QED BY <1>3, <2>1, <2>2
<1>4. CASE ~(n = 0 \/ Read(c) = <<>>)
  <2>1. PICK chunk \in chunks :
          job' = [job EXCEPT ![c].at = "fetched", ![c].chunk = chunk, ![c].read = @ + n]
    BY <1>4 DEF Fetch
  <2>2. Stay /\ GoesOn
    BY <1>4 DEF Fetch
  <2>3. n \in Nat \ {0}
    BY <1>1, <1>4
  <2>4. Becomes(c, [job[c] EXCEPT !.at = "fetched", !.chunk = chunk, !.read = @ + n])
    BY <2>1 DEF Becomes
  <2>5. ASSUME job[c].read <= Len(Read(c))
        PROVE  /\ job[c].read + n <= Len(Read(c))
               /\ n = VectorSize \/ job[c].read + n = Len(Read(c))
               /\ chunk = SubSeq(Read(c), job[c].read + 1, job[c].read + n)
    BY <1>1, <2>5
  <2> QED BY <1>2, <2>2, <2>3, <2>4, <2>5
<1> QED BY <1>3, <1>4

LEMMA InitTypeOK == Init => TypeOK
<1> SUFFICES ASSUME Init PROVE TypeOK
  OBVIOUS
<1> DEFINE S == Seq(AnyRow)
<1>1. <<>> \in S
  OBVIOUS
<1> HIDE DEF S
<1>2. source \in S /\ keyed \in BOOLEAN
  BY TableWritesAssumption DEF Init, S
<1>3. rows \in S /\ before \in [Connections -> S] /\ job \in [Connections -> AnyJob \cup {Idle}]
  BY <1>1 DEF Init
<1>4. /\ txn \subseteq Connections /\ started \in Nat
      /\ outcome \in {"ok", "threw", "aborted", "commit", "rollback"}
      /\ overlap \in BOOLEAN /\ rekeyed \in BOOLEAN
  BY DEF Init
<1> QED BY <1>2, <1>3, <1>4 DEF TypeOK, S

LEMMA NextTypeOK == TypeOK /\ [Next]_vars => TypeOK'
<1> SUFFICES ASSUME TypeOK, [Next]_vars PROVE TypeOK'
  OBVIOUS
<1> DEFINE Others == /\ source' \in Seq(AnyRow) /\ keyed' \in BOOLEAN /\ txn' \subseteq Connections
                     /\ started' \in Nat /\ overlap' \in BOOLEAN /\ rekeyed' \in BOOLEAN
           Ending == /\ before' \in [Connections -> Seq(AnyRow)]
                     /\ outcome' \in {"ok", "threw", "aborted", "commit", "rollback"}
<1>1. Stay => Others /\ rows' \in Seq(AnyRow)
  BY DEF Stay, TypeOK, given
<1>2. ASSUME NEW new \in Seq(AnyRow), Write(new) PROVE Others /\ rows' \in Seq(AnyRow)
  BY <1>2 DEF Write, TypeOK, given
<1>3. GoesOn => Ending
  BY DEF GoesOn, TypeOK
<1>4. ASSUME NEW c \in Connections, NEW how \in {"ok", "threw"}, End(c, how) PROVE Ending /\ JobTypeOK'
  <2>1. Ending
    <3> DEFINE S == Seq(AnyRow)
    <3>1. <<>> \in S /\ before \in [Connections -> S]
      BY DEF TypeOK
    <3>2. before' = [before EXCEPT ![c] = <<>>] /\ outcome' = how
      BY <1>4 DEF End
    <3> HIDE DEF S
    <3>3. before' \in [Connections -> S]
      BY <3>1, <3>2
    <3> QED BY <3>2, <3>3 DEF S
  <2>2. Becomes(c, Idle)
    BY <1>4 DEF End, Becomes
  <2> QED BY <2>1, <2>2, BecomesType
<1>5. Others /\ rows' \in Seq(AnyRow) /\ JobTypeOK' /\ Ending => TypeOK'
  BY DEF TypeOK, JobTypeOK
<1> HIDE DEF Ending
<1>6. ASSUME NEW c \in Connections, Throw(c) PROVE TypeOK'
  BY <1>1, <1>4, <1>5, <1>6 DEF Throw
<1>7. ASSUME NEW c \in Connections, NEW stmt \in Statements[c], Execute(c, stmt) PROVE TypeOK'
  <2> DEFINE j == [stmt |-> stmt, at |-> "start", chunk |-> <<>>, read |-> 0]
             S == Seq(AnyRow)
             St == AnyStatement
  <2>1. stmt \in St
    BY TableWritesAssumption
  <2>2. <<>> \in S /\ AnyJob = [stmt : St, at : At, chunk : S, read : Nat]
    BY DEF AnyJob, At
  <2>3. j \in AnyJob
    <3> HIDE DEF S, St
    <3> QED BY <2>1, <2>2 DEF At
  <2>4. Becomes(c, j)
    BY <1>7 DEF Execute, Becomes
  <2>5. JobTypeOK'
    BY <2>3, <2>4, BecomesType
  <2>6. Ending
    BY <1>7 DEF Execute, TypeOK, Ending
  <2>7. Others /\ rows' \in Seq(AnyRow)
    BY <1>7 DEF Execute, Starts, TypeOK, given
  <2> QED BY <1>5, <2>5, <2>6, <2>7
<1>8. ASSUME NEW c \in Connections, CheckValues(c) PROVE TypeOK'
  <2>1. CASE Goto(c, "checked") /\ Stay /\ GoesOn
    <3>1. job[c] # Idle /\ "checked" \in At
      BY <1>8 DEF CheckValues, Is, At
    <3>2. JobTypeOK'
      BY <2>1, <3>1, JobSteps, BecomesType
    <3> QED BY <1>1, <1>3, <1>5, <2>1, <3>2
  <2> QED BY <1>6, <1>8, <2>1 DEF CheckValues
<1>9. ASSUME NEW c \in Connections, AppendValues(c) PROVE TypeOK'
  <2>1. job[c].stmt.rows \in Seq(AnyRow)
    BY <1>9, JobType DEF AppendValues, Is
  <2>2. rows \o job[c].stmt.rows \in Seq(AnyRow)
    BY <2>1 DEF TypeOK
  <2> QED BY <1>2, <1>4, <1>5, <1>9, <2>2 DEF AppendValues
<1>10. ASSUME NEW c \in Connections, Fetch(c) PROVE TypeOK'
  <2>1. CASE End(c, "ok") /\ Stay
    BY <1>1, <1>4, <1>5, <2>1
  <2>2. CASE ~(End(c, "ok") /\ Stay)
    <3>1. PICK n \in Nat \ {0}, chunk \in Seq(AnyRow) :
            /\ Becomes(c, [job[c] EXCEPT !.at = "fetched", !.chunk = chunk, !.read = @ + n])
            /\ Stay /\ GoesOn
      BY <1>10, <2>2, FetchSteps
    <3>2. job[c] \in AnyJob
      BY <1>10, JobType DEF Fetch, Is
    <3>3. [job[c] EXCEPT !.at = "fetched", !.chunk = chunk, !.read = @ + n] \in AnyJob
      <4> DEFINE S == Seq(AnyRow)
                 St == AnyStatement
      <4>1. chunk \in S /\ AnyJob = [stmt : St, at : At, chunk : S, read : Nat]
        BY DEF AnyJob, At
      <4>2. job[c].read + n \in Nat
        <5>1. job[c] # Idle
          BY <1>10 DEF Fetch, Is
        <5>2. job[c].read \in Nat
          BY <5>1, JobType
        <5> QED BY <5>2
      <4> HIDE DEF S, St
      <4> QED BY <3>2, <4>1, <4>2 DEF At
    <3>4. JobTypeOK'
      BY <3>1, <3>3, BecomesType
    <3> QED BY <1>1, <1>3, <1>5, <3>1, <3>4
  <2> QED BY <2>1, <2>2
<1>11. ASSUME NEW c \in Connections, CheckChunk(c) PROVE TypeOK'
  <2>1. CASE Goto(c, "checked") /\ Stay /\ GoesOn
    <3>1. job[c] # Idle /\ "checked" \in At
      BY <1>11 DEF CheckChunk, Is, At
    <3>2. JobTypeOK'
      BY <2>1, <3>1, JobSteps, BecomesType
    <3> QED BY <1>1, <1>3, <1>5, <2>1, <3>2
  <2> QED BY <1>6, <1>11, <2>1 DEF CheckChunk
<1>12. ASSUME NEW c \in Connections, AppendChunk(c) PROVE TypeOK'
  <2>1. job[c] # Idle /\ "start" \in At
    BY <1>12 DEF AppendChunk, Is, At
  <2>2. job[c].chunk \in Seq(AnyRow) /\ <<>> \in Seq(AnyRow)
    BY <2>1, JobType
  <2>3. rows \o job[c].chunk \in Seq(AnyRow)
    BY <2>2 DEF TypeOK
  <2> DEFINE j == [job[c] EXCEPT !.at = "start", !.chunk = <<>>]
  <2>5. Becomes(c, j) /\ j \in AnyJob
    BY <1>12, <2>1, <2>2, JobSteps DEF AppendChunk
  <2> HIDE DEF j
  <2>4. JobTypeOK'
    BY <2>5, BecomesType
  <2> QED BY <1>2, <1>3, <1>5, <1>12, <2>3, <2>4 DEF AppendChunk
<1>13. ASSUME NEW c \in Connections, Rebuild(c) PROVE TypeOK'
  <2>1. CASE Hold(c, "built", Result(job[c].stmt, rows)) /\ Stay /\ GoesOn
    <3>1. job[c] # Idle /\ "built" \in At /\ job[c].stmt.op \in {"update", "delete", "merge"}
      BY <1>13 DEF Rebuild, Rewrites, At
    <3>2. job[c].stmt \in Building
      BY <3>1, JobType
    <3>3. Result(job[c].stmt, rows) \in Seq(AnyRow)
      BY <3>2, ResultType DEF TypeOK
    <3> DEFINE j == [job[c] EXCEPT !.at = "built", !.chunk = Result(job[c].stmt, rows)]
    <3>4. Becomes(c, j) /\ j \in AnyJob
      BY <2>1, <3>1, <3>3, JobSteps
    <3> HIDE DEF j
    <3>5. JobTypeOK'
      BY <3>4, BecomesType
    <3> QED BY <1>1, <1>3, <1>5, <2>1, <3>5
  <2> QED BY <1>6, <1>13, <2>1 DEF Rebuild
<1>14. ASSUME NEW c \in Connections, Abort(c) PROVE TypeOK'
  <2>1. Others /\ rows' \in Seq(AnyRow)
    <3>1. rows' = <<>> /\ txn' = {} /\ overlap' = FALSE /\ rekeyed' = FALSE /\ UNCHANGED <<given, started>>
      BY <1>14 DEF Abort
    <3>2. rows' \in Seq(AnyRow)
      BY <3>1, NoRows, Zenon
    <3> QED BY <3>1, <3>2 DEF TypeOK, given
  <2>2. JobTypeOK'
    BY <1>14 DEF Abort, JobTypeOK
  <2>3. Ending
    BY <1>14 DEF Abort, Ending
  <2> QED BY <1>5, <2>1, <2>2, <2>3
<1>15. ASSUME NEW c \in Connections, SetStorage(c) PROVE TypeOK'
  <2>1. job[c].chunk \in Seq(AnyRow)
    BY <1>15, JobType DEF SetStorage, Rewrites
  <2> QED BY <1>2, <1>4, <1>5, <1>15, <2>1 DEF SetStorage
<1>16. ASSUME NEW c \in Connections, Truncate(c) \/ Begin(c) \/ Commit(c) \/ Rollback(c)
       PROVE  TypeOK'
  <2>1. Others /\ rows' \in Seq(AnyRow)
    <3>1. rows' = <<>> \/ rows' = rows
      BY <1>16 DEF Truncate, Begin, Commit, Rollback, EndTransaction
    <3>2. txn' \in {txn, txn \cup {c}, txn \ {c}} /\ UNCHANGED <<given, rekeyed>>
      BY <1>16 DEF Truncate, Begin, Commit, Rollback, EndTransaction
    <3>3. Starts(c)
      BY <1>16 DEF Truncate, Begin, Commit, Rollback, EndTransaction
    <3>4. started' \in Nat /\ overlap' \in BOOLEAN
      BY <3>3 DEF Starts, OthersRun, TypeOK
    <3>5. rows' \in Seq(AnyRow)
      BY <3>1, NoRows, Zenon DEF TypeOK
    <3> QED BY <3>2, <3>4, <3>5 DEF TypeOK, given
  <2>2. JobTypeOK'
    BY <1>16 DEF Truncate, Begin, Commit, Rollback, EndTransaction, JobTypeOK, TypeOK
  <2>3. Ending
    BY <1>16 DEF Truncate, Begin, Commit, Rollback, EndTransaction, Ending, TypeOK
  <2> QED BY <1>5, <2>1, <2>2, <2>3
<1>17. CASE UNCHANGED vars
  BY <1>17 DEF vars, given, history, TypeOK
<1> QED BY <1>7, <1>8, <1>9, <1>10, <1>11, <1>12, <1>13, <1>14, <1>15, <1>16, <1>17 DEF Next, Step

(* The rows, the statements and the transactions have their types.         *)
THEOREM TypeCorrect == Spec => []TypeOK
BY InitTypeOK, NextTypeOK, PTL DEF Spec
-----------------------------------------------------------------------------
(* A step of the statement that runs alone                                 *)

OthersIdle(c) == \A d \in Connections \ {c} : job[d] = Idle

LEMMA AloneRuns ==
  ASSUME Alone, NEW c \in Connections, job[c] # Idle
  PROVE  OthersIdle(c)
BY DEF Alone, OthersIdle

LEMMA OthersStayIdle ==
  ASSUME TypeOK, NEW c \in Connections, OthersIdle(c), NEW j, Becomes(c, j)
  PROVE  OthersIdle(c)' /\ job'[c] = j
BY DEF TypeOK, Becomes, OthersIdle

LEMMA SoloAfter ==
  ASSUME NEW c \in Connections, OthersIdle(c)', Fit(rows)',
         job'[c] # Idle => JobInv(job[c], before[c])',
         keyed' /\ ~rekeyed' => UniqueKeys(rows)'
  PROVE  Solo'
BY DEF Solo, Alone, OthersIdle

(* A statement that leaves the table alone ends.                           *)
LEMMA SoloEnds ==
  ASSUME TypeOK, Solo, NEW c \in Connections, job[c] # Idle, NEW how, End(c, how), Stay
  PROVE  Solo'
<1>1. Becomes(c, Idle) /\ UNCHANGED <<keyed, rows, rekeyed>>
  BY DEF End, Stay, Becomes, given
<1>2. OthersIdle(c)' /\ job'[c] = Idle
  BY <1>1, AloneRuns, OthersStayIdle DEF Solo
<1>3. Fit(rows)' /\ (keyed' /\ ~rekeyed' => UniqueKeys(rows)')
  BY <1>1 DEF Solo, Fit, UniqueKeys
<1> QED BY <1>2, <1>3, SoloAfter

(* A statement that leaves the table alone goes on.                        *)
LEMMA SoloGoesOn ==
  ASSUME TypeOK, Solo, NEW c \in Connections, job[c] # Idle, NEW j, Becomes(c, j), Stay, GoesOn,
         JobInv(j, before[c])
  PROVE  Solo'
<1>1. UNCHANGED <<source, keyed, rows, rekeyed, before>>
  BY DEF Stay, GoesOn, given
<1>2. OthersIdle(c)' /\ job'[c] = j
  BY AloneRuns, OthersStayIdle DEF Solo
<1>3. Fit(rows)' /\ (keyed' /\ ~rekeyed' => UniqueKeys(rows)')
  BY <1>1 DEF Solo, Fit, UniqueKeys
<1>4. JobInv(job[c], before[c])' <=> JobInv(j, before[c])
  BY <1>1, <1>2 DEF JobInv, ValuesInv, SelectInv, BuildInv, Copied, Whole, Fit, Conflict, TooBigIn,
     Result, Updated, Kept, Merged, MergedRows
<1> QED BY <1>2, <1>3, <1>4, SoloAfter

LEMMA CheckValuesSolo ==
  ASSUME TypeOK, Solo, NEW c \in Connections, CheckValues(c) PROVE Solo'
<1>1. Is(c, "values", "start") /\ job[c] # Idle
  BY DEF CheckValues, Is
<1>2. CASE Throw(c)
  BY <1>1, <1>2, SoloEnds DEF Throw
<1>3. CASE ~Throw(c)
  <2>1. /\ ~TooBigIn(job[c].stmt.rows) /\ ~Conflict(job[c].stmt.rows)
        /\ Goto(c, "checked") /\ Stay /\ GoesOn
    BY <1>3 DEF CheckValues
  <2> DEFINE j == [job[c] EXCEPT !.at = "checked"]
  <2>2. Becomes(c, j) /\ job[c] \in AnyJob
    BY <1>1, <2>1, JobSteps, JobType DEF At
  <2>3. j.stmt = job[c].stmt /\ j.at = "checked"
    BY <2>2 DEF AnyJob
  <2>4. ValuesInv(job[c], before[c])
    BY <1>1 DEF Solo, JobInv, Is
  <2> HIDE DEF j
  <2>5. JobInv(j, before[c])
    BY <1>1, <2>1, <2>3, <2>4 DEF JobInv, ValuesInv, TooBigIn, Fit, Is
  <2> QED BY <1>1, <2>1, <2>2, <2>5, SoloGoesOn
<1> QED BY <1>2, <1>3

LEMMA AppendValuesSolo ==
  ASSUME TypeOK, Solo, NEW c \in Connections, AppendValues(c) PROVE Solo'
<1>1. /\ Is(c, "values", "checked") /\ job[c] # Idle
      /\ Write(rows \o job[c].stmt.rows) /\ End(c, "ok")
  BY DEF AppendValues, Is
<1>2. OthersIdle(c)' /\ job'[c] = Idle
  <2>1. Becomes(c, Idle)
    BY <1>1 DEF End, Becomes
  <2> QED BY <1>1, <2>1, AloneRuns, OthersStayIdle DEF Solo
<1> DEFINE more == job[c].stmt.rows
<1>3. Fit(more) /\ ~Conflict(more)
  BY <1>1 DEF Solo, JobInv, ValuesInv, Is
<1>4. more \in Seq(AnyRow) /\ rows \in Seq(AnyRow)
  BY <1>1, JobType DEF TypeOK, Is
<1>5. rows' = rows \o more /\ UNCHANGED <<keyed, rekeyed>>
  BY <1>1 DEF Write, given
<1> HIDE DEF more
<1>6. Fit(rows \o more)
  BY <1>3, <1>4, FitConcat DEF Solo
<1>7. keyed /\ ~rekeyed => UniqueKeys(rows \o more)
  BY <1>3, <1>4, NoConflict DEF Solo
<1>8. Fit(rows)' /\ (keyed' /\ ~rekeyed' => UniqueKeys(rows)')
  BY <1>5, <1>6, <1>7 DEF Fit, UniqueKeys
<1> QED BY <1>2, <1>8, SoloAfter

LEMMA WholeAfter ==
  ASSUME TypeOK, NEW m \in Nat, Whole(m), m < Len(source), NEW n \in Nat,
         n = VectorSize \/ m + n = Len(source)
  PROVE  Whole(m + n)
<1>1. m % VectorSize = 0
  BY DEF Whole
<1>2. n = VectorSize => (m + n) % VectorSize = 0
  BY <1>1, NextMultiple
<1> QED BY <1>2 DEF Whole

LEMMA FetchSolo ==
  ASSUME TypeOK, Solo, NEW c \in Connections, Fetch(c) PROVE Solo'
<1>1. Is(c, "select", "start") /\ job[c] # Idle
  BY DEF Fetch, Is
<1>2. CASE End(c, "ok") /\ Stay
  BY <1>1, <1>2, SoloEnds
<1>3. CASE ~(End(c, "ok") /\ Stay)
  <2> DEFINE J(n, chunk) == [job[c] EXCEPT !.at = "fetched", !.chunk = chunk, !.read = @ + n]
             m == job[c].read
  <2>1. PICK n \in Nat \ {0}, chunk \in Seq(AnyRow) :
          /\ Becomes(c, J(n, chunk)) /\ Stay /\ GoesOn
          /\ m <= Len(Read(c)) => /\ m + n <= Len(Read(c))
                                  /\ n = VectorSize \/ m + n = Len(Read(c))
                                  /\ chunk = SubSeq(Read(c), m + 1, m + n)
    BY <1>3, FetchSteps
  <2> DEFINE j == J(n, chunk)
  <2>2. /\ j.stmt = job[c].stmt /\ j.at = "fetched" /\ j.chunk = chunk /\ j.read = m + n
        /\ m \in Nat
    <3>1. job[c] \in AnyJob
      BY <1>1, JobType
    <3> QED BY <3>1 DEF AnyJob
  <2>3. SelectInv(job[c], before[c])
    BY <1>1 DEF Solo, JobInv, Is
  <2>4. ASSUME job[c].stmt.from = "source" PROVE \E k \in 0 .. j.read : Copied(j, before[c], k)
    <3>1. PICK k \in 0 .. m : Copied(job[c], before[c], k)
      BY <2>3, <2>4 DEF SelectInv
    <3>2. /\ rows = before[c] \o SubSeq(source, 1, m) /\ m <= Len(source) /\ Whole(m)
      BY <1>1, <3>1 DEF Copied, Is
    <3>3. Read(c) = source
      BY <2>4 DEF Read
    <3>4. m + n <= Len(source) /\ (n = VectorSize \/ m + n = Len(source))
      BY <2>1, <3>2, <3>3
    <3>5. chunk = SubSeq(source, m + 1, m + n)
      BY <2>1, <3>2, <3>3
    <3>6. Len(source) \in Nat
      BY DEF TypeOK
    <3>7. m < Len(source) /\ m \in 0 .. m + n /\ m <= m + n /\ m # m + n
      BY <2>1, <2>2, <3>4, <3>6
    <3>8. Whole(m + n)
      BY <2>2, <3>2, <3>4, <3>7, WholeAfter
    <3> HIDE DEF j, m
    <3> QED BY <2>2, <3>2, <3>4, <3>5, <3>7, <3>8 DEF Copied
  <2> HIDE DEF j, m, J
  <2>5. JobInv(j, before[c])
    BY <1>1, <2>2, <2>4 DEF JobInv, SelectInv, Is
  <2>6. Becomes(c, j)
    BY <2>1 DEF j
  <2> QED BY <1>1, <2>1, <2>5, <2>6, SoloGoesOn
<1> QED BY <1>2, <1>3

LEMMA CheckChunkSolo ==
  ASSUME TypeOK, Solo, NEW c \in Connections, CheckChunk(c) PROVE Solo'
<1>1. Is(c, "select", "fetched") /\ job[c] # Idle
  BY DEF CheckChunk, Is
<1>2. CASE Throw(c)
  BY <1>1, <1>2, SoloEnds DEF Throw
<1>3. CASE ~Throw(c)
  <2>1. /\ ~TooBigIn(job[c].chunk) /\ ~Conflict(job[c].chunk)
        /\ Goto(c, "checked") /\ Stay /\ GoesOn
    BY <1>3 DEF CheckChunk
  <2> DEFINE j == [job[c] EXCEPT !.at = "checked"]
  <2>2. Becomes(c, j) /\ job[c] \in AnyJob
    BY <1>1, <2>1, JobSteps, JobType DEF At
  <2>3. j.stmt = job[c].stmt /\ j.at = "checked" /\ j.chunk = job[c].chunk /\ j.read = job[c].read
    BY <2>2 DEF AnyJob
  <2>4. SelectInv(job[c], before[c])
    BY <1>1 DEF Solo, JobInv, Is
  <2> HIDE DEF j
  <2>5. SelectInv(j, before[c])
    BY <1>1, <2>1, <2>3, <2>4 DEF SelectInv, Copied, TooBigIn, Fit, Is
  <2>6. JobInv(j, before[c])
    BY <1>1, <2>3, <2>5 DEF JobInv, Is
  <2> QED BY <1>1, <2>1, <2>2, <2>6, SoloGoesOn
<1> QED BY <1>2, <1>3

LEMMA AppendChunkSolo ==
  ASSUME TypeOK, Solo, NEW c \in Connections, AppendChunk(c) PROVE Solo'
<1>1. /\ Is(c, "select", "checked") /\ job[c] # Idle
      /\ Write(rows \o job[c].chunk) /\ Hold(c, "start", <<>>) /\ GoesOn
  BY DEF AppendChunk, Is
<1> DEFINE j == [job[c] EXCEPT !.at = "start", !.chunk = <<>>]
           more == job[c].chunk
<1>2. OthersIdle(c)' /\ job'[c] = j
  <2>1. Becomes(c, j)
    BY <1>1, JobSteps DEF At
  <2> QED BY <1>1, <2>1, AloneRuns, OthersStayIdle DEF Solo
<1>3. j.stmt = job[c].stmt /\ j.at = "start" /\ j.chunk = <<>> /\ j.read = job[c].read
  <2>1. job[c] \in AnyJob
    BY <1>1, JobType
  <2> QED BY <2>1 DEF AnyJob
<1>4. SelectInv(job[c], before[c])
  BY <1>1 DEF Solo, JobInv, Is
<1>5. Fit(more) /\ ~Conflict(more)
  BY <1>1, <1>4 DEF SelectInv, Is
<1>6. more \in Seq(AnyRow) /\ rows \in Seq(AnyRow) /\ job[c].read \in Nat
  BY <1>1, JobType DEF TypeOK
<1>7. rows' = rows \o more /\ UNCHANGED <<source, keyed, rekeyed, before>>
  BY <1>1 DEF Write, GoesOn, given
<1>8. ASSUME job[c].stmt.from = "source"
      PROVE  (\E k \in 0 .. job[c].read : Copied(job[c], before[c], k))'
  <2>1. PICK m \in Nat : m = job[c].read
    BY <1>6
  <2>2. PICK k \in 0 .. m : Copied(job[c], before[c], k)
    BY <1>4, <1>8, <2>1 DEF SelectInv
  <2>3. /\ rows = before[c] \o SubSeq(source, 1, k) /\ m <= Len(source) /\ k <= m /\ Whole(m)
        /\ more = SubSeq(source, k + 1, m)
    BY <1>1, <2>1, <2>2 DEF Copied, Is
  <2>4. rows \o more = before[c] \o SubSeq(source, 1, m)
    <3> DEFINE a == before[c]
               b == SubSeq(source, 1, k)
    <3>1. a \in Seq(AnyRow) /\ source \in Seq(AnyRow) /\ k \in Nat
      BY DEF TypeOK
    <3>2. b \in Seq(AnyRow)
      BY <2>3, <3>1
    <3>3. b \o more = SubSeq(source, 1, m)
      BY <2>3, <3>1, SubSeqConcat
    <3>4. a \in Seq(AnyRow) /\ b \in Seq(AnyRow) /\ more \in Seq(AnyRow)
      BY <1>6, <3>1, <3>2
    <3> HIDE DEF a, b, more
    <3>5. (a \o b) \o more = a \o (b \o more)
      BY <3>4, ConcatAssociative
    <3> QED BY <2>3, <3>3, <3>5 DEF a, b
  <2>5. Whole(m)'
    BY <1>7, <2>3 DEF Whole
  <2>6. m \in 0 .. m /\ m <= m
    OBVIOUS
  <2>7. job'[c].read = m /\ job'[c].at = "start"
    BY <1>2, <1>3, <2>1
  <2> HIDE DEF j, more
  <2>8. Copied(job[c], before[c], m)'
    BY <1>7, <2>3, <2>4, <2>5, <2>6, <2>7 DEF Copied
  <2> QED BY <2>6, <2>7, <2>8
<1> HIDE DEF more, j
<1>9. JobInv(job[c], before[c])'
  <2>1. job'[c].stmt = job[c].stmt /\ job'[c].at = "start" /\ job[c].stmt.op = "select"
    BY <1>1, <1>2, <1>3 DEF Is
  <2>2. SelectInv(job[c], before[c])'
    BY <1>8, <2>1 DEF SelectInv
  <2> QED BY <2>1, <2>2 DEF JobInv
<1>10. Fit(rows \o more)
  BY <1>5, <1>6, FitConcat DEF Solo
<1>11. keyed /\ ~rekeyed => UniqueKeys(rows \o more)
  BY <1>5, <1>6, NoConflict DEF Solo
<1>12. Fit(rows)' /\ (keyed' /\ ~rekeyed' => UniqueKeys(rows)')
  BY <1>7, <1>10, <1>11 DEF Fit, UniqueKeys
<1> QED BY <1>2, <1>9, <1>12, SoloAfter

LEMMA RewritesSolo ==
  ASSUME TypeOK, Solo, NEW c \in Connections, Rewrites(c)
  PROVE  /\ job[c] # Idle /\ job[c].stmt \in Building /\ BuildInv(job[c], before[c])
         /\ source \in Seq(AnyRow) /\ before[c] \in Seq(AnyRow)
BY JobType DEF Rewrites, Solo, JobInv, TypeOK

LEMMA RebuildSolo ==
  ASSUME TypeOK, Solo, NEW c \in Connections, Rebuild(c) PROVE Solo'
<1>1. Rewrites(c) /\ job[c].at = "start"
  BY DEF Rebuild
<1>2. job[c] # Idle /\ job[c].stmt \in Building /\ BuildInv(job[c], before[c])
  BY <1>1, RewritesSolo
<1>3. CASE Throw(c)
  BY <1>2, <1>3, SoloEnds DEF Throw
<1>4. CASE ~Throw(c)
  <2> DEFINE new == Result(job[c].stmt, rows)
             j == [job[c] EXCEPT !.at = "built", !.chunk = new]
  <2>1. /\ job[c].stmt.op = "update" => ~TooBigIn(new)
        /\ Hold(c, "built", new) /\ Stay /\ GoesOn
    BY <1>4 DEF Rebuild
  <2> HIDE DEF new
  <2>2. Becomes(c, j) /\ job[c] \in AnyJob
    BY <1>2, <2>1, JobSteps, JobType DEF At
  <2>3. j.stmt = job[c].stmt /\ j.at = "built" /\ j.chunk = new
    BY <2>2 DEF AnyJob
  <2> HIDE DEF j
  <2>4. BuildInv(j, before[c])
    BY <1>2, <2>1, <2>3 DEF BuildInv, new
  <2>5. JobInv(j, before[c])
    BY <1>1, <1>2, <2>3, <2>4 DEF JobInv, Rewrites
  <2> QED BY <1>2, <2>1, <2>2, <2>5, SoloGoesOn
<1> QED BY <1>3, <1>4

LEMMA SetStorageSolo ==
  ASSUME TypeOK, Solo, NEW c \in Connections, SetStorage(c) PROVE Solo'
<1>1. Rewrites(c) /\ job[c].at = "built" /\ Write(job[c].chunk) /\ End(c, "ok")
  BY DEF SetStorage
<1>2. /\ job[c] # Idle /\ job[c].stmt \in Building /\ BuildInv(job[c], before[c])
      /\ source \in Seq(AnyRow) /\ rows \in Seq(AnyRow)
  BY <1>1, RewritesSolo DEF TypeOK
<1>3. OthersIdle(c)' /\ job'[c] = Idle
  <2>1. Becomes(c, Idle)
    BY <1>1 DEF End, Becomes
  <2> QED BY <1>2, <2>1, AloneRuns, OthersStayIdle DEF Solo
<1> DEFINE stmt == job[c].stmt
           new  == Result(stmt, rows)
<1>4. /\ rows' = new /\ UNCHANGED <<keyed, rekeyed>>
      /\ stmt.op = "update" => ~TooBigIn(new)
      /\ stmt.op = "update" /\ stmt.col = "key" => rekeyed
  BY <1>1, <1>2 DEF Write, BuildInv, given
<1>5. Fit(new)
  BY <1>2, <1>4, ResultFits DEF Solo
<1>6. keyed /\ ~rekeyed => UniqueKeys(new)
  BY <1>2, <1>4, ResultUnique DEF Solo
<1> HIDE DEF new
<1>7. Fit(rows)' /\ (keyed' /\ ~rekeyed' => UniqueKeys(rows)')
  BY <1>4, <1>5, <1>6 DEF Fit, UniqueKeys
<1> QED BY <1>3, <1>7, SoloAfter

(* A table without rows, and nothing that runs.                            *)
LEMMA SoloEmpty ==
  ASSUME rows = <<>>, \A c \in Connections : job[c] = Idle
  PROVE  Solo
<1>1. DOMAIN rows = {}
  OBVIOUS
<1> QED BY <1>1 DEF Solo, Alone, Fit, UniqueKeys

LEMMA ExecuteSolo ==
  ASSUME TypeOK, Solo, NEW c \in Connections, NEW stmt \in Statements[c], Execute(c, stmt), ~overlap'
  PROVE  Solo'
<1> DEFINE j == [stmt |-> stmt, at |-> "start", chunk |-> <<>>, read |-> 0]
<1>1. /\ Becomes(c, j) /\ job[c] = Idle /\ UNCHANGED <<source, keyed, rows>>
      /\ before' = [before EXCEPT ![c] = rows]
      /\ rekeyed' = (rekeyed \/ (stmt.op = "update" /\ stmt.col = "key"))
      /\ stmt.op \notin {"truncate", "begin", "commit", "rollback"}
  BY DEF Execute, Becomes, given
<1>2. OthersIdle(c)
  BY DEF Execute, Starts, OthersRun, OthersIdle
<1>3. OthersIdle(c)' /\ job'[c] = j
  BY <1>1, <1>2, OthersStayIdle
<1>4. Fit(rows)' /\ (keyed' /\ ~rekeyed' => UniqueKeys(rows)')
  BY <1>1 DEF Solo, Fit, UniqueKeys
<1>5. j.stmt = stmt /\ j.at = "start" /\ j.read = 0
  OBVIOUS
<1>6. stmt \in AnyStatement
  BY TableWritesAssumption
<1>7. before'[c] = rows' /\ rows' \in Seq(AnyRow) /\ source' \in Seq(AnyRow)
  BY <1>1 DEF TypeOK
<1>8. job'[c].stmt = stmt /\ job'[c].at = "start" /\ job'[c].read = 0
  BY <1>3, <1>5
<1> HIDE DEF j
<1>9. CASE stmt.op = "values"
  <2>1. ValuesInv(job[c], before[c])'
    BY <1>7, <1>8 DEF ValuesInv
  <2>2. JobInv(job[c], before[c])'
    BY <1>8, <1>9, <2>1 DEF JobInv
  <2> QED BY <1>3, <1>4, <2>2, SoloAfter
<1>10. CASE stmt.op = "select"
  <2>1. Whole(0)'
    <3>1. 0 % VectorSize = 0
      BY VectorAssumption
    <3> QED BY <3>1 DEF Whole
  <2>2. rows' = before'[c] \o SubSeq(source', 1, 0)
    BY <1>7
  <2>3. 0 <= Len(source') /\ 0 \in 0 .. 0
    BY <1>7
  <2>4. Copied(job[c], before[c], 0)'
    BY <1>8, <2>1, <2>2, <2>3 DEF Copied
  <2>5. SelectInv(job[c], before[c])'
    BY <1>8, <2>3, <2>4 DEF SelectInv
  <2>6. JobInv(job[c], before[c])'
    BY <1>8, <1>10, <2>5 DEF JobInv
  <2> QED BY <1>3, <1>4, <2>6, SoloAfter
<1>11. CASE stmt.op \notin {"values", "select"}
  <2>1. stmt \in Building
    BY <1>1, <1>6, <1>11 DEF AnyStatement, Building
  <2>2. BuildInv(job[c], before[c])'
    BY <1>1, <1>7, <1>8 DEF BuildInv
  <2>3. JobInv(job[c], before[c])'
    BY <1>8, <1>11, <2>1, <2>2 DEF JobInv
  <2> QED BY <1>3, <1>4, <2>3, SoloAfter
<1> QED BY <1>9, <1>10, <1>11

LEMMA InitIInv == Init => IInv
BY InitTypeOK, SoloEmpty DEF Init, IInv

LEMMA NextIInv == IInv /\ [Next]_vars => IInv'
<1> SUFFICES ASSUME IInv, [Next]_vars, ~overlap' PROVE Solo'
  BY NextTypeOK DEF IInv
<1>1. TypeOK
  BY DEF IInv
<1>2. ASSUME NEW c \in Connections, Abort(c) PROVE Solo'
  <2>1. rows' = <<>> /\ \A d \in Connections : job'[d] = Idle
    BY <1>2 DEF Abort
  <2>2. DOMAIN (rows') = {}
    BY <2>1
  <2> QED BY <2>1, <2>2 DEF Solo, Alone, Fit, UniqueKeys
<1>3. ASSUME NEW c \in Connections, CheckValues(c) PROVE Solo'
  <2>1. ~overlap
    BY <1>3 DEF CheckValues, Throw, Stay
  <2> QED BY <1>1, <1>3, <2>1, CheckValuesSolo DEF IInv
<1>4. ASSUME NEW c \in Connections, AppendValues(c) PROVE Solo'
  <2>1. ~overlap
    BY <1>4 DEF AppendValues, Write
  <2> QED BY <1>1, <1>4, <2>1, AppendValuesSolo DEF IInv
<1>5. ASSUME NEW c \in Connections, Fetch(c) PROVE Solo'
  <2>1. ~overlap
    BY <1>1, <1>5, FetchSteps DEF Stay
  <2> QED BY <1>1, <1>5, <2>1, FetchSolo DEF IInv
<1>6. ASSUME NEW c \in Connections, CheckChunk(c) PROVE Solo'
  <2>1. ~overlap
    BY <1>6 DEF CheckChunk, Throw, Stay
  <2> QED BY <1>1, <1>6, <2>1, CheckChunkSolo DEF IInv
<1>7. ASSUME NEW c \in Connections, AppendChunk(c) PROVE Solo'
  <2>1. ~overlap
    BY <1>7 DEF AppendChunk, Write
  <2> QED BY <1>1, <1>7, <2>1, AppendChunkSolo DEF IInv
<1>8. ASSUME NEW c \in Connections, Rebuild(c) PROVE Solo'
  <2>1. ~overlap
    BY <1>8 DEF Rebuild, Throw, Stay
  <2> QED BY <1>1, <1>8, <2>1, RebuildSolo DEF IInv
<1>9. ASSUME NEW c \in Connections, SetStorage(c) PROVE Solo'
  <2>1. ~overlap
    BY <1>9 DEF SetStorage, Write
  <2> QED BY <1>1, <1>9, <2>1, SetStorageSolo DEF IInv
<1>10. ASSUME NEW c \in Connections, NEW stmt \in Statements[c], Execute(c, stmt) PROVE Solo'
  <2>1. ~overlap
    BY <1>10 DEF Execute, Starts
  <2> QED BY <1>1, <1>10, <2>1, ExecuteSolo DEF IInv
<1>11. ASSUME NEW c \in Connections, Truncate(c) PROVE Solo'
  <2>1. job[c] = Idle /\ OthersIdle(c) /\ rows' = <<>> /\ UNCHANGED job
    BY <1>11 DEF Truncate, Starts, OthersRun, OthersIdle
  <2>2. \A d \in Connections : job'[d] = Idle
    BY <2>1 DEF OthersIdle
  <2>3. DOMAIN (rows') = {}
    BY <2>1
  <2> QED BY <2>2, <2>3 DEF Solo, Alone, Fit, UniqueKeys
<1>12. ASSUME NEW c \in Connections, Begin(c) \/ Commit(c) \/ Rollback(c) PROVE Solo'
  <2>1. job[c] = Idle /\ Starts(c) /\ UNCHANGED <<given, rows, job, before, rekeyed>>
    BY <1>12 DEF Begin, Commit, Rollback, EndTransaction
  <2>2. ~overlap /\ \A d \in Connections : job'[d] = Idle
    BY <2>1 DEF Starts, OthersRun
  <2> QED BY <2>1, <2>2 DEF IInv, Solo, Alone, Fit, UniqueKeys, given
<1>13. CASE UNCHANGED vars
  <2>1. ~overlap /\ UNCHANGED <<source, keyed, rows, job, before, rekeyed>>
    BY <1>13 DEF vars, given, history
  <2>2. \A c \in Connections : JobInv(job[c], before[c])' <=> JobInv(job[c], before[c])
    BY <2>1 DEF JobInv, ValuesInv, SelectInv, BuildInv, Copied, Whole, Fit, Conflict, TooBigIn,
       Result, Updated, Kept, Merged, MergedRows
  <2> QED BY <2>1, <2>2 DEF IInv, Solo, Alone, Fit, UniqueKeys
<1> QED BY <1>2, <1>3, <1>4, <1>5, <1>6, <1>7, <1>8, <1>9, <1>10, <1>11, <1>12, <1>13 DEF Next, Step

LEMMA Invariant == Spec => []IInv
BY InitIInv, NextIInv, PTL DEF Spec

-----------------------------------------------------------------------------
(* What the statements promise                                             *)

(* As long as no two statements run at once and no UPDATE sets the key, no *)
(* INSERT, copy, MERGE or anything else leaves a key twice.                *)
THEOREM KeysStayUnique == Spec => []KeyIsUnique
<1>1. IInv => KeyIsUnique
  BY DEF IInv, Solo, UniqueKeys, KeyIsUnique
<1> QED BY Invariant, <1>1, PTL

(* Whatever a copy has appended when it throws is whole chunks of its      *)
(* source.                                                                 *)
THEOREM CopyIsAPrefix == Spec => []CopiesAPrefix
<1>1. IInv => CopiesAPrefix
  <2> SUFFICES ASSUME IInv, NEW c \in Connections, ~overlap, job[c] # Idle,
                      job[c].stmt.op = "select", job[c].stmt.from = "source"
               PROVE  \E n \in 0 .. job[c].read :
                        /\ rows = before[c] \o SubSeq(source, 1, n)
                        /\ n % VectorSize = 0 \/ n = Len(source)
    BY DEF CopiesAPrefix
  <2>1. SelectInv(job[c], before[c])
    BY DEF IInv, Solo, JobInv
  <2> QED BY <2>1 DEF SelectInv, Copied, Whole
<1> QED BY Invariant, <1>1, PTL

(* A statement that ends has done all it says or, if it throws, nothing.   *)
LEMMA EndsWhole ==
  ASSUME IInv, Next, NEW c \in Connections, Ends(c), ~overlap
  PROVE  /\ outcome' = "ok" => Effect(job[c].stmt, before[c], rows')
         /\ outcome' = "threw" /\ job[c].stmt.op # "select" => rows' = before[c]
<1>1. TypeOK /\ Solo /\ job[c] # Idle /\ job'[c] = Idle
  BY DEF IInv, Ends
<1>2. OthersIdle(c)
  BY <1>1, AloneRuns DEF Solo
<1>3. JobInv(job[c], before[c])
  BY <1>1 DEF Solo
<1>4. PICK d \in Connections :
        \/ \E stmt \in Statements[d] : Execute(d, stmt)
        \/ Step(d) \/ Truncate(d) \/ Begin(d) \/ Commit(d) \/ Rollback(d)
  BY DEF Next
<1>5. CASE d # c
  <2>1. job[d] = Idle
    BY <1>2, <1>5 DEF OthersIdle
  <2>2. ~Step(d)
    BY <2>1 DEF Step, CheckValues, AppendValues, Fetch, CheckChunk, AppendChunk, Rebuild, Abort,
       SetStorage, Rewrites, Is
  <2>3. job'[c] = job[c]
    BY <1>1, <1>4, <1>5, <2>2 DEF Execute, Truncate, Begin, Commit, Rollback, EndTransaction, TypeOK
  <2> QED BY <1>1, <2>3
<1>6. CASE d = c
  <2>1. Step(c)
    BY <1>1, <1>4, <1>6 DEF Execute, Truncate, Begin, Commit, Rollback, EndTransaction
  <2> DEFINE stmt == job[c].stmt
             Promise == /\ outcome' = "ok" => Effect(stmt, before[c], rows')
                        /\ outcome' = "threw" /\ stmt.op # "select" => rows' = before[c]
  <2>2. \A j \in AnyJob : ~Becomes(c, j)
    <3> SUFFICES ASSUME NEW j \in AnyJob, Becomes(c, j) PROVE FALSE
      OBVIOUS
    <3>1. job'[c] = j
      BY <1>1, <1>2, OthersStayIdle
    <3> QED BY <1>1, <3>1, TableWritesAssumption
  <2>3. /\ \A at \in At : ~Goto(c, at)
        /\ \A at \in At : \A chunk \in Seq(AnyRow) : ~Hold(c, at, chunk)
    <3>1. ASSUME NEW at \in At PROVE ~Goto(c, at)
      BY <1>1, <2>2, JobSteps
    <3>2. ASSUME NEW at \in At, NEW chunk \in Seq(AnyRow) PROVE ~Hold(c, at, chunk)
      <4> DEFINE j == [job[c] EXCEPT !.at = at, !.chunk = chunk]
      <4>1. j \in AnyJob /\ (Hold(c, at, chunk) => Becomes(c, j))
        BY <1>1, JobSteps
      <4> HIDE DEF j
      <4> QED BY <2>2, <4>1
    <3> QED BY <3>1, <3>2
  <2>4. ASSUME Throw(c), rows = before[c] \/ stmt.op = "select" PROVE Promise
    BY <2>4 DEF Throw, End, Stay
  <2>5. CASE CheckValues(c)
    <3>1. Throw(c)
      BY <2>3, <2>5 DEF CheckValues, At
    <3>2. rows = before[c]
      BY <1>3, <2>5 DEF CheckValues, Is, JobInv, ValuesInv
    <3> QED BY <2>4, <3>1, <3>2
  <2>6. CASE AppendValues(c)
    <3>1. outcome' = "ok" /\ rows' = rows \o stmt.rows /\ stmt.op = "values"
      BY <2>6 DEF AppendValues, End, Write, Is
    <3>2. rows = before[c]
      BY <1>3, <3>1 DEF JobInv, ValuesInv
    <3> QED BY <3>1, <3>2 DEF Effect
  <2>7. CASE Fetch(c)
    <3>1. Is(c, "select", "start")
      BY <2>7 DEF Fetch
    <3>2. CASE /\ Read(c) = <<>> \/ job[c].read = Len(Read(c))
               /\ End(c, "ok") /\ Stay
      <4>1. outcome' = "ok" /\ rows' = rows
        BY <3>2 DEF End, Stay
      <4>2. ASSUME stmt.from = "source" PROVE rows = before[c] \o source
        <5>1. SelectInv(job[c], before[c])
          BY <1>3, <3>1 DEF JobInv, Is
        <5>2. PICK n \in 0 .. job[c].read : Copied(job[c], before[c], n)
          BY <4>2, <5>1 DEF SelectInv
        <5>3. rows = before[c] \o SubSeq(source, 1, job[c].read) /\ job[c].read <= Len(source)
          BY <3>1, <5>2 DEF Copied, Is
        <5>4. source \in Seq(AnyRow) /\ job[c].read \in Nat
          BY <1>1, JobType DEF TypeOK
        <5>5. source = <<>> \/ job[c].read = Len(source)
          BY <3>2, <4>2 DEF Read
        <5>6. job[c].read = Len(source)
          <6>1. source = <<>> => Len(source) = 0
            OBVIOUS
          <6> QED BY <5>3, <5>4, <5>5, <6>1
        <5>7. SubSeq(source, 1, Len(source)) = source
          BY <5>4
        <5> QED BY <5>3, <5>6, <5>7
      <4> QED BY <3>1, <4>1, <4>2 DEF Effect, Is
    <3>3. CASE \E n \in Nat \ {0}, chunk \in Seq(AnyRow) :
                 Becomes(c, [job[c] EXCEPT !.at = "fetched", !.chunk = chunk, !.read = @ + n])
      <4>1. PICK n \in Nat \ {0}, chunk \in Seq(AnyRow) :
              Becomes(c, [job[c] EXCEPT !.at = "fetched", !.chunk = chunk, !.read = @ + n])
        BY <3>3
      <4>2. job'[c] = [job[c] EXCEPT !.at = "fetched", !.chunk = chunk, !.read = @ + n]
        BY <1>1, <1>2, <4>1, OthersStayIdle
      <4>3. job[c] \in AnyJob /\ job[c].read + n \in Nat
        BY <1>1, JobType
      <4>4. job'[c] \in AnyJob
        <5> DEFINE S == Seq(AnyRow)
                   St == AnyStatement
        <5>1. chunk \in S /\ AnyJob = [stmt : St, at : At, chunk : S, read : Nat]
          BY DEF AnyJob, At
        <5> HIDE DEF S, St
        <5> QED BY <4>2, <4>3, <5>1 DEF At
      <4> QED BY <1>1, <4>4, TableWritesAssumption
    <3> QED BY <1>1, <2>7, <3>2, <3>3, FetchSteps
  <2>8. CASE CheckChunk(c)
    <3>1. Throw(c) /\ stmt.op = "select"
      BY <2>3, <2>8 DEF CheckChunk, At, Is
    <3> QED BY <2>4, <3>1
  <2>9. ~AppendChunk(c)
    BY <2>3, NoRows DEF AppendChunk, At
  <2>10. CASE Rebuild(c)
    <3>1. Rewrites(c)
      BY <2>10 DEF Rebuild
    <3>2. stmt \in Building /\ BuildInv(job[c], before[c]) /\ source \in Seq(AnyRow) /\ rows \in Seq(AnyRow)
      BY <1>1, <3>1, RewritesSolo DEF TypeOK
    <3>3. Result(stmt, rows) \in Seq(AnyRow)
      BY <3>2, ResultType
    <3>4. Throw(c)
      BY <2>3, <2>10, <3>3 DEF Rebuild, At
    <3> QED BY <2>4, <3>2, <3>4 DEF BuildInv
  <2>11. CASE Abort(c)
    BY <2>11 DEF Abort
  <2>12. CASE SetStorage(c)
    <3>1. Rewrites(c) /\ job[c].at = "built" /\ rows' = job[c].chunk /\ outcome' = "ok"
      BY <2>12 DEF SetStorage, Write, End
    <3>2. /\ stmt \in Building /\ BuildInv(job[c], before[c])
          /\ source \in Seq(AnyRow) /\ before[c] \in Seq(AnyRow)
      BY <1>1, <3>1, RewritesSolo
    <3>3. rows' = Result(stmt, before[c]) /\ rows = before[c]
      BY <3>1, <3>2 DEF BuildInv
    <3>4. Effect(stmt, before[c], Result(stmt, before[c]))
      BY <1>1, <3>2, <3>3, ResultEffect DEF Solo
    <3>5. Effect(stmt, before[c], rows')
      BY <3>3, <3>4
    <3> QED BY <3>1, <3>5
  <2> QED BY <2>1, <2>5, <2>6, <2>7, <2>8, <2>9, <2>10, <2>11, <2>12 DEF Step
<1> QED BY <1>5, <1>6

(* A statement that runs alone and succeeds has its whole effect on the    *)
(* table; one that throws leaves the table as it found it, unless it is a  *)
(* copy.                                                                   *)
THEOREM StatementsAreWhole == Spec => AllOrNothing
<1> DEFINE Promise == \A c \in Connections : Ends(c) /\ ~overlap =>
                        LET stmt == job[c].stmt
                        IN  /\ outcome' = "ok" => Effect(stmt, before[c], rows')
                            /\ outcome' = "threw" /\ stmt.op # "select" => rows' = before[c]
<1>1. IInv /\ [Next]_vars => [Promise]_vars
  BY EndsWhole
<1> QED BY Invariant, <1>1, PTL DEF Spec, AllOrNothing

-----------------------------------------------------------------------------
(* WITH RECURSIVE                                                          *)

(* What is made of rows: of one row after another, and each row that is    *)
(* made is made of a row at some place.                                    *)

AllRows == DOMAIN query.yields

LEMMA YieldsType ==
  ASSUME IsRecursion(query), NEW list \in Seq(AllRows)
  PROVE  /\ \A v \in AllRows : query.yields[v] \in Seq(AllRows)
         /\ [i \in DOMAIN list |-> query.yields[list[i]]] \in Seq(Seq(AllRows))
         /\ MadeOf(list) \in Seq(AllRows)
<1> DEFINE V == AllRows
           f == query.yields
           s == [i \in DOMAIN list |-> f[list[i]]]
<1>1. f \in Seq(Seq(V)) /\ V = DOMAIN f
  BY DEF IsRecursion, AllRows
<1>2. list \in Seq(V)
  OBVIOUS
<1> HIDE DEF f, V
<1>3. \A v \in V : f[v] \in Seq(V)
  BY <1>1
<1>4. s \in Seq(Seq(V))
  <2>1. DOMAIN s = 1 .. Len(list) /\ Len(list) \in Nat /\ \A i \in 1 .. Len(list) : s[i] \in Seq(V)
    BY <1>2, <1>3
  <2>2. s = [i \in 1 .. Len(list) |-> s[i]]
    BY <1>2
  <2> HIDE DEF s
  <2>3. s \in [1 .. Len(list) -> Seq(V)]
    BY <2>1, <2>2
  <2> QED BY <2>1, <2>3, SeqDef
<1>5. FlattenSeq(s) \in Seq(V)
  <2> HIDE DEF s
  <2> QED BY <1>4, FlattenType
<1> QED BY <1>3, <1>4, <1>5 DEF V, f, MadeOf

LEMMA MadeOfNone == MadeOf(<<>>) = <<>>
<1>1. [i \in DOMAIN <<>> |-> query.yields[<<>>[i]]] = <<>>
  OBVIOUS
<1> QED BY <1>1, FlattenEmpty DEF MadeOf

(* Two sequences that are one behind the other are so in what is made of   *)
(* each member, too.                                                       *)
IsJoint(u, s, t) == u = s \o t
EachOf(f, s) == [i \in DOMAIN s |-> f[s[i]]]

LEMMA EachOfConcat ==
  ASSUME NEW V, NEW W, NEW f \in [V -> W], NEW r \in Seq(V), NEW m \in Seq(V)
  PROVE  IsJoint(EachOf(f, r \o m), EachOf(f, r), EachOf(f, m))
<1> DEFINE a == [i \in DOMAIN r |-> f[r[i]]]
           b == [i \in DOMAIN m |-> f[m[i]]]
           c == r \o m
<1>1. /\ Len(r) \in Nat /\ Len(m) \in Nat /\ DOMAIN r = 1 .. Len(r) /\ DOMAIN m = 1 .. Len(m)
      /\ DOMAIN c = 1 .. Len(r) + Len(m)
      /\ \A i \in 1 .. Len(r) : c[i] = r[i]
      /\ \A i \in 1 .. Len(r) + Len(m) : i > Len(r) => i - Len(r) \in 1 .. Len(m) /\ c[i] = m[i - Len(r)]
  OBVIOUS
<1>2. /\ a \in Seq(W) /\ b \in Seq(W) /\ Len(a) = Len(r) /\ Len(b) = Len(m)
      /\ \A i \in 1 .. Len(r) : a[i] = f[r[i]]
      /\ \A i \in 1 .. Len(m) : b[i] = f[m[i]]
  <2>1. \A i \in 1 .. Len(r) : f[r[i]] \in W
    OBVIOUS
  <2>2. \A i \in 1 .. Len(m) : f[m[i]] \in W
    OBVIOUS
  <2>3. a \in [1 .. Len(r) -> W] /\ b \in [1 .. Len(m) -> W]
    BY <1>1, <2>1, <2>2
  <2>4. a \in Seq(W) /\ b \in Seq(W)
    BY <2>3, <1>1, SeqDef
  <2> QED BY <2>3, <2>4, <1>1
<1> DEFINE d == a \o b
           e == [i \in DOMAIN c |-> f[c[i]]]
<1> HIDE DEF a, b, c
<1>3. /\ d = [i \in DOMAIN d |-> d[i]] /\ DOMAIN d = 1 .. Len(r) + Len(m)
      /\ \A i \in 1 .. Len(r) : d[i] = a[i]
      /\ \A i \in 1 .. Len(r) + Len(m) : i > Len(r) => d[i] = b[i - Len(r)]
  <2>1. /\ d \in Seq(W) /\ Len(d) = Len(r) + Len(m)
        /\ \A i \in 1 .. Len(d) : d[i] = IF i <= Len(a) THEN a[i] ELSE b[i - Len(a)]
    <3>1. a \in Seq(W) /\ b \in Seq(W)
      BY <1>2
    <3>2. /\ a \o b \in Seq(W)
          /\ Len(a \o b) = Len(a) + Len(b)
          /\ \A i \in 1 .. Len(a) + Len(b) : (a \o b)[i] = IF i <= Len(a) THEN a[i] ELSE b[i - Len(a)]
      BY <3>1
    <3>3. Len(d) = Len(a) + Len(b)
      BY <3>2
    <3>4. \A i \in 1 .. Len(d) : d[i] = IF i <= Len(a) THEN a[i] ELSE b[i - Len(a)]
      BY <3>2, <3>3, Zenon
    <3> QED BY <1>2, <3>2, <3>3, <3>4
  <2> HIDE DEF d
  <2>2. d = [i \in DOMAIN d |-> d[i]] /\ DOMAIN d = 1 .. Len(r) + Len(m)
    BY <1>1, <2>1
  <2>3. \A i \in 1 .. Len(r) : i \in 1 .. Len(r) + Len(m) /\ i <= Len(r)
    BY <1>1
  <2> QED BY <1>1, <1>2, <2>1, <2>2, <2>3
<1>4. ASSUME NEW i \in 1 .. Len(r) + Len(m) PROVE f[c[i]] = d[i]
  <2>1. CASE i \in 1 .. Len(r)
    BY <1>1, <1>2, <1>3, <2>1
  <2>2. CASE i > Len(r)
    <3>1. i - Len(r) \in 1 .. Len(m) /\ c[i] = m[i - Len(r)] /\ d[i] = b[i - Len(r)]
      BY <1>1, <1>3, <2>2
    <3> QED BY <1>2, <3>1
  <2>3. i \in 1 .. Len(r) \/ i > Len(r)
    BY <1>1
  <2> QED BY <2>1, <2>2, <2>3
<1>5. e = [i \in 1 .. Len(r) + Len(m) |-> d[i]]
  BY <1>1, <1>4
<1> HIDE DEF d
<1>6. e = d
  BY <1>3, <1>5
<1> QED BY <1>6 DEF a, b, c, d, EachOf, IsJoint

LEMMA MadeOfMore ==
  ASSUME IsRecursion(query), NEW list \in Seq(AllRows), NEW more \in Seq(AllRows)
  PROVE  MadeOf(list \o more) = MadeOf(list) \o MadeOf(more)
<1> DEFINE V == AllRows
           f == query.yields
           s == [i \in DOMAIN list |-> f[list[i]]]
           t == [i \in DOMAIN more |-> f[more[i]]]
<1>1. s \in Seq(Seq(V)) /\ t \in Seq(Seq(V))
  BY YieldsType
<1>2. f \in [V -> Seq(V)]
  BY DEF IsRecursion, AllRows
<1>3. list \in Seq(V) /\ more \in Seq(V)
  OBVIOUS
<1>4. [i \in DOMAIN (list \o more) |-> f[(list \o more)[i]]] = s \o t
  <2> HIDE DEF V, f
  <2>1. IsJoint(EachOf(f, list \o more), EachOf(f, list), EachOf(f, more))
    BY <1>2, <1>3, EachOfConcat
  <2> QED BY <2>1 DEF EachOf, IsJoint
<1>5. FlattenSeq(s \o t) = FlattenSeq(s) \o FlattenSeq(t)
  <2> HIDE DEF s, t, V
  <2> QED BY <1>1, FlattenConcat
<1> QED BY <1>4, <1>5 DEF MadeOf

LEMMA MadeOfOne ==
  ASSUME IsRecursion(query), NEW v \in AllRows
  PROVE  MadeOf(<<v>>) = query.yields[v]
<1> DEFINE V == AllRows
           yield == query.yields[v]
<1>0. yield \in Seq(V)
  BY YieldsType, EmptySeq
<1>1. [i \in DOMAIN <<v>> |-> query.yields[<<v>>[i]]] = Append(<<>>, yield)
  OBVIOUS
<1>2. <<>> \in Seq(Seq(V))
  OBVIOUS
<1> HIDE DEF yield, V
<1>3. FlattenSeq(Append(<<>>, yield)) = FlattenSeq(<<>>) \o yield
  BY <1>0, <1>2, FlattenAppend
<1>4. <<>> \o yield = yield
  BY <1>0
<1> QED BY <1>1, <1>3, <1>4, FlattenEmpty DEF MadeOf, yield

(* The places of what is made: each row that is made is, for one number of *)
(* a row and one number n, the n-th that this row yields, and each of      *)
(* these is made once.                                                     *)
IsPlacing(row, nth, list) ==
  LET made == MadeOf(list)
  IN  /\ \A x \in DOMAIN made :
           /\ row[x] \in DOMAIN list
           /\ nth[x] \in DOMAIN query.yields[list[row[x]]]
           /\ made[x] = query.yields[list[row[x]]][nth[x]]
      /\ \A x, y \in DOMAIN made : row[x] = row[y] /\ nth[x] = nth[y] => x = y
      /\ \A i \in DOMAIN list : \A j \in DOMAIN query.yields[list[i]] :
           \E x \in DOMAIN made : row[x] = i /\ nth[x] = j

LEMMA PlacingNext ==
  ASSUME IsRecursion(query), NEW list \in Seq(AllRows), NEW v \in AllRows,
         NEW row, NEW nth, IsPlacing(row, nth, list)
  PROVE  \E r, t : IsPlacing(r, t, Append(list, v))
<1> DEFINE V == AllRows
           made == MadeOf(list)
           yield == query.yields[v]
           n == Len(made)
           k == Len(list) + 1
           m == Len(yield)
           more == Append(list, v)
           r == [x \in 1 .. n + m |-> IF x <= n THEN row[x] ELSE k]
           t == [x \in 1 .. n + m |-> IF x <= n THEN nth[x] ELSE x - n]
           all == MadeOf(more)
<1>1. made \in Seq(V) /\ yield \in Seq(V)
  BY YieldsType
<1>2. /\ list \in Seq(V) /\ more \in Seq(V) /\ Len(more) = k /\ more[k] = v /\ k \in Nat
      /\ DOMAIN list = 1 .. k - 1 /\ DOMAIN more = 1 .. k /\ k > 0
      /\ \A i \in 1 .. k - 1 : more[i] = list[i]
  OBVIOUS
<1>3. all = made \o yield
  <2>1. more = list \o <<v>> /\ <<v>> \in Seq(AllRows)
    OBVIOUS
  <2> QED BY <2>1, MadeOfOne, MadeOfMore
<1>4. /\ \A x \in DOMAIN made :
           /\ row[x] \in DOMAIN list
           /\ nth[x] \in DOMAIN query.yields[list[row[x]]]
           /\ made[x] = query.yields[list[row[x]]][nth[x]]
      /\ \A x, y \in DOMAIN made : row[x] = row[y] /\ nth[x] = nth[y] => x = y
      /\ \A i \in DOMAIN list : \A j \in DOMAIN query.yields[list[i]] :
           \E x \in DOMAIN made : row[x] = i /\ nth[x] = j
  BY DEF IsPlacing
<1> HIDE DEF V, more, k, all, made, yield
<1>5. /\ n \in Nat /\ m \in Nat /\ DOMAIN made = 1 .. n /\ DOMAIN yield = 1 .. m /\ DOMAIN all = 1 .. n + m
      /\ \A x \in 1 .. n : all[x] = made[x]
      /\ \A x \in 1 .. n + m : x > n => x - n \in 1 .. m /\ all[x] = yield[x - n]
  BY <1>1, <1>3
<1> HIDE DEF n, m
<1>6. \A x \in 1 .. n : x \in 1 .. n + m /\ r[x] = row[x] /\ t[x] = nth[x] /\ x <= n
  BY <1>5
<1>7. \A x \in 1 .. n + m : x > n => r[x] = k /\ t[x] = x - n
  BY <1>5
<1>8. \A x \in 1 .. n + m : x \in 1 .. n \/ x > n
  BY <1>5
<1> HIDE DEF r, t
<1>9. ASSUME NEW x \in 1 .. n + m
      PROVE  /\ r[x] \in 1 .. k
             /\ t[x] \in DOMAIN query.yields[more[r[x]]]
             /\ all[x] = query.yields[more[r[x]]][t[x]]
  <2>1. CASE x \in 1 .. n
    <3>1. row[x] \in 1 .. k - 1 /\ more[row[x]] = list[row[x]]
      BY <1>2, <1>4, <1>5, <2>1
    <3>2. row[x] \in 1 .. k
      BY <3>1, <1>2
    <3>3. x \in DOMAIN made /\ r[x] = row[x] /\ t[x] = nth[x] /\ all[x] = made[x]
      BY <1>5, <1>6, <2>1
    <3> QED BY <3>1, <3>2, <3>3, <1>4
  <2>2. CASE x > n
    <3>1. more[r[x]] = v /\ r[x] \in 1 .. k
      BY <1>2, <1>7, <2>2
    <3>2. t[x] = x - n /\ x - n \in 1 .. m /\ all[x] = yield[x - n]
      BY <1>5, <1>7, <2>2
    <3>3. yield = query.yields[more[r[x]]]
      BY <3>1 DEF yield
    <3> QED BY <3>1, <3>2, <3>3, <1>5
  <2> QED BY <2>1, <2>2, <1>8
<1>10. ASSUME NEW x \in 1 .. n PROVE r[x] # k
  <2>1. row[x] \in 1 .. k - 1
    BY <1>2, <1>4, <1>5
  <2> QED BY <2>1, <1>2, <1>6
<1>11. ASSUME NEW x \in 1 .. n + m, NEW y \in 1 .. n + m, r[x] = r[y], t[x] = t[y]
       PROVE  x = y
  <2>1. CASE x \in 1 .. n /\ y \in 1 .. n
    BY <2>1, <1>4, <1>5, <1>6, <1>11
  <2>2. CASE ~(x \in 1 .. n /\ y \in 1 .. n)
    <3>1. x > n /\ y > n
      BY <2>2, <1>7, <1>8, <1>10, <1>11
    <3>2. x - n = y - n
      BY <3>1, <1>7, <1>11
    <3> QED BY <3>2, <1>5
  <2> QED BY <2>1, <2>2
<1>12. ASSUME NEW i \in 1 .. k, NEW j \in DOMAIN query.yields[more[i]]
       PROVE  \E x \in 1 .. n + m : r[x] = i /\ t[x] = j
  <2>1. CASE i = k
    <3>1. j \in 1 .. m
      BY <2>1, <1>2, <1>5 DEF yield
    <3>2. n + j \in 1 .. n + m /\ n + j > n /\ (n + j) - n = j
      BY <3>1, <1>5
    <3> QED BY <2>1, <3>2, <1>7
  <2>2. CASE i # k
    <3>1. i \in 1 .. k - 1
      BY <2>2, <1>2
    <3>2. more[i] = list[i] /\ i \in DOMAIN list
      BY <3>1, <1>2
    <3>3. PICK x \in 1 .. n : row[x] = i /\ nth[x] = j
      BY <3>2, <1>4, <1>5
    <3> QED BY <3>3, <1>6
  <2> QED BY <2>1, <2>2
<1>13. IsPlacing(r, t, more)
  <2>1. DOMAIN all = 1 .. n + m /\ DOMAIN more = 1 .. k
    BY <1>2, <1>5
  <2>2. /\ \A x \in DOMAIN all :
             /\ r[x] \in DOMAIN more
             /\ t[x] \in DOMAIN query.yields[more[r[x]]]
             /\ all[x] = query.yields[more[r[x]]][t[x]]
        /\ \A x, y \in DOMAIN all : r[x] = r[y] /\ t[x] = t[y] => x = y
        /\ \A i \in DOMAIN more : \A j \in DOMAIN query.yields[more[i]] :
             \E x \in DOMAIN all : r[x] = i /\ t[x] = j
    <3>1. \A x \in DOMAIN all :
             /\ r[x] \in DOMAIN more
             /\ t[x] \in DOMAIN query.yields[more[r[x]]]
             /\ all[x] = query.yields[more[r[x]]][t[x]]
      BY <2>1, <1>9
    <3>2. \A x, y \in DOMAIN all : r[x] = r[y] /\ t[x] = t[y] => x = y
      BY <2>1, <1>11
    <3>3. \A i \in DOMAIN more : \A j \in DOMAIN query.yields[more[i]] :
             \E x \in DOMAIN all : r[x] = i /\ t[x] = j
      BY <2>1, <1>12
    <3> QED BY <3>1, <3>2, <3>3
  <2> QED BY <2>2, Zenon DEF IsPlacing, all
<1> QED BY <1>13 DEF more

LEMMA Placing ==
  ASSUME IsRecursion(query), NEW list \in Seq(AllRows)
  PROVE  \E row, nth : IsPlacing(row, nth, list)
<1> DEFINE S == {s \in Seq(AllRows) : \E row, nth : IsPlacing(row, nth, s)}
<1>1. <<>> \in S
  <2>1. MadeOf(<<>>) = <<>> /\ DOMAIN <<>> = {} /\ <<>> \in Seq(AllRows)
    BY MadeOfNone
  <2>2. IsPlacing(<<>>, <<>>, <<>>)
    BY <2>1, Zenon DEF IsPlacing
  <2> QED BY <2>1, <2>2
<1>2. ASSUME NEW s \in Seq(AllRows), NEW e \in AllRows, s \in S PROVE Append(s, e) \in S
  <2>1. PICK row, nth : IsPlacing(row, nth, s)
    BY <1>2
  <2>2. Append(s, e) \in Seq(AllRows)
    OBVIOUS
  <2> QED BY <2>1, <2>2, PlacingNext
<1>3. \A s \in Seq(AllRows) : s \in S
  <2> HIDE DEF S
  <2> QED BY <1>1, <1>2, SequenceInduction
<1> QED BY <1>3
(* The levels of the recursion, and those up to one, put together: all but *)
(* the first are made of those up to the one before.                       *)
Upto(n) == FlattenSeq([i \in 1 .. n + 1 |-> Level[i - 1]])

LEMMA LevelSteps ==
  ASSUME IsRecursion(query)
  PROVE  /\ Level \in [0 .. MaxIterations -> Seq(AllRows)]
         /\ Level[0] = query.base
         /\ \A n \in 1 .. MaxIterations : Level[n] = MadeOf(Level[n - 1])
<1> DEFINE S == Seq(AllRows)
           N == MaxIterations
           first == query.base
           step == [n \in Nat |-> [p \in S |-> MadeOf(p)]]
           IsLevel(q) == q = [n \in 0 .. N |-> IF n = 0 THEN first ELSE MadeOf(q[n - 1])]
<1>1. N \in Nat /\ first \in S /\ step \in [Nat -> [S -> S]]
  <2>1. N \in Nat /\ first \in S
    BY RecursionAssumption DEF IsRecursion, AllRows
  <2>2. \A p \in S : MadeOf(p) \in S
    BY YieldsType
  <2> HIDE DEF S, N, first
  <2> QED BY <2>1, <2>2
<1>2. PICK f : Computes(f, first, step, S, N)
  <2> HIDE DEF step, N, S, first
  <2> QED BY <1>1, Recursion
<1> USE DEF Computes
<1>3. \A n \in 1 .. N : f[n] = MadeOf(f[n - 1])
  <2> SUFFICES ASSUME NEW n \in 1 .. N PROVE f[n] = MadeOf(f[n - 1])
    OBVIOUS
  <2>1. f[n - 1] \in S /\ n \in Nat
    <3>1. n - 1 \in 0 .. N /\ n \in Nat
      BY <1>1
    <3> HIDE DEF S, N, first, step
    <3> QED BY <1>2, <3>1
  <2> QED BY <1>2, <2>1
<1>4. IsLevel(f)
  <2>1. \A n \in 0 .. N : n # 0 => n \in 1 .. N
    BY <1>1
  <2>2. f \in [0 .. N -> S] /\ f[0] = first
    BY <1>2
  <2> HIDE DEF step, Computes, first, S, N
  <2> QED BY <2>1, <2>2, <1>3
<1>5. IsLevel(Level)
  <2> DEFINE h == CHOOSE q : IsLevel(q)
  <2>1. IsLevel(h)
    BY <1>4
  <2>2. Level = h
    BY DEF Level
  <2> HIDE DEF h
  <2> QED BY <2>1, <2>2
<1> DEFINE h == Level
<1>6. h = [n \in 0 .. N |-> IF n = 0 THEN first ELSE MadeOf(h[n - 1])]
  BY <1>5
<1> HIDE DEF h, first, N, step, IsLevel
<1>7. h[0] = first /\ \A n \in 1 .. N : h[n] = MadeOf(h[n - 1])
  <2>1. 0 \in 0 .. N /\ \A n \in 1 .. N : n \in 0 .. N /\ n # 0
    BY <1>1
  <2> QED BY <2>1, <1>6
<1>8. \A n \in Nat : n \in 0 .. N => h[n] \in S
  <2> DEFINE G == {n \in Nat : n \in 0 .. N => h[n] \in S}
  <2>1. 0 \in G
    BY <1>1, <1>7
  <2>2. ASSUME NEW n \in Nat, n \in G PROVE n + 1 \in G
    <3> SUFFICES ASSUME n + 1 \in 0 .. N PROVE h[n + 1] \in S
      OBVIOUS
    <3>1. n \in 0 .. N /\ n + 1 \in 1 .. N /\ (n + 1) - 1 = n
      BY <1>1
    <3>2. h[n + 1] = MadeOf(h[n]) /\ h[n] \in S
      BY <3>1, <1>7, <2>2
    <3> QED BY <3>2, YieldsType
  <2>3. \A n \in Nat : n \in G
    <3> HIDE DEF G
    <3> QED BY <2>1, <2>2, Induction
  <2> QED BY <2>3
<1>9. h \in [0 .. N -> S]
  <2>1. \A n \in 0 .. N : h[n] \in S
    BY <1>1, <1>8
  <2> HIDE DEF S
  <2> QED BY <2>1, <1>6
<1> QED BY <1>7, <1>9 DEF h, N, first

LEMMA UptoSteps ==
  ASSUME IsRecursion(query)
  PROVE  /\ \A n \in 0 .. MaxIterations : Upto(n) \in Seq(AllRows)
         /\ Upto(0) = query.base
         /\ \A n \in 1 .. MaxIterations :
              /\ Upto(n) = Upto(n - 1) \o Level[n]
              /\ Upto(n) = query.base \o MadeOf(Upto(n - 1))
<1> DEFINE N == MaxIterations
           V == AllRows
           some(n) == [i \in 1 .. n + 1 |-> Level[i - 1]]
<1>1. N \in Nat
  BY RecursionAssumption
<1>2. /\ \A n \in 0 .. N : Level[n] \in Seq(V)
      /\ Level[0] = query.base /\ query.base \in Seq(V)
      /\ \A n \in 1 .. N : Level[n] = MadeOf(Level[n - 1])
  BY LevelSteps DEF IsRecursion, AllRows
<1>3. \A n \in 0 .. N : some(n) \in Seq(Seq(V))
  <2> SUFFICES ASSUME NEW n \in 0 .. N PROVE some(n) \in Seq(Seq(V))
    OBVIOUS
  <2>1. \A i \in 1 .. n + 1 : i - 1 \in 0 .. N
    BY <1>1
  <2> HIDE DEF V, N
  <2>2. some(n) \in [1 .. n + 1 -> Seq(V)] /\ n + 1 \in Nat
    BY <2>1, <1>2
  <2> QED BY <2>2, SeqDef
<1>4. \A n \in 0 .. N : Upto(n) \in Seq(V)
  <2> HIDE DEF some, V
  <2>1. \A n \in 0 .. N : FlattenSeq(some(n)) \in Seq(V)
    BY <1>3, FlattenType
  <2> QED BY <2>1 DEF Upto, some
<1>5. Upto(0) = query.base
  <2>1. some(0) = Append(<<>>, Level[0])
    OBVIOUS
  <2>2. <<>> \in Seq(Seq(V)) /\ Level[0] \in Seq(V)
    BY <1>1, <1>2
  <2> HIDE DEF V
  <2>3. FlattenSeq(Append(<<>>, Level[0])) = FlattenSeq(<<>>) \o Level[0]
    BY <2>2, FlattenAppend
  <2>4. <<>> \o Level[0] = Level[0]
    BY <2>2
  <2> QED BY <2>1, <2>3, <2>4, <1>2, FlattenEmpty DEF Upto
<1>6. ASSUME NEW n \in 1 .. N PROVE Upto(n) = Upto(n - 1) \o Level[n]
  <2> DEFINE s == some(n - 1)
             e == Level[n]
  <2>1. n - 1 \in 0 .. N /\ n \in 0 .. N
    BY <1>1
  <2>2. s \in Seq(Seq(V)) /\ e \in Seq(V)
    BY <2>1, <1>2, <1>3
  <2>3. some(n) = Append(s, e)
    <3>1. Len(s) = n /\ Len(s) + 1 = n + 1
      BY <2>1
    <3>2. \A i \in 1 .. n + 1 : i # n + 1 => i \in 1 .. (n - 1) + 1
      BY <1>1
    <3>3. Append(s, e) = [i \in 1 .. n + 1 |-> IF i = n + 1 THEN e ELSE s[i]]
      BY <3>1 DEF Append
    <3>4. \A i \in 1 .. n + 1 : IF i = n + 1 THEN Level[i - 1] = e ELSE Level[i - 1] = s[i]
      BY <3>2, <1>1
    <3> HIDE DEF s, e
    <3> QED BY <3>3, <3>4
  <2> HIDE DEF s, e, V, some
  <2>4. FlattenSeq(Append(s, e)) = FlattenSeq(s) \o e
    BY <2>2, FlattenAppend
  <2>5. Upto(n) = FlattenSeq(some(n)) /\ Upto(n - 1) = FlattenSeq(s)
    BY DEF Upto, some, s
  <2> QED BY <2>3, <2>4, <2>5 DEF e
<1> DEFINE base == query.base
           P(n) == Upto(n + 1) = base \o MadeOf(Upto(n))
           S == {n \in Nat : n + 1 \in 1 .. N => P(n)}
<1>7. 0 \in S
  <2> SUFFICES ASSUME 1 \in 1 .. N PROVE Upto(1) = base \o MadeOf(Upto(0))
    OBVIOUS
  <2>1. 1 - 1 = 0
    OBVIOUS
  <2>2. Upto(1) = Upto(1 - 1) \o Level[1] /\ Level[1] = MadeOf(Level[1 - 1])
    BY <1>2, <1>6
  <2> QED BY <2>1, <2>2, <1>2, <1>5
<1>8. ASSUME NEW n \in Nat, n \in S PROVE n + 1 \in S
  <2> SUFFICES ASSUME (n + 1) + 1 \in 1 .. N PROVE P(n + 1)
    <3> HIDE DEF P
    <3> QED OBVIOUS
  <2>1. n + 1 \in 1 .. N /\ n \in 0 .. N /\ n + 1 \in 0 .. N /\ (n + 2) \in 0 .. N
    BY <1>1
  <2> DEFINE u == Upto(n)
             l == Level[n + 1]
  <2>2. Upto(n + 1) = base \o MadeOf(u) /\ Upto(n + 1) = u \o l
    <3>1. (n + 1) - 1 = n
      OBVIOUS
    <3> QED BY <1>8, <2>1, <3>1, <1>6
  <2>3. Upto((n + 1) + 1) = Upto(n + 1) \o MadeOf(l)
    <3>1. ((n + 1) + 1) - 1 = n + 1
      OBVIOUS
    <3> QED BY <3>1, <1>2, <1>6
  <2>4. u \in Seq(V) /\ l \in Seq(V) /\ MadeOf(u) \in Seq(V) /\ MadeOf(l) \in Seq(V) /\ base \in Seq(V)
    BY <2>1, <1>2, <1>4, YieldsType
  <2>5. MadeOf(u \o l) = MadeOf(u) \o MadeOf(l)
    BY <2>4, MadeOfMore
  <2> HIDE DEF u, l, V, base
  <2> DEFINE a == MadeOf(u)
             b == MadeOf(l)
  <2>6. (base \o a) \o b = base \o (a \o b)
    <3>1. base \in Seq(V) /\ a \in Seq(V) /\ b \in Seq(V)
      BY <2>4
    <3> HIDE DEF a, b
    <3> QED BY <3>1, ConcatAssociative
  <2> HIDE DEF a, b
  <2> QED BY <2>2, <2>3, <2>5, <2>6 DEF a, b
<1>9. \A n \in Nat : n \in S
  <2> HIDE DEF S
  <2> QED BY <1>7, <1>8, Induction
<1>10. ASSUME NEW n \in 1 .. N PROVE Upto(n) = base \o MadeOf(Upto(n - 1))
  <2>1. n - 1 \in Nat /\ (n - 1) + 1 = n
    BY <1>1
  <2>2. n - 1 \in S
    BY <2>1, <1>9
  <2> QED BY <2>1, <2>2
<1> QED BY <1>4, <1>5, <1>6, <1>10

-----------------------------------------------------------------------------
(* The rows of one sequence are in another one as often at least: each has *)
(* a place there of its own.                                               *)
IsEmbedding(e, s, t) ==
  /\ \A i \in DOMAIN s : e[i] \in DOMAIN t /\ t[e[i]] = s[i]
  /\ \A i, j \in DOMAIN s : e[i] = e[j] => i = j

Within(s, t) == \E e : IsEmbedding(e, s, t)

LEMMA WithinItself == ASSUME NEW s PROVE Within(s, s)
<1> DEFINE e == [i \in DOMAIN s |-> i]
<1>1. /\ \A i \in DOMAIN s : e[i] \in DOMAIN s /\ s[e[i]] = s[i]
      /\ \A i, j \in DOMAIN s : e[i] = e[j] => i = j
  OBVIOUS
<1> HIDE DEF e
<1> QED BY <1>1 DEF Within, IsEmbedding

LEMMA WithinLonger ==
  ASSUME NEW V, NEW s \in Seq(V), NEW t \in Seq(V), NEW u \in Seq(V), Within(s, t)
  PROVE  Within(s, t \o u)
<1>1. PICK e : /\ \A i \in DOMAIN s : e[i] \in DOMAIN t /\ t[e[i]] = s[i]
               /\ \A i, j \in DOMAIN s : e[i] = e[j] => i = j
  BY DEF Within, IsEmbedding
<1>2. \A x \in DOMAIN t : x \in DOMAIN (t \o u) /\ (t \o u)[x] = t[x]
  OBVIOUS
<1>3. IsEmbedding(e, s, t \o u)
  BY <1>1, <1>2 DEF IsEmbedding
<1> QED BY <1>3 DEF Within

LEMMA WithinBoth ==
  ASSUME NEW V, NEW a \in Seq(V), NEW b \in Seq(V), NEW s \in Seq(V), NEW t \in Seq(V),
         Within(a, s), Within(b, t)
  PROVE  Within(a \o b, s \o t)
<1>1. PICK e : /\ \A i \in DOMAIN a : e[i] \in DOMAIN s /\ s[e[i]] = a[i]
               /\ \A i, j \in DOMAIN a : e[i] = e[j] => i = j
  BY DEF Within, IsEmbedding
<1>2. PICK g : /\ \A i \in DOMAIN b : g[i] \in DOMAIN t /\ t[g[i]] = b[i]
               /\ \A i, j \in DOMAIN b : g[i] = g[j] => i = j
  BY DEF Within, IsEmbedding
<1> DEFINE n == Len(a)
           k == Len(s)
           ab == a \o b
           st == s \o t
           h == [i \in DOMAIN ab |-> IF i <= n THEN e[i] ELSE k + g[i - n]]
<1>3. /\ n \in Nat /\ k \in Nat /\ DOMAIN a = 1 .. n /\ DOMAIN s = 1 .. k
      /\ DOMAIN b = 1 .. Len(b) /\ DOMAIN t = 1 .. Len(t) /\ Len(b) \in Nat /\ Len(t) \in Nat
      /\ DOMAIN ab = 1 .. n + Len(b) /\ DOMAIN st = 1 .. k + Len(t)
      /\ \A i \in 1 .. n : ab[i] = a[i]
      /\ \A i \in 1 .. n + Len(b) : i > n => i - n \in 1 .. Len(b) /\ ab[i] = b[i - n]
      /\ \A i \in 1 .. k : st[i] = s[i]
      /\ \A i \in 1 .. k + Len(t) : i > k => st[i] = t[i - k]
  OBVIOUS
<1> HIDE DEF n, k, ab, st
<1>4. \A i \in 1 .. n + Len(b) : \/ i \in 1 .. n /\ h[i] = e[i]
                                 \/ i > n /\ i - n \in 1 .. Len(b) /\ h[i] = k + g[i - n]
  BY <1>3
<1> HIDE DEF h
<1>5. \A j \in 1 .. Len(b) : /\ g[j] \in 1 .. Len(t) /\ k + g[j] \in 1 .. k + Len(t) /\ k + g[j] > k
                             /\ (k + g[j]) - k = g[j]
  <2> SUFFICES ASSUME NEW j \in 1 .. Len(b)
               PROVE  /\ g[j] \in 1 .. Len(t) /\ k + g[j] \in 1 .. k + Len(t) /\ k + g[j] > k
                      /\ (k + g[j]) - k = g[j]
    OBVIOUS
  <2> DEFINE x == g[j]
             m == Len(t)
  <2>1. x \in 1 .. m /\ m \in Nat
    BY <1>2, <1>3
  <2> HIDE DEF x, m
  <2>2. x \in 1 .. m /\ k + x \in 1 .. k + m /\ k + x > k /\ (k + x) - k = x
    BY <1>3, <2>1
  <2> QED BY <2>2 DEF x, m
<1>6. \A i \in 1 .. n : e[i] \in 1 .. k /\ e[i] <= k /\ e[i] \in Int
  <2>1. \A i \in 1 .. n : e[i] \in 1 .. k
    BY <1>1, <1>3
  <2>2. \A x \in 1 .. k : x <= k /\ x \in Int
    BY <1>3
  <2> QED BY <2>1, <2>2
<1>7. ASSUME NEW i \in 1 .. n + Len(b) PROVE h[i] \in DOMAIN st /\ st[h[i]] = ab[i]
  <2>1. CASE i \in 1 .. n /\ h[i] = e[i]
    <3>1. e[i] \in 1 .. k /\ s[e[i]] = a[i]
      BY <1>1, <1>3, <1>6, <2>1
    <3>2. \A x \in 1 .. k : x \in 1 .. k + Len(t)
      BY <1>3
    <3> QED BY <1>3, <2>1, <3>1, <3>2
  <2>2. CASE i > n /\ i - n \in 1 .. Len(b) /\ h[i] = k + g[i - n]
    <3> DEFINE j == i - n
    <3>1. j \in 1 .. Len(b) /\ ab[i] = b[j] /\ h[i] = k + g[j]
      BY <1>3, <2>2
    <3> HIDE DEF j
    <3>2. t[g[j]] = b[j]
      BY <1>2, <1>3, <3>1
    <3>3. h[i] \in 1 .. k + Len(t) /\ h[i] > k /\ h[i] - k = g[j]
      BY <1>5, <3>1
    <3>4. st[h[i]] = t[h[i] - k]
      BY <1>3, <3>3
    <3> QED BY <1>3, <3>1, <3>2, <3>3, <3>4
  <2> QED BY <2>1, <2>2, <1>4
<1>8. ASSUME NEW i \in 1 .. n + Len(b), NEW j \in 1 .. n + Len(b), h[i] = h[j] PROVE i = j
  <2>1. CASE i \in 1 .. n /\ h[i] = e[i] /\ j \in 1 .. n /\ h[j] = e[j]
    BY <2>1, <1>1, <1>3, <1>8
  <2>2. CASE /\ i > n /\ i - n \in 1 .. Len(b) /\ h[i] = k + g[i - n]
             /\ j > n /\ j - n \in 1 .. Len(b) /\ h[j] = k + g[j - n]
    <3>1. g[i - n] = g[j - n]
      <4>1. (k + g[i - n]) - k = g[i - n] /\ (k + g[j - n]) - k = g[j - n]
        BY <1>5, <2>2
      <4> QED BY <4>1, <2>2, <1>8
    <3>2. i - n = j - n
      BY <1>2, <1>3, <2>2, <3>1
    <3> QED BY <3>2, <1>3
  <2>3. CASE i \in 1 .. n /\ h[i] = e[i] /\ j > n /\ j - n \in 1 .. Len(b) /\ h[j] = k + g[j - n]
    <3>1. h[i] <= k /\ h[j] > k /\ h[i] \in Int /\ k \in Int
      BY <2>3, <1>3, <1>5, <1>6
    <3> QED BY <3>1, <1>8
  <2>4. CASE j \in 1 .. n /\ h[j] = e[j] /\ i > n /\ i - n \in 1 .. Len(b) /\ h[i] = k + g[i - n]
    <3>1. h[j] <= k /\ h[i] > k /\ h[j] \in Int /\ k \in Int
      BY <2>4, <1>3, <1>5, <1>6
    <3> QED BY <3>1, <1>8
  <2>5. \/ i \in 1 .. n /\ h[i] = e[i]
        \/ i > n /\ i - n \in 1 .. Len(b) /\ h[i] = k + g[i - n]
    BY <1>4
  <2>6. \/ j \in 1 .. n /\ h[j] = e[j]
        \/ j > n /\ j - n \in 1 .. Len(b) /\ h[j] = k + g[j - n]
    BY <1>4
  <2> QED BY <2>1, <2>2, <2>3, <2>4, <2>5, <2>6
<1>9. Within(ab, st)
  <2>1. IsEmbedding(h, ab, st)
    BY <1>3, <1>7, <1>8 DEF IsEmbedding
  <2> QED BY <2>1 DEF Within
<1> QED BY <1>9 DEF ab, st

(* What is made of more rows has what is made of the others.               *)
LEMMA MadeWithin ==
  ASSUME IsRecursion(query), NEW s \in Seq(AllRows), NEW t \in Seq(AllRows), Within(s, t)
  PROVE  Within(MadeOf(s), MadeOf(t))
<1>1. PICK e : /\ \A i \in DOMAIN s : e[i] \in DOMAIN t /\ t[e[i]] = s[i]
               /\ \A i, j \in DOMAIN s : e[i] = e[j] => i = j
  BY DEF Within, IsEmbedding
<1>2. PICK sRow, sNth : IsPlacing(sRow, sNth, s)
  BY Placing
<1>3. PICK tRow, tNth : IsPlacing(tRow, tNth, t)
  BY Placing
<1> DEFINE ms == MadeOf(s)
           mt == MadeOf(t)
           IsAt(x, y) == y \in DOMAIN mt /\ tRow[y] = e[sRow[x]] /\ tNth[y] = sNth[x]
           h == [x \in DOMAIN ms |-> CHOOSE y : IsAt(x, y)]
<1>4. ASSUME NEW x \in DOMAIN ms PROVE IsAt(x, h[x])
  <2>1. sRow[x] \in DOMAIN s /\ sNth[x] \in DOMAIN query.yields[s[sRow[x]]]
    BY <1>2 DEF IsPlacing
  <2>2. e[sRow[x]] \in DOMAIN t /\ sNth[x] \in DOMAIN query.yields[t[e[sRow[x]]]]
    BY <2>1, <1>1
  <2>3. \E y : IsAt(x, y)
    BY <2>2, <1>3 DEF IsPlacing
  <2>4. h[x] = CHOOSE y : IsAt(x, y)
    OBVIOUS
  <2> QED BY <2>3, <2>4
<1> HIDE DEF h
<1>5. ASSUME NEW x \in DOMAIN ms PROVE h[x] \in DOMAIN mt /\ mt[h[x]] = ms[x]
  <2>1. IsAt(x, h[x])
    BY <1>4
  <2>2. /\ sRow[x] \in DOMAIN s
        /\ ms[x] = query.yields[s[sRow[x]]][sNth[x]]
    BY <1>2 DEF IsPlacing
  <2>3. mt[h[x]] = query.yields[t[tRow[h[x]]]][tNth[h[x]]]
    BY <2>1, <1>3 DEF IsPlacing
  <2> QED BY <2>1, <2>2, <2>3, <1>1
<1>6. ASSUME NEW x \in DOMAIN ms, NEW y \in DOMAIN ms, h[x] = h[y] PROVE x = y
  <2>1. IsAt(x, h[x]) /\ IsAt(y, h[y])
    BY <1>4
  <2>2. sRow[x] \in DOMAIN s /\ sRow[y] \in DOMAIN s
    BY <1>2 DEF IsPlacing
  <2>3. sRow[x] = sRow[y] /\ sNth[x] = sNth[y]
    BY <2>1, <2>2, <1>1, <1>6
  <2> QED BY <2>3, <1>2 DEF IsPlacing
<1>7. IsEmbedding(h, ms, mt)
  BY <1>5, <1>6 DEF IsEmbedding
<1> QED BY <1>7 DEF Within

LEMMA TimesWithin ==
  ASSUME NEW V, NEW s \in Seq(V), NEW t \in Seq(V), Within(s, t), NEW v
  PROVE  Times(t, v) >= Times(s, v)
<1>1. PICK e : /\ \A i \in DOMAIN s : e[i] \in DOMAIN t /\ t[e[i]] = s[i]
               /\ \A i, j \in DOMAIN s : e[i] = e[j] => i = j
  BY DEF Within, IsEmbedding
<1> DEFINE A == {i \in DOMAIN s : s[i] = v}
           B == {i \in DOMAIN t : t[i] = v}
           f == [i \in A |-> e[i]]
<1>2. IsFiniteSet(A) /\ IsFiniteSet(B)
  <2>1. DOMAIN s = 1 .. Len(s) /\ DOMAIN t = 1 .. Len(t) /\ Len(s) \in Nat /\ Len(t) \in Nat
    OBVIOUS
  <2>2. IsFiniteSet(DOMAIN s) /\ IsFiniteSet(DOMAIN t)
    BY <2>1, FS_Interval
  <2> QED BY <2>2, FS_Subset
<1>3. f \in Injection(A, B)
  <2>1. f \in [A -> B]
    BY <1>1
  <2>2. \A i, j \in A : f[i] = f[j] => i = j
    BY <1>1
  <2> HIDE DEF f, A, B
  <2> QED BY <2>1, <2>2 DEF Injection, IsInjective
<1>4. Cardinality(A) <= Cardinality(B)
  <2> HIDE DEF A, B, f
  <2> QED BY <1>2, <1>3, FS_Injection
<1>5. Cardinality(A) \in Nat /\ Cardinality(B) \in Nat
  BY <1>2, FS_CardinalityType
<1> QED BY <1>4, <1>5 DEF Times
(* What is made of rows is yielded by one of them.                         *)
LEMMA MadeFrom ==
  ASSUME IsRecursion(query), NEW list \in Seq(AllRows), NEW v \in Range(MadeOf(list))
  PROVE  \E w \in Range(list) : v \in Range(query.yields[w])
<1>1. PICK row, nth : IsPlacing(row, nth, list)
  BY Placing
<1>2. PICK x \in DOMAIN MadeOf(list) : v = MadeOf(list)[x]
  BY DEF Range
<1>3. /\ row[x] \in DOMAIN list /\ nth[x] \in DOMAIN query.yields[list[row[x]]]
      /\ v = query.yields[list[row[x]]][nth[x]]
  BY <1>1, <1>2 DEF IsPlacing
<1> DEFINE w == list[row[x]]
<1>4. w \in Range(list) /\ v \in Range(query.yields[w])
  BY <1>3 DEF Range
<1> QED BY <1>4

(* If nothing is made of the rows of a table with those of the first       *)
(* SELECT, all levels are in it.                                           *)
LEMMA NothingMore ==
  ASSUME IsRecursion(query), NEW t \in Seq(AllRows), Within(query.base, t), MadeOf(t) = <<>>
  PROVE  \A n \in 0 .. MaxIterations : Within(Upto(n), t)
<1> DEFINE V == AllRows
           N == MaxIterations
           S == {n \in Nat : n \in 0 .. N => Within(Upto(n), t)}
<1>1. N \in Nat
  BY RecursionAssumption
<1>2. 0 \in S
  BY UptoSteps
<1>3. ASSUME NEW n \in Nat, n \in S PROVE n + 1 \in S
  <2> SUFFICES ASSUME n + 1 \in 0 .. N PROVE Within(Upto(n + 1), t)
    OBVIOUS
  <2>1. n \in 0 .. N /\ n + 1 \in 1 .. N /\ (n + 1) - 1 = n
    BY <1>1
  <2> DEFINE u == Upto(n)
             m == MadeOf(u)
             base == query.base
  <2>2. Upto(n + 1) = base \o m /\ u \in Seq(V)
    BY <2>1, UptoSteps
  <2>3. m \in Seq(V) /\ base \in Seq(V)
    BY <2>2, YieldsType DEF IsRecursion, AllRows
  <2>4. Within(m, <<>>)
    BY <2>1, <2>2, <1>3, MadeWithin
  <2> HIDE DEF m, base
  <2>5. DOMAIN m = {}
    <3>1. PICK e : IsEmbedding(e, m, <<>>)
      BY <2>4 DEF Within
    <3>2. \A i \in DOMAIN m : e[i] \in {}
      BY <3>1 DEF IsEmbedding
    <3> QED BY <3>2
  <2>6. m = <<>>
    BY <2>3, <2>5
  <2>7. base \o m = base
    BY <2>3, <2>6
  <2> QED BY <2>2, <2>7 DEF base
<1>4. \A n \in Nat : n \in S
  <2> HIDE DEF S
  <2> QED BY <1>2, <1>3, Induction
<1> QED BY <1>1, <1>4

-----------------------------------------------------------------------------
(* The inductive invariant. In a scan, start is the table as it was when   *)
(* the scan began: behind it is, in the table or still to be appended,     *)
(* what was made of the rows read so far.                                  *)

Phases == {"base", "between", "scan", "read", "done", "threw"}

RecursionType(s, o) ==
  /\ IsRecursive /\ IsRecursion(query)
  /\ s \in [phase : Phases, table : Seq(AllRows), iteration : Nat, count : Nat,
            read : Nat, made : Seq(AllRows), ended : BOOLEAN]
  /\ s.iteration <= MaxIterations
  /\ o \in Seq(AllRows)

Follows(v, list) == v \in Range(query.base) \/ \E w \in Range(list) : v \in Range(query.yields[w])
Founded(list, more) == \A v \in Range(list) \cup Range(more) : Follows(v, list)

IsScanOf(s, start) ==
  /\ start \in Seq(AllRows)
  /\ Within(query.base, start) /\ Within(Upto(s.iteration), start)
  /\ Len(start) = s.count /\ s.count <= Len(s.table)
  /\ s.read <= Len(s.table)
  /\ s.table \o s.made = start \o MadeOf(SubSeq(s.table, 1, s.read))
  /\ s.ended => s.count <= s.read
  /\ s.iteration < MaxIterations

Reached(s, o) ==
  /\ RecursionType(s, o)
  /\ Founded(s.table, s.made)
  /\ s.phase = "base" => s = Unstarted
  /\ s.phase = "between" => /\ s.made = <<>>
                            /\ Within(query.base, s.table)
                            /\ Within(Upto(s.iteration), s.table)
  /\ s.phase = "scan" => \E start : IsScanOf(s, start)
  /\ s.phase = "read" => Within(Levels, s.table)
  /\ s.phase = "done" => Within(Levels, o) /\ Founded(o, <<>>)

RecursionInv == Reached(state, out)

LEMMA AllLevels == ASSUME IsRecursion(query) PROVE Levels = Upto(MaxIterations) /\ Levels \in Seq(AllRows)
<1>1. Levels = Upto(MaxIterations)
  BY DEF Levels, Upto
<1>2. MaxIterations \in 0 .. MaxIterations
  BY RecursionAssumption
<1> QED BY <1>1, <1>2, UptoSteps

LEMMA RecursionInit == RecursiveInit => RecursionInv
<1> SUFFICES ASSUME RecursiveInit PROVE RecursionInv
  OBVIOUS
<1>1. IsRecursive /\ IsRecursion(query) /\ state = Unstarted /\ out = <<>>
  BY DEF RecursiveInit
<1>2. RecursionType(state, out)
  BY <1>1, RecursionAssumption, EmptySeq DEF RecursionType, Unstarted, Phases
<1>3. Range(<<>>) = {}
  BY DEF Range
<1>4. Founded(state.table, state.made)
  BY <1>1, <1>3 DEF Founded, Unstarted
<1> QED BY <1>1, <1>2, <1>4 DEF RecursionInv, Reached, Unstarted

(* A step leaves the query, and what is defined by it.                     *)
LEMMA QueryStays ==
  ASSUME query' = query
  PROVE  /\ AllRows' = AllRows /\ Levels' = Levels /\ Phases' = Phases
         /\ (IsRecursive)' = IsRecursive /\ IsRecursion(query)' = IsRecursion(query)
         /\ \A n : Upto(n)' = Upto(n)
         /\ \A s : MadeOf(s)' = MadeOf(s)
         /\ \A s, t : Within(s, t)' = Within(s, t)
         /\ \A s, t : Founded(s, t)' = Founded(s, t)
<1>1. AllRows' = AllRows /\ Phases' = Phases /\ (IsRecursive)' = IsRecursive
  BY DEF AllRows, Phases, IsRecursive
<1>2. IsRecursion(query)' = IsRecursion(query)
  BY DEF IsRecursion
<1>3. Levels' = Levels
  BY DEF Levels, Level, MadeOf
<1>4. \A n : Upto(n)' = Upto(n)
  BY DEF Upto, Level, MadeOf
<1>5. \A s : MadeOf(s)' = MadeOf(s)
  BY DEF MadeOf
<1>6. \A s, t : Within(s, t)' = Within(s, t)
  BY DEF Within, IsEmbedding
<1>7. \A s, t : Founded(s, t)' = Founded(s, t)
  BY DEF Founded, Follows
<1> QED BY <1>1, <1>2, <1>3, <1>4, <1>5, <1>6, <1>7

LEMMA ReachedNext ==
  ASSUME query' = query, NEW s, s = state', NEW o, o = out', Reached(s, o)
  PROVE  RecursionInv'
<1>1. RecursionType(state, out)'
  BY QueryStays DEF RecursionType, Reached
<1>2. Founded(state.table, state.made)'
  BY QueryStays DEF Reached
<1>3. (state.phase = "base" => state = Unstarted)'
  BY DEF Reached, Unstarted
<1>4. (state.phase = "between" => /\ state.made = <<>>
                                  /\ Within(query.base, state.table)
                                  /\ Within(Upto(state.iteration), state.table))'
  BY QueryStays DEF Reached
<1>5. (state.phase = "scan" => \E start : IsScanOf(state, start))'
  <2> SUFFICES ASSUME s.phase = "scan" PROVE (\E start : IsScanOf(state, start))'
    OBVIOUS
  <2>1. PICK start : IsScanOf(s, start)
    BY DEF Reached
  <2>2. IsScanOf(state, start)'
    BY <2>1, QueryStays DEF IsScanOf
  <2> QED BY <2>2
<1>6. (state.phase = "read" => Within(Levels, state.table))'
  BY QueryStays DEF Reached
<1>7. (state.phase = "done" => Within(Levels, out) /\ Founded(out, <<>>))'
  BY QueryStays DEF Reached
<1> QED BY <1>1, <1>2, <1>3, <1>4, <1>5, <1>6, <1>7 DEF RecursionInv, Reached
IsSplit(V, u, c, e) ==
  /\ SubSeq(u, 1, c) \in Seq(V) /\ SubSeq(u, c + 1, e) \in Seq(V)
  /\ SubSeq(u, 1, e) = SubSeq(u, 1, c) \o SubSeq(u, c + 1, e)
  /\ SubSeq(u, 1, Len(u)) = u

(* A piece of a sequence is two pieces.                                    *)
LEMMA SplitPiece ==
  ASSUME NEW V, NEW u \in Seq(V), NEW c \in Nat, NEW e \in Nat, c <= e, e <= Len(u)
  PROVE  IsSplit(V, u, c, e)
<1>1. SubSeq(u, 1, c) \in Seq(V) /\ SubSeq(u, c + 1, e) \in Seq(V)
  OBVIOUS
<1>2. SubSeq(u, 1, e) = SubSeq(u, 1, c) \o SubSeq(u, c + 1, e)
  OBVIOUS
<1>3. SubSeq(u, 1, Len(u)) = u
  OBVIOUS
<1> QED BY <1>1, <1>2, <1>3 DEF IsSplit

LEMMA StateFields ==
  ASSUME RecursionInv
  PROVE  /\ state \in [phase : Phases, table : Seq(AllRows), iteration : Nat, count : Nat,
                       read : Nat, made : Seq(AllRows), ended : BOOLEAN]
         /\ state.table \in Seq(AllRows) /\ state.made \in Seq(AllRows)
         /\ state.iteration \in 0 .. MaxIterations /\ state.count \in Nat /\ state.read \in Nat
         /\ state.ended \in BOOLEAN /\ IsRecursive /\ IsRecursion(query)
         /\ query.base \in Seq(AllRows) /\ out \in Seq(AllRows)
         /\ Founded(state.table, state.made)
BY RecursionAssumption DEF RecursionInv, Reached, RecursionType, IsRecursion, AllRows

(* How the rows of the table follow when more are made or appended.        *)
LEMMA FoundedMade ==
  ASSUME IsRecursion(query), NEW t \in Seq(AllRows), NEW m \in Seq(AllRows), Founded(t, m),
         NEW c \in Seq(AllRows), Range(c) \subseteq Range(t)
  PROVE  Founded(t, m \o MadeOf(c))
<1> DEFINE y == MadeOf(c)
<1>1. y \in Seq(AllRows)
  BY YieldsType
<1>2. \A v \in Range(y) : \E w \in Range(c) : v \in Range(query.yields[w])
  BY MadeFrom
<1> HIDE DEF y
<1>3. Range(m \o y) = Range(m) \cup Range(y)
  BY <1>1, RangeConcatenation
<1> QED BY <1>2, <1>3 DEF Founded, Follows, y

LEMMA BaseStep ==
  ASSUME RecursionInv, Base, NEW s, s = state', NEW o, o = out' PROVE Reached(s, o)
<1>1. /\ state.phase = "base" /\ state = Unstarted /\ o = out
      /\ s = [state EXCEPT !.table = query.base, !.phase = "between"]
  BY DEF Base, InPhase, RecursionInv, Reached
<1>2. /\ query.base \in Seq(AllRows) /\ IsRecursion(query) /\ IsRecursive /\ out \in Seq(AllRows)
  BY StateFields
<1>3. /\ s.phase = "between" /\ s.table = query.base /\ s.iteration = 0 /\ s.made = <<>>
  BY <1>1 DEF Unstarted
<1>4. RecursionType(s, o)
  <2>1. Unstarted \in [phase : Phases, table : Seq(AllRows), iteration : Nat, count : Nat,
                       read : Nat, made : Seq(AllRows), ended : BOOLEAN]
    BY EmptySeq DEF Unstarted, Phases
  <2>2. s \in [phase : Phases, table : Seq(AllRows), iteration : Nat, count : Nat,
               read : Nat, made : Seq(AllRows), ended : BOOLEAN]
    BY <1>1, <1>2, <2>1 DEF Phases
  <2>3. s.iteration <= MaxIterations
    BY <1>3, RecursionAssumption
  <2> QED BY <1>1, <1>2, <2>2, <2>3 DEF RecursionType
<1>5. Founded(s.table, s.made)
  <2>1. Range(<<>>) = {}
    BY DEF Range
  <2> QED BY <1>3, <2>1 DEF Founded, Follows
<1>6. Within(query.base, s.table) /\ Within(Upto(s.iteration), s.table)
  BY <1>2, <1>3, WithinItself, UptoSteps
<1> QED BY <1>3, <1>4, <1>5, <1>6 DEF Reached

LEMMA IterateStep ==
  ASSUME RecursionInv, Iterate, NEW s, s = state', NEW o, o = out' PROVE Reached(s, o)
<1>1. /\ state.phase = "between" /\ o = out /\ state.iteration < MaxIterations
      /\ s = IF Len(state.table) > MaxRecursiveRows
             THEN [state EXCEPT !.phase = "threw"]
             ELSE [state EXCEPT !.phase = "scan", !.count = Len(state.table),
                                !.read = 0, !.ended = FALSE]
  BY DEF Iterate, InPhase
<1>2. /\ state.table \in Seq(AllRows) /\ Len(state.table) \in Nat /\ IsRecursion(query) /\ IsRecursive
      /\ Founded(state.table, state.made) /\ out \in Seq(AllRows)
      /\ state \in [phase : Phases, table : Seq(AllRows), iteration : Nat, count : Nat,
                    read : Nat, made : Seq(AllRows), ended : BOOLEAN]
      /\ state.iteration \in 0 .. MaxIterations
  BY StateFields
<1>3. /\ state.made = <<>> /\ Within(query.base, state.table) /\ Within(Upto(state.iteration), state.table)
  BY <1>1 DEF RecursionInv, Reached
<1>4. /\ s.table = state.table /\ s.made = state.made /\ s.iteration = state.iteration
      /\ s.phase \in {"scan", "threw"}
  BY <1>1, <1>2
<1>5. RecursionType(s, o)
  <2>1. s \in [phase : Phases, table : Seq(AllRows), iteration : Nat, count : Nat,
               read : Nat, made : Seq(AllRows), ended : BOOLEAN]
    <3> DEFINE n == Len(state.table)
               p == state
               no == FALSE
    <3>1. n \in Nat /\ no \in BOOLEAN /\ p \in [phase : Phases, table : Seq(AllRows), iteration : Nat, count : Nat,
                             read : Nat, made : Seq(AllRows), ended : BOOLEAN]
      BY <1>2
    <3>2. \/ s = [p EXCEPT !.phase = "threw"]
          \/ s = [p EXCEPT !.phase = "scan", !.count = n, !.read = 0, !.ended = no]
      BY <1>1
    <3> HIDE DEF n, p, no
    <3>3. CASE s = [p EXCEPT !.phase = "threw"]
      BY <3>1, <3>3 DEF Phases
    <3>4. CASE s = [p EXCEPT !.phase = "scan", !.count = n, !.read = 0, !.ended = no]
      <4> DEFINE p1 == [p EXCEPT !.phase = "scan"]
                 p2 == [p1 EXCEPT !.count = n]
                 p3 == [p2 EXCEPT !.read = 0]
      <4>1. p1 \in [phase : Phases, table : Seq(AllRows), iteration : Nat, count : Nat,
                    read : Nat, made : Seq(AllRows), ended : BOOLEAN]
        BY <3>1 DEF Phases
      <4> HIDE DEF p1
      <4>2. p2 \in [phase : Phases, table : Seq(AllRows), iteration : Nat, count : Nat,
                    read : Nat, made : Seq(AllRows), ended : BOOLEAN]
        BY <3>1, <4>1
      <4> HIDE DEF p2
      <4>3. p3 \in [phase : Phases, table : Seq(AllRows), iteration : Nat, count : Nat,
                    read : Nat, made : Seq(AllRows), ended : BOOLEAN]
        BY <4>2
      <4>4. s = [p3 EXCEPT !.ended = no]
        BY <3>4 DEF p1, p2
      <4> HIDE DEF p3
      <4> QED BY <3>1, <4>3, <4>4
    <3> QED BY <3>2, <3>3, <3>4
  <2>2. s.iteration <= MaxIterations
    BY <1>1, <1>2, <1>4, RecursionAssumption
  <2> QED BY <1>1, <1>2, <2>1, <2>2 DEF RecursionType
<1>6. Founded(s.table, s.made)
  BY <1>2, <1>4
<1>7. ASSUME s.phase = "scan" PROVE IsScanOf(s, state.table)
  <2> DEFINE t == state.table
  <2>1. s.count = Len(t) /\ s.read = 0 /\ s.ended = FALSE
    BY <1>1, <1>2, <1>7
  <2>2. SubSeq(t, 1, 0) = <<>> /\ MadeOf(<<>>) = <<>>
    BY <1>2, MadeOfNone
  <2>3. s.table \o s.made = t \o MadeOf(SubSeq(s.table, 1, s.read))
    BY <1>3, <1>4, <2>1, <2>2
  <2> QED BY <1>1, <1>2, <1>3, <1>4, <2>1, <2>3 DEF IsScanOf
<1> QED BY <1>4, <1>5, <1>6, <1>7 DEF Reached

LEMMA FetchRowsStep ==
  ASSUME RecursionInv, FetchRows, NEW s, s = state', NEW o, o = out' PROVE Reached(s, o)
<1> DEFINE V == AllRows
           t == state.table
           made == state.made
           read == state.read
           last == read + VectorSize
           end == IF last < Len(t) THEN last ELSE Len(t)
           chunk == SubSeq(t, read + 1, end)
<1>1. /\ state.phase = "scan" /\ o = out
      /\ s = [state EXCEPT !.read = @ + Len(chunk), !.ended = (chunk = <<>>), !.made = @ \o MadeOf(chunk)]
  BY DEF FetchRows, InPhase
<1>2. /\ t \in Seq(V) /\ made \in Seq(V) /\ read \in Nat /\ IsRecursion(query) /\ IsRecursive
      /\ Founded(t, made) /\ out \in Seq(V) /\ state.iteration <= MaxIterations
      /\ state \in [phase : Phases, table : Seq(V), iteration : Nat, count : Nat,
                    read : Nat, made : Seq(V), ended : BOOLEAN]
  BY StateFields DEF RecursionInv, Reached, RecursionType
<1>3. PICK start : IsScanOf(state, start)
  BY <1>1 DEF RecursionInv, Reached
<1>4. read <= Len(t) /\ Len(t) \in Nat /\ VectorSize \in Nat /\ VectorSize > 0
  BY <1>2, <1>3, VectorAssumption DEF IsScanOf
<1>5. /\ chunk \in Seq(V) /\ Len(chunk) \in Nat /\ read + Len(chunk) <= Len(t)
      /\ SubSeq(t, 1, read) \in Seq(V)
      /\ SubSeq(t, 1, read + Len(chunk)) = SubSeq(t, 1, read) \o chunk
      /\ chunk = <<>> => read = Len(t)
      /\ \A x \in DOMAIN chunk : \E y \in DOMAIN t : chunk[x] = t[y]
  <2> DEFINE n == Len(t)
             e == end
             u == t
  <2>1. n \in Nat /\ e \in Nat /\ read <= e /\ e <= n /\ (e = read => read = n)
    BY <1>2, <1>4
  <2>2. u \in Seq(V) /\ Len(u) = n /\ read \in Nat
    BY <1>2
  <2> HIDE DEF n, e, u, read, V
  <2>3. /\ SubSeq(u, read + 1, e) \in Seq(V) /\ Len(SubSeq(u, read + 1, e)) = e - read
        /\ SubSeq(u, 1, read) \in Seq(V)
        /\ \A x \in 1 .. e - read : SubSeq(u, read + 1, e)[x] = u[read + x] /\ read + x \in 1 .. n
    BY <2>1, <2>2
  <2>4. SubSeq(u, 1, e) = SubSeq(u, 1, read) \o SubSeq(u, read + 1, e)
    BY <2>1, <2>2
  <2> DEFINE c == SubSeq(u, read + 1, e)
  <2> HIDE DEF c
  <2>5. Len(c) = e - read /\ c \in Seq(V) /\ DOMAIN c = 1 .. e - read
    BY <2>1, <2>2, <2>3 DEF c
  <2>6. read + Len(c) = e /\ (c = <<>> => e = read)
    BY <2>1, <2>2, <2>5
  <2>7. \A x \in DOMAIN c : \E y \in DOMAIN u : c[x] = u[y]
    BY <2>2, <2>3, <2>5 DEF c
  <2>8. c = chunk
    BY DEF c, u, e, read
  <2>9. /\ c \in Seq(V) /\ Len(c) \in Nat /\ read + Len(c) <= n
        /\ SubSeq(u, 1, read + Len(c)) = SubSeq(u, 1, read) \o c
        /\ c = <<>> => read = n
    BY <2>1, <2>2, <2>4, <2>5, <2>6 DEF c
  <2> QED BY <2>3, <2>7, <2>8, <2>9 DEF u, n
<1> HIDE DEF chunk
<1>6. s.table = t /\ s.made = made \o MadeOf(chunk) /\ s.read = read + Len(chunk)
      /\ s.iteration = state.iteration /\ s.count = state.count /\ s.phase = "scan"
      /\ s.ended = (chunk = <<>>)
  BY <1>1, <1>2
<1>7. MadeOf(chunk) \in Seq(V)
  BY <1>2, <1>5, YieldsType
<1>8. RecursionType(s, o)
  <2>1. made \o MadeOf(chunk) \in Seq(V)
    BY <1>2, <1>7
  <2> DEFINE mm == made \o MadeOf(chunk)
             rr == read + Len(chunk)
             ee == (chunk = <<>>)
  <2>2. mm \in Seq(V) /\ rr \in Nat /\ ee \in BOOLEAN
    BY <1>2, <1>5, <2>1
  <2>3. s = [state EXCEPT !.read = rr, !.ended = ee, !.made = mm]
    BY <1>1, <1>2
  <2> HIDE DEF mm, rr, ee, V
  <2>4. s \in [phase : Phases, table : Seq(V), iteration : Nat, count : Nat,
               read : Nat, made : Seq(V), ended : BOOLEAN]
    BY <1>2, <2>2, <2>3
  <2>5. s.iteration <= MaxIterations
    BY <1>2, <1>6
  <2> QED BY <1>1, <1>2, <2>4, <2>5 DEF RecursionType, V
<1>9. Founded(s.table, s.made)
  <2>1. Range(chunk) \subseteq Range(t)
    BY <1>5 DEF Range
  <2> QED BY <2>1, <1>2, <1>5, <1>6, FoundedMade
<1>10. IsScanOf(s, start)
  <2> DEFINE a == SubSeq(t, 1, read)
             ma == MadeOf(a)
             mc == MadeOf(chunk)
  <2>1. MadeOf(SubSeq(s.table, 1, s.read)) = ma \o mc
    <3> DEFINE b == chunk
    <3>1. a \in Seq(V) /\ b \in Seq(V) /\ SubSeq(s.table, 1, s.read) = a \o b
      BY <1>5, <1>6
    <3> HIDE DEF a, b
    <3>2. MadeOf(a \o b) = MadeOf(a) \o MadeOf(b)
      BY <1>2, <3>1, MadeOfMore
    <3> QED BY <3>1, <3>2 DEF b
  <2>2. t \o made = start \o ma /\ start \in Seq(V)
    BY <1>3 DEF IsScanOf
  <2>3. t \in Seq(V) /\ made \in Seq(V) /\ ma \in Seq(V) /\ mc \in Seq(V)
    BY <1>2, <1>5, <1>7, YieldsType
  <2>4. s.table \o s.made = start \o MadeOf(SubSeq(s.table, 1, s.read))
    <3> HIDE DEF ma, mc, t, made, V
    <3>1. t \o (made \o mc) = (t \o made) \o mc
      BY <2>3, ConcatAssociative
    <3>2. start \o (ma \o mc) = (start \o ma) \o mc
      <4>1. start \in Seq(V) /\ ma \in Seq(V) /\ mc \in Seq(V)
        BY <2>2, <2>3
      <4> QED BY ONLY <4>1, ConcatAssociative
    <3> QED BY <2>1, <2>2, <3>1, <3>2, <1>6 DEF mc
  <2>5. s.count <= Len(s.table) /\ s.read <= Len(s.table) /\ (s.ended => s.count <= s.read)
    <3>1. s.count <= Len(t) /\ state.count \in Nat
      BY <1>2, <1>3, <1>6 DEF IsScanOf
    <3>2. s.ended => read = Len(t) /\ Len(chunk) = 0
      <4>1. s.ended => chunk = <<>>
        BY <1>6
      <4>2. Len(<<>>) = 0
        OBVIOUS
      <4>3. chunk = <<>> => read = Len(t)
        BY <1>5
      <4> QED BY <4>1, <4>2, <4>3
    <3>3. s.read <= Len(t)
      BY <1>5, <1>6
    <3>4. s.ended => s.read = Len(t)
      BY <1>4, <1>6, <3>2
    <3> QED BY <1>6, <3>1, <3>3, <3>4
  <2> QED BY <1>3, <1>6, <2>4, <2>5 DEF IsScanOf
<1> QED BY <1>6, <1>8, <1>9, <1>10 DEF Reached

LEMMA AppendRowsStep ==
  ASSUME RecursionInv, AppendRows, NEW s, s = state', NEW o, o = out' PROVE Reached(s, o)
<1> DEFINE V == AllRows
           t == state.table
           m == state.made
           n == IF query.fills /\ ChunkFull THEN VectorSize ELSE Len(m)
           a == SubSeq(m, 1, n)
           b == SubSeq(m, n + 1, Len(m))
<1>1. /\ state.phase = "scan" /\ o = out
      /\ s = [state EXCEPT !.table = t \o a, !.made = b]
  BY DEF AppendRows, InPhase
<1>2. /\ t \in Seq(V) /\ m \in Seq(V) /\ state.read \in Nat /\ IsRecursion(query) /\ IsRecursive
      /\ Founded(t, m) /\ out \in Seq(V) /\ state.iteration <= MaxIterations /\ state.count \in Nat
      /\ state \in [phase : Phases, table : Seq(V), iteration : Nat, count : Nat,
                    read : Nat, made : Seq(V), ended : BOOLEAN]
  BY StateFields DEF RecursionInv, Reached, RecursionType
<1>3. PICK start : IsScanOf(state, start)
  BY <1>1 DEF RecursionInv, Reached
<1>4. n \in 0 .. Len(m)
  BY <1>2, VectorAssumption DEF ChunkFull
<1>5. a \in Seq(V) /\ b \in Seq(V) /\ m = a \o b
  <2> DEFINE k == Len(m)
  <2>1. m \in Seq(V) /\ n \in Nat /\ k \in Nat /\ n <= k /\ k = Len(m)
    BY <1>2, <1>4
  <2> HIDE DEF n, m, V, k
  <2>2. IsSplit(V, m, n, k)
    BY <2>1, SplitPiece
  <2> QED BY <2>1, <2>2 DEF IsSplit
<1> HIDE DEF a, b
<1>6. t \o a \in Seq(V) /\ Len(t \o a) = Len(t) + Len(a) /\ Len(a) \in Nat /\ Len(t) \in Nat
  BY <1>2, <1>5
<1>7. /\ s.table = t \o a /\ s.made = b /\ s.read = state.read /\ s.iteration = state.iteration
      /\ s.count = state.count /\ s.phase = "scan" /\ s.ended = state.ended
  BY <1>1, <1>2
<1>8. RecursionType(s, o)
  <2> DEFINE u == t \o a
  <2>1. u \in Seq(V) /\ s = [state EXCEPT !.table = u, !.made = b]
    BY <1>1, <1>6
  <2> HIDE DEF u, V
  <2>2. s \in [phase : Phases, table : Seq(V), iteration : Nat, count : Nat,
               read : Nat, made : Seq(V), ended : BOOLEAN]
    BY <1>2, <1>5, <2>1
  <2> QED BY <1>1, <1>2, <1>7, <2>2 DEF RecursionType, V
<1>9. Founded(s.table, s.made)
  <2>1. Range(t \o a) = Range(t) \cup Range(a) /\ Range(m) = Range(a) \cup Range(b)
    BY <1>2, <1>5, RangeConcatenation
  <2>2. Range(s.table) \cup Range(s.made) = Range(t) \cup Range(m)
    BY <1>7, <2>1
  <2>3. Range(t) \subseteq Range(s.table)
    BY <1>7, <2>1
  <2>4. \A v : Follows(v, t) => Follows(v, s.table)
    BY <2>3 DEF Follows
  <2> QED BY <1>2, <2>2, <2>4 DEF Founded
<1>10. IsScanOf(s, start)
  <2>1. /\ start \in Seq(V) /\ t \o m = start \o MadeOf(SubSeq(t, 1, state.read))
        /\ state.read <= Len(t) /\ state.count <= Len(t)
    BY <1>3 DEF IsScanOf
  <2>2. SubSeq(t \o a, 1, state.read) = SubSeq(t, 1, state.read)
    <3> DEFINE k == state.read
               u == t
    <3>1. k \in Nat /\ k <= Len(u) /\ u \in Seq(V) /\ a \in Seq(V)
      BY <1>2, <1>5, <2>1
    <3> HIDE DEF k, u, V
    <3>2. SubSeq(u \o a, 1, k) = SubSeq(u, 1, k)
      BY <3>1
    <3> QED BY <3>2 DEF k, u
  <2>3. (t \o a) \o b = t \o m
    <3> DEFINE u == t
    <3>1. u \in Seq(V) /\ a \in Seq(V) /\ b \in Seq(V)
      BY <1>2, <1>5
    <3> HIDE DEF u
    <3>2. (u \o a) \o b = u \o (a \o b)
      BY ONLY <3>1, ConcatAssociative
    <3> QED BY <3>2, <1>5 DEF u
  <2>4. s.table \o s.made = start \o MadeOf(SubSeq(s.table, 1, s.read))
    BY <1>7, <2>1, <2>2, <2>3
  <2>5. s.count <= Len(s.table) /\ s.read <= Len(s.table)
    BY <1>2, <1>6, <1>7, <2>1
  <2> QED BY <1>3, <1>7, <2>4, <2>5 DEF IsScanOf
<1> QED BY <1>7, <1>8, <1>9, <1>10 DEF Reached

(* When a scan ends it has read the table as it was when it began, and     *)
(* what that makes is behind it: one level more is in the table.           *)
LEMMA EndIterationStep ==
  ASSUME RecursionInv, EndIteration, NEW s, s = state', NEW o, o = out' PROVE Reached(s, o)
<1> DEFINE V == AllRows
           t == state.table
           k == state.iteration
           read == state.read
           base == query.base
<1>1. /\ state.phase = "scan" /\ o = out /\ state.ended
      /\ s = [state EXCEPT !.iteration = @ + 1,
                !.phase = IF Len(t) = state.count THEN "read" ELSE "between"]
  BY DEF EndIteration, InPhase
<1>2. /\ t \in Seq(V) /\ state.made \in Seq(V) /\ read \in Nat /\ IsRecursion(query) /\ IsRecursive
      /\ Founded(t, state.made) /\ out \in Seq(V) /\ k \in Nat /\ state.count \in Nat /\ base \in Seq(V)
      /\ state \in [phase : Phases, table : Seq(V), iteration : Nat, count : Nat,
                    read : Nat, made : Seq(V), ended : BOOLEAN]
  BY StateFields DEF RecursionInv, Reached, RecursionType
<1>3. state.made = <<>>
  BY <1>1 DEF EndIteration, Returns
<1>4. PICK start : IsScanOf(state, start)
  BY <1>1 DEF RecursionInv, Reached
<1>5. /\ start \in Seq(V) /\ Len(start) = state.count /\ state.count <= read /\ read <= Len(t)
      /\ Within(base, start) /\ Within(Upto(k), start) /\ k < MaxIterations
      /\ t \o state.made = start \o MadeOf(SubSeq(t, 1, read))
  BY <1>1, <1>4 DEF IsScanOf
<1>6. /\ s.table = t /\ s.made = <<>> /\ s.iteration = k + 1
      /\ s.phase = IF Len(t) = state.count THEN "read" ELSE "between"
  BY <1>1, <1>2, <1>3
<1> DEFINE more == SubSeq(t, Len(start) + 1, read)
           ms == MadeOf(start)
           mm == MadeOf(more)
<1>7. /\ t = start \o (ms \o mm) /\ more \in Seq(V) /\ ms \in Seq(V) /\ mm \in Seq(V)
  <2> DEFINE a == SubSeq(t, 1, read)
             x == MadeOf(a)
  <2>1. a \in Seq(V) /\ t = start \o x
    <3>1. a \in Seq(V)
      BY <1>2, <1>5
    <3>2. t \o <<>> = t
      BY <1>2
    <3> QED BY <1>3, <1>5, <3>1, <3>2
  <2>2. x \in Seq(V)
    BY <1>2, <2>1, YieldsType
  <2>3. more \in Seq(V) /\ a = start \o more
    <3> DEFINE u == t
               c == Len(start)
    <3>1. u \in Seq(V) /\ start \in Seq(V) /\ c = Len(start) /\ c \in Nat /\ read \in Nat /\ c <= read /\ read <= Len(u)
      BY <1>2, <1>5
    <3>2. u = start \o x
      BY <2>1
    <3> HIDE DEF u, c, x, V, read
    <3>3. SubSeq(u, 1, c) = start
      BY <3>1, <3>2, <2>2
    <3>4. SubSeq(u, 1, read) = SubSeq(u, 1, c) \o SubSeq(u, c + 1, read) /\ SubSeq(u, c + 1, read) \in Seq(V)
      <4>1. IsSplit(V, u, c, read)
        BY <3>1, SplitPiece
      <4> QED BY <4>1 DEF IsSplit
    <3> QED BY <3>3, <3>4 DEF u, c
  <2> HIDE DEF more, a
  <2>4. MadeOf(start \o more) = MadeOf(start) \o MadeOf(more)
    BY <1>2, <1>5, <2>3, MadeOfMore
  <2>5. ms \in Seq(V) /\ mm \in Seq(V)
    BY <1>2, <1>5, <2>3, YieldsType
  <2> QED BY <2>1, <2>3, <2>4, <2>5
<1> HIDE DEF more, ms, mm
<1>8. RecursionType(s, o)
  <2>1. s \in [phase : Phases, table : Seq(V), iteration : Nat, count : Nat,
               read : Nat, made : Seq(V), ended : BOOLEAN]
    <3> DEFINE p == IF Len(t) = state.count THEN "read" ELSE "between"
               j == k + 1
    <3>1. p \in Phases /\ j \in Nat
      BY <1>2 DEF Phases
    <3>2. s = [state EXCEPT !.iteration = j, !.phase = p]
      BY <1>1
    <3> HIDE DEF p, j, V
    <3> QED BY <1>2, <3>1, <3>2
  <2>2. s.iteration <= MaxIterations
    BY <1>2, <1>5, <1>6, RecursionAssumption
  <2> QED BY <1>1, <1>2, <2>1, <2>2 DEF RecursionType
<1>9. Founded(s.table, s.made)
  BY <1>2, <1>3, <1>6
<1>10. Within(base, t)
  <2>1. ms \o mm \in Seq(V)
    BY <1>7
  <2> DEFINE y == ms \o mm
  <2> HIDE DEF y
  <2>2. y \in Seq(V) /\ t = start \o y
    BY <2>1, <1>7 DEF y
  <2>3. Within(base, start \o y)
    BY <1>2, <1>5, <2>2, WithinLonger
  <2> QED BY <2>2, <2>3
<1>11. Within(Upto(k + 1), t)
  <2> DEFINE u == Upto(k)
             mu == MadeOf(u)
             sm == start \o ms
  <2>1. u \in Seq(V) /\ Upto(k + 1) = base \o mu
    <3>1. k \in 0 .. MaxIterations /\ k + 1 \in 1 .. MaxIterations /\ (k + 1) - 1 = k
      BY <1>2, <1>5, RecursionAssumption
    <3> QED BY <1>2, <3>1, UptoSteps
  <2>2. mu \in Seq(V) /\ Within(mu, ms)
    BY <1>2, <1>5, <2>1, YieldsType, MadeWithin DEF ms
  <2> HIDE DEF u, mu
  <2>3. Within(base \o mu, start \o ms)
    BY <1>2, <1>5, <1>7, <2>2, WithinBoth
  <2>4. sm \in Seq(V) /\ base \o mu \in Seq(V)
    BY <1>2, <1>5, <1>7, <2>2
  <2>5. (start \o ms) \o mm = start \o (ms \o mm)
    <3>1. start \in Seq(V) /\ ms \in Seq(V) /\ mm \in Seq(V)
      BY <1>5, <1>7
    <3> QED BY ONLY <3>1, ConcatAssociative
  <2>6. t = sm \o mm
    BY <1>7, <2>5
  <2>7. Within(base \o mu, sm)
    BY <2>3
  <2> DEFINE bm == base \o mu
  <2> HIDE DEF sm, bm
  <2>8. Within(bm, sm \o mm)
    BY <1>7, <2>4, <2>7, WithinLonger DEF bm
  <2> QED BY <2>1, <2>6, <2>8 DEF bm
<1>12. ASSUME s.phase = "read" PROVE Within(Levels, t)
  <2>1. Len(t) = Len(start)
    BY <1>5, <1>6, <1>12
  <2>2. ms = <<>> /\ t = start
    <3> DEFINE u == t
               y == ms \o mm
    <3>1. start \in Seq(V) /\ ms \in Seq(V) /\ mm \in Seq(V) /\ u = start \o y /\ Len(u) = Len(start)
      BY <1>5, <1>7, <2>1
    <3>2. y \in Seq(V) /\ Len(y) = Len(ms) + Len(mm) /\ Len(ms) \in Nat /\ Len(mm) \in Nat
      BY <3>1
    <3> HIDE DEF u, y, V
    <3>3. Len(start \o y) = Len(start) + Len(y) /\ Len(start) \in Nat /\ Len(y) \in Nat
      BY <3>1, <3>2
    <3>4. Len(y) = 0
      BY <3>1, <3>3
    <3>5. Len(ms) = 0
      BY <3>2, <3>4
    <3>6. ms = <<>> /\ y = <<>>
      BY <3>1, <3>2, <3>4, <3>5
    <3>7. start \o <<>> = start
      BY <3>1
    <3> QED BY <3>1, <3>6, <3>7 DEF u
  <2>3. MadeOf(t) = <<>>
    BY <2>2 DEF ms
  <2>4. MaxIterations \in 0 .. MaxIterations
    BY RecursionAssumption
  <2>5. Within(Upto(MaxIterations), t)
    BY <1>2, <1>10, <2>3, <2>4, NothingMore
  <2> QED BY <1>2, <2>5, AllLevels
<1> QED BY <1>3, <1>6, <1>8, <1>9, <1>10, <1>11, <1>12 DEF Reached

LEMMA ReadTableStep ==
  ASSUME RecursionInv, ReadTable, NEW s, s = state', NEW o, o = out' PROVE Reached(s, o)
<1> DEFINE t == state.table
<1>1. /\ \/ state.phase = "read"
         \/ state.phase = "between" /\ state.iteration = MaxIterations
      /\ o = t /\ s = [state EXCEPT !.phase = "done"]
  BY DEF ReadTable, InPhase
<1>2. /\ t \in Seq(AllRows) /\ IsRecursion(query) /\ IsRecursive /\ Founded(t, state.made)
      /\ state.iteration <= MaxIterations
      /\ state \in [phase : Phases, table : Seq(AllRows), iteration : Nat, count : Nat,
                    read : Nat, made : Seq(AllRows), ended : BOOLEAN]
  BY StateFields DEF RecursionInv, Reached, RecursionType
<1>3. /\ s.phase = "done" /\ s.table = t /\ s.made = state.made /\ s.iteration = state.iteration
  BY <1>1, <1>2
<1>4. RecursionType(s, o)
  <2>1. s \in [phase : Phases, table : Seq(AllRows), iteration : Nat, count : Nat,
               read : Nat, made : Seq(AllRows), ended : BOOLEAN]
    BY <1>1, <1>2 DEF Phases
  <2> QED BY <1>1, <1>2, <1>3, <2>1 DEF RecursionType
<1>5. Within(Levels, t)
  <2>1. CASE state.phase = "read"
    BY <2>1 DEF RecursionInv, Reached
  <2>2. CASE state.phase = "between" /\ state.iteration = MaxIterations
    BY <1>2, <2>2, AllLevels DEF RecursionInv, Reached
  <2> QED BY <1>1, <2>1, <2>2
<1>6. Founded(t, <<>>)
  <2>1. Range(<<>>) = {}
    BY DEF Range
  <2> QED BY <1>2, <2>1 DEF Founded
<1> QED BY <1>1, <1>2, <1>3, <1>4, <1>5, <1>6 DEF Reached

LEMMA RecursionStep == RecursionInv /\ [RecursiveNext]_queryVars => RecursionInv'
<1> SUFFICES ASSUME RecursionInv, [RecursiveNext]_queryVars PROVE RecursionInv'
  OBVIOUS
<1>1. query' = query
  BY DEF RecursiveNext, queryVars, Base, Iterate, FetchRows, AppendRows, EndIteration, ReadTable
<1>2. ASSUME NEW s, s = state', NEW o, o = out' PROVE Reached(s, o)
  <2>1. CASE Base
    BY <2>1, <1>2, BaseStep
  <2>2. CASE Iterate
    BY <2>2, <1>2, IterateStep
  <2>3. CASE FetchRows
    BY <2>3, <1>2, FetchRowsStep
  <2>4. CASE AppendRows
    BY <2>4, <1>2, AppendRowsStep
  <2>5. CASE EndIteration
    BY <2>5, <1>2, EndIterationStep
  <2>6. CASE ReadTable
    BY <2>6, <1>2, ReadTableStep
  <2>7. CASE UNCHANGED queryVars
    <3>1. s = state /\ o = out
      BY <1>2, <2>7 DEF queryVars
    <3> QED BY <3>1 DEF RecursionInv
  <2> QED BY <2>1, <2>2, <2>3, <2>4, <2>5, <2>6, <2>7 DEF RecursiveNext
<1> QED BY <1>1, <1>2, ReachedNext

LEMMA ReachedEnough == RecursionInv => NothingUnreached
<1> SUFFICES ASSUME RecursionInv, InPhase("done") PROVE
      /\ \A v \in Range(Levels) : Times(out, v) >= Times(Levels, v)
      /\ Range(out) \subseteq DOMAIN query.yields
      /\ \A v \in Range(out) : v \in Range(query.base)
           \/ \E w \in Range(out) : v \in Range(query.yields[w])
  BY DEF NothingUnreached
<1>1. Within(Levels, out) /\ Founded(out, <<>>) /\ out \in Seq(AllRows) /\ IsRecursion(query)
  BY StateFields DEF RecursionInv, Reached, InPhase
<1>2. Levels \in Seq(AllRows)
  BY <1>1, AllLevels
<1>3. \A v : Times(out, v) >= Times(Levels, v)
  BY <1>1, <1>2, TimesWithin
<1>4. Range(out) \subseteq DOMAIN query.yields
  BY <1>1 DEF Range, AllRows
<1>5. \A v \in Range(out) : Follows(v, out)
  BY <1>1 DEF Founded
<1> QED BY <1>3, <1>4, <1>5 DEF Follows

(* WITH RECURSIVE returns every row of every level, as often as the levels *)
(* have it, and only rows that follow from others, for any tables, chunk   *)
(* size and limits, wherever a scan meets what was appended under it.      *)
THEOREM AllLevelsReached == RecursiveSpec => []NothingUnreached
<1>1. RecursiveInit => RecursionInv
  BY RecursionInit
<1>2. RecursionInv /\ [RecursiveNext]_queryVars => RecursionInv'
  BY RecursionStep
<1>3. RecursionInv => NothingUnreached
  BY ReachedEnough
<1> QED BY <1>1, <1>2, <1>3, PTL DEF RecursiveSpec

-----------------------------------------------------------------------------
(* Joins. What is found for a row looked up: the rows built with its key,  *)
(* each once.                                                              *)

Found(p, f) ==
  f = [n \in 0 .. Len(Build) |->
         IF n = 0 THEN <<>>
         ELSE IF SameKey(Build[n], p) THEN Append(f[n - 1], n) ELSE f[n - 1]]

\* s is, each once, the numbers up to n of the rows that are found.
IsFound(s, n, p) ==
  /\ s \in Seq(Nat)
  /\ \A i \in DOMAIN s : s[i] \in 1 .. n /\ SameKey(Build[s[i]], p)
  /\ \A b \in 1 .. n : SameKey(Build[b], p) => \E i \in DOMAIN s : s[i] = b
  /\ \A i, j \in DOMAIN s : s[i] = s[j] => i = j

LEMMA Sides ==
  ASSUME IsJoinQuery(query)
  PROVE  /\ Build \in Seq(Range(Build)) /\ Probe \in Seq(Range(Probe))
         /\ Len(Build) \in Nat /\ Len(Probe) \in Nat
         /\ DOMAIN Build = 1 .. Len(Build) /\ DOMAIN Probe = 1 .. Len(Probe)
<1>1. Build \in Seq(Range(Build)) /\ Probe \in Seq(Range(Probe))
  BY DEF IsJoinQuery, IsTable, Build, Probe
<1> QED BY <1>1

LEMMA FoundAppend ==
  ASSUME NEW p, NEW n \in Nat, NEW s, IsFound(s, n, p)
  PROVE  IsFound(IF SameKey(Build[n + 1], p) THEN Append(s, n + 1) ELSE s, n + 1, p)
<1>1. s \in Seq(Nat)
  BY DEF IsFound
<1> DEFINE t == Append(s, n + 1)
           N == Len(s)
<1>2. /\ t \in Seq(Nat) /\ N \in Nat /\ DOMAIN s = 1 .. N /\ DOMAIN t = 1 .. N + 1
      /\ t[N + 1] = n + 1 /\ \A i \in 1 .. N : t[i] = s[i]
  BY <1>1
<1>3. \A b \in 1 .. n + 1 : b \in 1 .. n \/ b = n + 1
  OBVIOUS
<1>4. \A b \in 1 .. n : b \in 1 .. n + 1 /\ b # n + 1
  OBVIOUS
<1>5. \A i \in 1 .. N + 1 : i \in 1 .. N \/ i = N + 1
  BY <1>2
<1>6. \A i \in 1 .. N : i \in 1 .. N + 1
  BY <1>2
<1>7. N + 1 \in 1 .. N + 1 /\ n + 1 \in 1 .. n + 1
  BY <1>2
<1> HIDE DEF t, N
<1>8. CASE SameKey(Build[n + 1], p)
  <2>1. \A i \in DOMAIN t : t[i] \in 1 .. n + 1 /\ SameKey(Build[t[i]], p)
    BY <1>2, <1>3, <1>4, <1>5, <1>7, <1>8 DEF IsFound
  <2>2. \A b \in 1 .. n + 1 : SameKey(Build[b], p) => \E i \in DOMAIN t : t[i] = b
    <3>1. \A b \in 1 .. n : SameKey(Build[b], p) => \E i \in 1 .. N : s[i] = b
      BY <1>2 DEF IsFound
    <3>2. \A b \in 1 .. n : SameKey(Build[b], p) => \E i \in DOMAIN t : t[i] = b
      BY <3>1, <1>2, <1>6
    <3> QED BY <3>2, <1>2, <1>3, <1>7
  <2>3. \A i, j \in DOMAIN t : t[i] = t[j] => i = j
    <3>1. \A i \in 1 .. N : t[i] # n + 1
      BY <1>2, <1>4 DEF IsFound
    <3>2. \A i, j \in 1 .. N : t[i] = t[j] => i = j
      BY <1>2 DEF IsFound
    <3> QED BY <3>1, <3>2, <1>2, <1>5
  <2> QED BY <1>2, <1>8, <2>1, <2>2, <2>3 DEF IsFound, t
<1>9. CASE ~SameKey(Build[n + 1], p)
  BY <1>3, <1>4, <1>9 DEF IsFound
<1> QED BY <1>8, <1>9

LEMMA BucketRows ==
  ASSUME IsJoinQuery(query), NEW p
  PROVE  IsFound(Bucket(p), Len(Build), p)
<1> DEFINE S == Seq(Nat)
           N == Len(Build)
           Same(n) == SameKey(Build[n], p)
           step == [n \in Nat |-> [q \in S |-> IF Same(n) THEN Append(q, n) ELSE q]]
<1>1. N \in Nat
  BY Sides
<1>2. <<>> \in S /\ step \in [Nat -> [S -> S]]
  <2> HIDE DEF Same
  <2> QED OBVIOUS
<1>3. PICK f : Computes(f, <<>>, step, S, N)
  <2> HIDE DEF step, N, S
  <2> QED BY <1>1, <1>2, Recursion
<1>4. f \in [0 .. N -> S] /\ f[0] = <<>> /\ \A n \in 1 .. N : f[n] = step[n][f[n - 1]]
  BY <1>3 DEF Computes
<1>5. \A n \in 1 .. N : f[n] = IF Same(n) THEN Append(f[n - 1], n) ELSE f[n - 1]
  <2> SUFFICES ASSUME NEW n \in 1 .. N
               PROVE  f[n] = IF Same(n) THEN Append(f[n - 1], n) ELSE f[n - 1]
    OBVIOUS
  <2>1. n - 1 \in 0 .. N /\ n \in Nat
    BY <1>1
  <2>2. f[n - 1] \in S
    <3> HIDE DEF S, N
    <3> QED BY <1>4, <2>1
  <2> HIDE DEF Same, S, N
  <2> QED BY <1>4, <2>1, <2>2
<1>6. Found(p, f)
  <2>1. \A n \in 0 .. N : n # 0 => n \in 1 .. N
    BY <1>1
  <2> HIDE DEF step
  <2> QED BY <1>4, <1>5, <2>1 DEF Found
<1> DEFINE h == CHOOSE q : Found(p, q)
<1>7. Found(p, h)
  BY <1>6
<1>8. Bucket(p) = h[N]
  BY DEF Bucket, Found
<1> HIDE DEF h
<1>9. h[0] = <<>> /\ \A n \in 1 .. N : h[n] = IF Same(n) THEN Append(h[n - 1], n) ELSE h[n - 1]
  <2>1. 0 \in 0 .. N /\ \A n \in 1 .. N : n \in 0 .. N /\ n # 0
    BY <1>1
  <2> HIDE DEF N, Same
  <2>2. h[0] = <<>>
    BY <1>7, <2>1 DEF Found, N
  <2>3. \A n \in 1 .. N : h[n] = IF Same(n) THEN Append(h[n - 1], n) ELSE h[n - 1]
    BY <1>7, <2>1 DEF Found, N, Same
  <2> QED BY <2>2, <2>3
<1> DEFINE G == {n \in Nat : n \in 0 .. N => IsFound(h[n], n, p)}
<1>10. 0 \in G
  <2>1. IsFound(<<>>, 0, p)
    <3>1. <<>> \in Seq(Nat) /\ DOMAIN <<>> = {} /\ 1 .. 0 = {}
      OBVIOUS
    <3> QED BY <3>1 DEF IsFound
  <2> QED BY <1>9, <2>1
<1>11. ASSUME NEW n \in Nat, n \in G PROVE n + 1 \in G
  <2> SUFFICES ASSUME n + 1 \in 0 .. N PROVE IsFound(h[n + 1], n + 1, p)
    OBVIOUS
  <2>1. n \in 0 .. N /\ n + 1 \in 1 .. N /\ (n + 1) - 1 = n
    BY <1>1
  <2>2. h[n + 1] = IF Same(n + 1) THEN Append(h[n], n + 1) ELSE h[n]
    BY <1>9, <2>1
  <2>3. IsFound(h[n], n, p)
    BY <2>1, <1>11
  <2>4. IsFound(IF SameKey(Build[n + 1], p) THEN Append(h[n], n + 1) ELSE h[n], n + 1, p)
    BY <2>3, FoundAppend
  <2> QED BY <2>2, <2>4
<1>12. \A n \in Nat : n \in G
  <2> HIDE DEF G
  <2> QED BY <1>10, <1>11, Induction
<1>13. IsFound(h[N], N, p)
  <2>1. N \in 0 .. N /\ N \in G
    BY <1>1, <1>12
  <2> QED BY <2>1
<1> QED BY <1>8, <1>13

-----------------------------------------------------------------------------
(* The rows that a row of the probe side is joined with, if the condition  *)
(* is one that the property speaks of.                                     *)

Proper ==
  /\ query.type # "CROSS" /\ NullsTold /\ query.cond \in {"k", "k and m"}
  /\ ~(query.pruned /\ HasResidual)

Partners(p) == {b \in DOMAIN Build : Pair(b, p) \in Matching}

LEMMA PartnersFound ==
  ASSUME IsJoinQuery(query), Proper, NEW p \in DOMAIN Probe, NEW b \in DOMAIN Build
  PROVE  b \in Partners(p) <=> SameKey(Build[b], Probe[p]) /\ ResidualPasses(Build[b], Probe[p])
<1> DEFINE l == IF BuildsRight THEN Probe[p] ELSE Build[b]
           r == IF BuildsRight THEN Build[b] ELSE Probe[p]
<1>1. Pair(b, p) \in Matching <=> On(l, r)
  <2>1. b \in 1 .. Len(Build) /\ p \in 1 .. Len(Probe)
    BY Sides
  <2>2. query.type # "CROSS"
    BY DEF Proper
  <2>3. CASE BuildsRight
    <3>1. <<p, b>> \in AllPairs /\ query.left[p] = Probe[p] /\ query.right[b] = Build[b]
      BY <2>1, <2>3 DEF AllPairs, Build, Probe
    <3> QED BY <2>2, <2>3, <3>1 DEF Matching, Pair
  <2>4. CASE ~BuildsRight
    <3>1. <<b, p>> \in AllPairs /\ query.left[b] = Build[b] /\ query.right[p] = Probe[p]
      BY <2>1, <2>4 DEF AllPairs, Build, Probe
    <3> QED BY <2>2, <2>4, <3>1 DEF Matching, Pair
  <2> QED BY <2>3, <2>4
<1>2. SameKey(Build[b], Probe[p]) <=> KeysEqual(l, r)
  <2>1. CASE UsesInts
    BY <2>1 DEF SameKey, KeysEqual
  <2>2. CASE ~UsesInts
    <3>1. \A x \in {Build, Probe} : \A i \in 1 .. Len(x) : x[i].k # Null
      BY <2>2 DEF Proper, NullsTold
    <3>2. Build[b].k # Null /\ Probe[p].k # Null
      BY <3>1, Sides
    <3> QED BY <2>2, <3>2 DEF SameKey, KeysEqual, TextOf, BytesOf
  <2> QED BY <2>1, <2>2
<1>3. ResidualPasses(Build[b], Probe[p]) <=> (query.cond = "k and m" => Ordered(l, r))
  BY DEF Proper, ResidualPasses, HasResidual, AsRead
<1>4. On(l, r) <=> KeysEqual(l, r) /\ (query.cond = "k and m" => Ordered(l, r))
  <2> HIDE DEF l, r
  <2>1. query.cond = "k" \/ query.cond = "k and m"
    BY DEF Proper
  <2>2. CASE query.cond = "k"
    BY <2>2 DEF On
  <2>3. CASE query.cond = "k and m"
    BY <2>3 DEF On
  <2> QED BY <2>1, <2>2, <2>3
<1> QED BY <1>1, <1>2, <1>3, <1>4 DEF Partners

LEMMA BucketPartners ==
  ASSUME IsJoinQuery(query), Proper, NEW p \in DOMAIN Probe
  PROVE  /\ Bucket(Probe[p]) \in Seq(Nat)
         /\ \A i \in DOMAIN Bucket(Probe[p]) : Bucket(Probe[p])[i] \in DOMAIN Build
         /\ \A i, j \in DOMAIN Bucket(Probe[p]) : Bucket(Probe[p])[i] = Bucket(Probe[p])[j] => i = j
         /\ \A b \in Partners(p) : \E i \in DOMAIN Bucket(Probe[p]) : Bucket(Probe[p])[i] = b
         /\ \A i \in DOMAIN Bucket(Probe[p]) :
              Bucket(Probe[p])[i] \in Partners(p) <=> ResidualPasses(Build[Bucket(Probe[p])[i]], Probe[p])
<1> DEFINE s == Bucket(Probe[p])
<1>1. IsFound(s, Len(Build), Probe[p])
  BY BucketRows
<1> HIDE DEF s
<1>2. DOMAIN Build = 1 .. Len(Build)
  BY Sides
<1>3. \A b \in DOMAIN Build :
        b \in Partners(p) <=> SameKey(Build[b], Probe[p]) /\ ResidualPasses(Build[b], Probe[p])
  BY PartnersFound
<1>4. \A b \in Partners(p) : b \in DOMAIN Build
  BY DEF Partners
<1>5. /\ s \in Seq(Nat)
      /\ \A i \in DOMAIN s : s[i] \in DOMAIN Build /\ SameKey(Build[s[i]], Probe[p])
      /\ \A b \in DOMAIN Build : SameKey(Build[b], Probe[p]) => \E i \in DOMAIN s : s[i] = b
      /\ \A i, j \in DOMAIN s : s[i] = s[j] => i = j
  BY <1>1, <1>2 DEF IsFound
<1>6. \A b \in Partners(p) : \E i \in DOMAIN s : s[i] = b
  BY <1>3, <1>4, <1>5
<1>7. \A i \in DOMAIN s : s[i] \in Partners(p) <=> ResidualPasses(Build[s[i]], Probe[p])
  BY <1>3, <1>5
<1> QED BY <1>5, <1>6, <1>7 DEF s

-----------------------------------------------------------------------------
(* The inductive invariant. D is the rows of the probe side that are done; *)
(* after a restart a row may be done again, before the others of a chunk   *)
(* that is still there.                                                    *)

JoinFields == {"built", "probed", "probeDone", "chunk", "at", "matches", "matchAt", "rowMatched",
               "matched", "aloneAt", "pairs", "emitAt", "n", "calling", "ended", "restarts"}

RowPairs == Nat \X Nat

\* The partners of a row among the matches before a place.
FoundBefore(matches, k, p) ==
  {b \in Partners(p) : \E i \in DOMAIN matches : i < k /\ matches[i] = b}

Now(s) == FoundBefore(s.matches, s.matchAt, s.chunk[s.at])

OfDone(D, q) == \E p \in D : \/ \E b \in Partners(p) : q = Pair(b, p)
                             \/ PadsProbe /\ Partners(p) = {} /\ q = Pair(0, p)
OfRow(F, r, q) == \E b \in F : q = Pair(b, r)
OfAlone(a, M, q) == PadsBuild /\ \E b \in DOMAIN Build : b < a /\ b \notin M /\ q = Pair(b, 0)

IsOut(o, D, F, r, a, M) ==
  /\ o \in Seq(RowPairs)
  /\ \A q : q \in Range(o) <=> OfDone(D, q) \/ OfRow(F, r, q) \/ OfAlone(a, M, q)

OnceOnly(s, D) ==
  /\ \A p \in D : p <= s.probed
  /\ \A x \in DOMAIN s.chunk : s.chunk[x] <= s.probed
  /\ \A x, y \in DOMAIN s.chunk : s.chunk[x] = s.chunk[y] => x = y
  /\ \A x \in DOMAIN s.chunk : x >= s.at => s.chunk[x] \notin D

IsCursor(s, D) ==
  /\ s.chunk \in Seq(DOMAIN Probe) /\ s.at \in Nat \ {0} /\ s.probed \in 0 .. Len(Probe)
  /\ D \subseteq DOMAIN Probe
  /\ \A i \in 1 .. s.probed : i \in D \/ \E x \in DOMAIN s.chunk : x >= s.at /\ s.chunk[x] = i
  /\ s.probeDone => s.probed = Len(Probe) /\ s.chunk = <<>>
  /\ s.restarts = 0 => OnceOnly(s, D)

InRow(s) ==
  /\ s.matchAt \in Nat \ {0}
  /\ s.matches # <<>> =>
       /\ s.at \in DOMAIN s.chunk /\ s.matches = Bucket(Probe[s.chunk[s.at]])
       /\ s.rowMatched <=> Now(s) # {}
       /\ s.calling /\ ~s.rowMatched => s.n < VectorSize

FirstTime(s, o, D) ==
  /\ IsInjective(o)
  /\ s.matched = (UNION {Partners(p) : p \in D}) \cup Now(s)
  /\ s.aloneAt > 1 => s.probeDone

ProbeInv(s, o, D) ==
  /\ IsCursor(s, D) /\ InRow(s)
  /\ s.n \in Nat /\ s.aloneAt \in Nat \ {0}
  /\ IsOut(o, D, Now(s), s.chunk[s.at], s.aloneAt, s.matched)
  /\ s.restarts = 0 => FirstTime(s, o, D)
  /\ ~s.built => D = {} /\ s.matches = <<>> /\ ~s.calling
  /\ s.ended => s.probeDone /\ (PadsBuild => s.aloneAt > Len(Build))

CrossInv(s, o) ==
  /\ s.pairs \in Seq(AllPairs)
  /\ s.built => AllPairs \subseteq Range(s.pairs)
  /\ s.restarts = 0 => (s.built => IsInjective(s.pairs)) /\ (~s.built => s.pairs = <<>>)
  /\ s.emitAt \in 1 .. Len(s.pairs) + 1
  /\ o = SubSeq(s.pairs, 1, s.emitAt - 1)
  /\ s.n \in Nat
  /\ ~s.built => ~s.calling
  /\ s.ended => s.built /\ s.emitAt > Len(s.pairs)

Counts(s) == Proper /\ (s.restarts = 1 => ~PadsBuild)

Joining(s, o) ==
  /\ IsJoin /\ IsJoinQuery(query)
  /\ DOMAIN s = JoinFields /\ s.restarts \in {0, 1}
  /\ query.type = "CROSS" => CrossInv(s, o)
  /\ Counts(s) => \E D : ProbeInv(s, o, D)

JoinInv == Joining(state, out)

LEMMA OutAppend ==
  ASSUME NEW T, NEW o \in Seq(T), NEW e \in T
  PROVE  /\ Append(o, e) \in Seq(T)
         /\ \A q : q \in Range(Append(o, e)) <=> q \in Range(o) \/ q = e
         /\ IsInjective(o) /\ e \notin Range(o) => IsInjective(Append(o, e))
<1> DEFINE t == Append(o, e)
           N == Len(o)
<1>1. /\ t \in Seq(T) /\ N \in Nat /\ DOMAIN o = 1 .. N /\ DOMAIN t = 1 .. N + 1
      /\ t[N + 1] = e /\ \A i \in 1 .. N : t[i] = o[i]
  OBVIOUS
<1>2. /\ \A i \in 1 .. N : i \in 1 .. N + 1
      /\ \A i \in 1 .. N + 1 : i \in 1 .. N \/ i = N + 1
      /\ N + 1 \in 1 .. N + 1
  BY <1>1
<1> HIDE DEF t, N
<1>3. \A q : q \in Range(t) <=> q \in Range(o) \/ q = e
  BY <1>1, <1>2 DEF Range
<1>4. ASSUME IsInjective(o), e \notin Range(o) PROVE IsInjective(t)
  <2>1. \A i \in 1 .. N : t[i] # e
    BY <1>1, <1>4 DEF Range
  <2>2. \A i, j \in 1 .. N : t[i] = t[j] => i = j
    BY <1>1, <1>4 DEF IsInjective
  <2> QED BY <1>1, <1>2, <2>1, <2>2 DEF IsInjective
<1> QED BY <1>1, <1>3, <1>4 DEF t

LEMMA PairOf ==
  /\ \A b, p \in Nat : Pair(b, p) \in RowPairs
  /\ \A b, p, c, q : Pair(b, p) = Pair(c, q) => b = c /\ p = q
BY DEF Pair, RowPairs

\* The rows of both sides are numbers from 1.
LEMMA RowNumbers ==
  ASSUME IsJoinQuery(query)
  PROVE  /\ \A b \in DOMAIN Build : b \in Nat /\ b > 0 /\ b <= Len(Build)
         /\ \A p \in DOMAIN Probe : p \in Nat /\ p > 0 /\ p <= Len(Probe)
         /\ \A p : Partners(p) \subseteq DOMAIN Build
<1>1. \A p : Partners(p) \subseteq DOMAIN Build
  BY DEF Partners
<1> QED BY <1>1, Sides

LEMMA JoinBegins == JoinInit => JoinInv
<1> SUFFICES ASSUME JoinInit PROVE JoinInv
  OBVIOUS
<1>1. IsJoin /\ IsJoinQuery(query) /\ state = Unbuilt /\ out = <<>>
  BY DEF JoinInit
<1>2. /\ state.built = FALSE /\ state.probed = 0 /\ state.probeDone = FALSE /\ state.chunk = <<>>
      /\ state.at = 1 /\ state.matches = <<>> /\ state.matchAt = 1 /\ state.matched = {}
      /\ state.aloneAt = 1 /\ state.pairs = <<>> /\ state.emitAt = 1 /\ state.n = 0
      /\ state.calling = FALSE /\ state.ended = FALSE /\ state.restarts = 0
      /\ DOMAIN state = JoinFields
  BY <1>1 DEF Unbuilt, JoinFields
<1>3. Range(<<>>) = {} /\ DOMAIN <<>> = {} /\ IsInjective(<<>>)
  BY DEF Range, IsInjective
<1>4. CrossInv(state, out)
  <2>1. <<>> \in Seq(AllPairs) /\ SubSeq(<<>>, 1, 0) = <<>> /\ 1 \in 1 .. Len(<<>>) + 1
    BY EmptySeq
  <2> QED BY <1>1, <1>2, <2>1 DEF CrossInv
<1>5. ProbeInv(state, out, {})
  <2>1. Now(state) = {}
    BY <1>2, <1>3 DEF Now, FoundBefore
  <2>2. IsCursor(state, {})
    <3>1. 0 \in 0 .. Len(Probe) /\ 1 .. 0 = {} /\ <<>> \in Seq(DOMAIN Probe)
      BY <1>1, Sides
    <3> QED BY <1>2, <1>3, <3>1 DEF IsCursor, OnceOnly
  <2>3. InRow(state)
    BY <1>2 DEF InRow
  <2>4. IsOut(out, {}, {}, state.chunk[state.at], 1, {})
    <3>1. <<>> \in Seq(RowPairs)
      OBVIOUS
    <3>2. \A q : ~OfAlone(1, {}, q)
      BY <1>1, RowNumbers DEF OfAlone
    <3> QED BY <1>1, <1>3, <3>1, <3>2 DEF IsOut, OfDone, OfRow
  <2>5. FirstTime(state, out, {})
    BY <1>1, <1>2, <1>3, <2>1 DEF FirstTime
  <2> QED BY <1>2, <2>1, <2>2, <2>3, <2>4, <2>5 DEF ProbeInv
<1> QED BY <1>1, <1>2, <1>4, <1>5 DEF JoinInv, Joining

(* All pairs of two numbers, counted through.                              *)
InTurn(a, b) == [x \in 1 .. a * b |-> <<((x - 1) \div b) + 1, ((x - 1) % b) + 1>>]

LEMMA AllPairsInTurn ==
  ASSUME NEW a \in Nat, NEW b \in Nat
  PROVE  /\ InTurn(a, b) \in Seq((1 .. a) \X (1 .. b))
         /\ (1 .. a) \X (1 .. b) \subseteq Range(InTurn(a, b))
         /\ IsInjective(InTurn(a, b))
<1> DEFINE T == (1 .. a) \X (1 .. b)
           more == [x \in 1 .. a * b |-> <<((x - 1) \div b) + 1, ((x - 1) % b) + 1>>]
<1>1. ASSUME b = 0 PROVE more \in Seq(T) /\ T \subseteq Range(more) /\ IsInjective(more)
  <2>1. a * b = 0 /\ 1 .. b = {} /\ 1 .. 0 = {}
    BY <1>1
  <2>2. T = {} /\ more = <<>>
    BY <2>1
  <2>3. more \in Seq(T) /\ DOMAIN more = {}
    BY <2>2
  <2>4. IsInjective(more)
    BY <2>3 DEF IsInjective
  <2> HIDE DEF more, T
  <2> QED BY <2>2, <2>3, <2>4
<1>2. ASSUME b # 0 PROVE more \in Seq(T) /\ T \subseteq Range(more) /\ IsInjective(more)
  <2> DEFINE ab == a * b
  <2>1. b \in Nat /\ b > 0 /\ ab \in Nat
    BY <1>2
  <2>2. \A x \in Nat : /\ x \div b \in Nat /\ x % b \in Nat /\ x % b < b
                       /\ x = b * (x \div b) + (x % b)
    BY <2>1
  <2>3. \A i, j \in Nat : j < b => (b * i + j) \div b = i /\ (b * i + j) % b = j
    <3> SUFFICES ASSUME NEW i \in Nat, NEW j \in Nat, j < b
                 PROVE  (b * i + j) \div b = i /\ (b * i + j) % b = j
      OBVIOUS
    <3> DEFINE x == b * i + j
               q == x \div b
               r == x % b
    <3>1. x \in Nat
      BY <2>1
    <3>2. q \in Nat /\ r \in Nat /\ r < b /\ x = b * q + r
      BY <2>2, <3>1
    <3>3. b * i + j = b * q + r
      BY <3>2
    <3> HIDE DEF x, q, r
    <3>4. ~(q < i)
      <4> SUFFICES ASSUME q + 1 <= i PROVE FALSE
        BY <3>2
      <4>1. b * (q + 1) <= b * i
        BY <2>1, <3>2
      <4> QED BY <2>1, <3>2, <3>3, <4>1
    <3>5. ~(i < q)
      <4> SUFFICES ASSUME i + 1 <= q PROVE FALSE
        BY <3>2
      <4>1. b * (i + 1) <= b * q
        BY <2>1, <3>2
      <4> QED BY <2>1, <3>2, <3>3, <4>1
    <3>6. q = i /\ r = j
      BY <2>1, <3>2, <3>3, <3>4, <3>5
    <3> QED BY <3>6 DEF q, r, x
  <2> DEFINE Row(x) == ((x - 1) \div b) + 1
             Col(x) == ((x - 1) % b) + 1
  <2>4. \A x \in 1 .. ab : Row(x) \in 1 .. a /\ Col(x) \in 1 .. b /\ x = b * (Row(x) - 1) + Col(x)
    <3> SUFFICES ASSUME NEW x \in 1 .. ab
                 PROVE  Row(x) \in 1 .. a /\ Col(x) \in 1 .. b /\ x = b * (Row(x) - 1) + Col(x)
      OBVIOUS
    <3> DEFINE y == x - 1
               q == y \div b
               r == y % b
    <3>1. y \in Nat /\ y < ab /\ x = y + 1
      BY <2>1
    <3>2. q \in Nat /\ r \in Nat /\ r < b /\ y = b * q + r
      BY <2>2, <3>1
    <3> HIDE DEF q, r, y
    <3>3. ~(a <= q)
      <4> SUFFICES ASSUME a <= q PROVE FALSE
        OBVIOUS
      <4>1. b * a <= b * q
        BY <2>1, <3>2
      <4> DEFINE z == b * q
      <4>2. ab <= z /\ z \in Nat /\ y = z + r /\ y \in Nat /\ y < ab /\ r \in Nat /\ ab \in Nat
        BY <2>1, <3>1, <3>2, <4>1
      <4> HIDE DEF z, ab
      <4> QED BY <4>2
    <3>4. q + 1 \in 1 .. a /\ r + 1 \in 1 .. b /\ x = b * ((q + 1) - 1) + (r + 1)
      BY <2>1, <3>1, <3>2, <3>3
    <3> QED BY <3>4 DEF q, r, y
  <2>5. \A i \in 1 .. a, j \in 1 .. b : \E x \in 1 .. ab : Row(x) = i /\ Col(x) = j
    <3> SUFFICES ASSUME NEW i \in 1 .. a, NEW j \in 1 .. b
                 PROVE  \E x \in 1 .. ab : Row(x) = i /\ Col(x) = j
      OBVIOUS
    <3> DEFINE i0 == i - 1
               j0 == j - 1
               y == b * i0 + j0
               x == y + 1
    <3>1. i0 \in Nat /\ j0 \in Nat /\ j0 < b /\ i0 + 1 <= a /\ i = i0 + 1 /\ j = j0 + 1
      BY <2>1
    <3>2. y \div b = i0 /\ y % b = j0 /\ y \in Nat
      <4> HIDE DEF i0, j0
      <4>1. b * i0 \in Nat
        BY <2>1, <3>1
      <4>2. b * i0 + j0 \in Nat
        <5> DEFINE z == b * i0
        <5>1. z \in Nat
          BY <4>1
        <5> HIDE DEF z
        <5>2. z + j0 \in Nat
          BY <3>1, <5>1
        <5> QED BY <5>2 DEF z
      <4> QED BY <2>3, <3>1, <4>2
    <3>3. x \in 1 .. ab
      <4> HIDE DEF i0, j0
      <4>1. b * (i0 + 1) <= b * a
        BY <2>1, <3>1
      <4>2. b * (i0 + 1) = b * i0 + b
        BY <2>1, <3>1
      <4>3. b * i0 \in Nat /\ b * a = ab
        BY <2>1, <3>1
      <4> DEFINE z == b * i0
      <4>4. z \in Nat /\ z + b <= ab /\ x = (z + j0) + 1 /\ j0 \in Nat /\ j0 < b /\ ab \in Nat
        BY <2>1, <3>1, <4>1, <4>2, <4>3
      <4> HIDE DEF z, ab, x
      <4> QED BY <2>1, <4>4
    <3>4. x - 1 = y
      BY <3>2
    <3>5. Row(x) = i /\ Col(x) = j
      BY <3>1, <3>2, <3>4
    <3> QED BY <3>3, <3>5
  <2> HIDE DEF ab
  <2>6. more = [x \in 1 .. ab |-> <<Row(x), Col(x)>>]
    BY DEF ab
  <2> HIDE DEF Row, Col
  <2>7. more \in Seq(T)
    <3>1. \A x \in 1 .. ab : <<Row(x), Col(x)>> \in T
      BY <2>4
    <3>2. more \in [1 .. ab -> T]
      BY <2>6, <3>1
    <3> QED BY <2>1, <3>2
  <2>8. T \subseteq Range(more)
    <3> SUFFICES ASSUME NEW q \in T PROVE q \in Range(more)
      OBVIOUS
    <3>1. PICK i \in 1 .. a, j \in 1 .. b : q = <<i, j>>
      OBVIOUS
    <3>2. PICK x \in 1 .. ab : Row(x) = i /\ Col(x) = j
      BY <2>5
    <3>3. more[x] = q /\ x \in DOMAIN more
      BY <2>6, <3>1, <3>2
    <3> QED BY <3>3 DEF Range
  <2>9. IsInjective(more)
    <3> SUFFICES ASSUME NEW x \in 1 .. ab, NEW y \in 1 .. ab, more[x] = more[y] PROVE x = y
      BY <2>6 DEF IsInjective
    <3>1. Row(x) = Row(y) /\ Col(x) = Col(y)
      <4>1. more[x] = <<Row(x), Col(x)>> /\ more[y] = <<Row(y), Col(y)>>
        BY <2>6
      <4> QED BY <4>1
    <3> QED BY <2>4, <3>1
  <2> QED BY <2>7, <2>8, <2>9
<1>3. more \in Seq(T) /\ T \subseteq Range(more) /\ IsInjective(more)
  BY <1>1, <1>2
<1>4. InTurn(a, b) = more
  BY DEF InTurn
<1> HIDE DEF more
<1> QED BY <1>3, <1>4

-----------------------------------------------------------------------------
(* The steps                                                               *)

LEMMA GetDataStep ==
  ASSUME JoinInv, GetData, NEW s, s = state', NEW o, o = out' PROVE Joining(s, o)
<1> DEFINE t == IF state.built THEN state ELSE BuildHashTable(state)
<1>1. o = out /\ s = [t EXCEPT !.calling = TRUE, !.n = 0] /\ ~state.calling /\ ~state.ended
  BY DEF GetData
<1>2. /\ IsJoin /\ IsJoinQuery(query) /\ DOMAIN state = JoinFields /\ state.restarts \in {0, 1}
  BY DEF JoinInv, Joining
<1>3. /\ DOMAIN t = JoinFields /\ t.built
      /\ t.probed = state.probed /\ t.probeDone = state.probeDone /\ t.chunk = state.chunk
      /\ t.at = state.at /\ t.matches = state.matches /\ t.matchAt = state.matchAt
      /\ t.rowMatched = state.rowMatched /\ t.aloneAt = state.aloneAt /\ t.emitAt = state.emitAt
      /\ t.ended = state.ended /\ t.restarts = state.restarts
      /\ t.matched = IF state.built THEN state.matched ELSE {}
  BY <1>2 DEF BuildHashTable, JoinFields
<1> HIDE DEF t
<1>4. /\ DOMAIN s = JoinFields /\ s.built /\ s.calling /\ s.n = 0
      /\ s.probed = state.probed /\ s.probeDone = state.probeDone /\ s.chunk = state.chunk
      /\ s.at = state.at /\ s.matches = state.matches /\ s.matchAt = state.matchAt
      /\ s.rowMatched = state.rowMatched /\ s.aloneAt = state.aloneAt /\ s.emitAt = state.emitAt
      /\ s.ended = state.ended /\ s.restarts = state.restarts
      /\ s.matched = (IF state.built THEN state.matched ELSE {}) /\ s.pairs = t.pairs
  <2>1. s.built = t.built
    BY <1>1, <1>3 DEF JoinFields
  <2> QED BY <1>1, <1>3, <2>1 DEF JoinFields
<1>5. ASSUME query.type = "CROSS" PROVE CrossInv(s, o)
  <2>1. CrossInv(state, out)
    BY <1>5 DEF JoinInv, Joining
  <2>2. CASE state.built
    <3>1. t.pairs = state.pairs
      BY <2>2 DEF t
    <3> QED BY <1>1, <1>4, <2>1, <2>2, <3>1 DEF CrossInv
  <2>3. CASE ~state.built
    <3> DEFINE a == Len(query.left)
               b == Len(query.right)
               more == [x \in 1 .. a * b |-> <<((x - 1) \div b) + 1, ((x - 1) % b) + 1>>]
               old == state.pairs
    <3>1. t.pairs = old \o more
      BY <1>2, <1>5, <2>3 DEF t, BuildHashTable, JoinFields
    <3>2. a \in Nat /\ b \in Nat
      <4> DEFINE l == query.left
                 r == query.right
      <4>1. l \in Seq(Range(l)) /\ r \in Seq(Range(r))
        BY <1>2 DEF IsJoinQuery, IsTable
      <4> HIDE DEF l, r
      <4>2. Len(l) \in Nat /\ Len(r) \in Nat
        BY <4>1
      <4> QED BY <4>2 DEF l, r
    <3>3. AllPairs = (1 .. a) \X (1 .. b)
      BY DEF AllPairs
    <3>4. /\ more \in Seq(AllPairs) /\ AllPairs \subseteq Range(more) /\ IsInjective(more)
      <4>1. more = InTurn(a, b)
        BY DEF InTurn
      <4> HIDE DEF a, b, more
      <4> QED BY <3>2, <3>3, <4>1, AllPairsInTurn
    <3>5. old \in Seq(AllPairs) /\ state.emitAt \in 1 .. Len(old) + 1 /\ out = SubSeq(old, 1, state.emitAt - 1)
      BY <2>1 DEF CrossInv
    <3> DEFINE T == AllPairs
    <3> HIDE DEF a, b, more, old, T
    <3>6. old \o more \in Seq(T) /\ Range(old \o more) = Range(old) \cup Range(more)
      BY <3>4, <3>5, RangeConcatenation DEF T
    <3>7. state.emitAt \in 1 .. Len(old \o more) + 1
          /\ SubSeq(old \o more, 1, state.emitAt - 1) = SubSeq(old, 1, state.emitAt - 1)
      <4> DEFINE k == state.emitAt - 1
      <4>1. k \in Nat /\ k <= Len(old) /\ old \in Seq(T) /\ more \in Seq(T) /\ state.emitAt = k + 1
        BY <3>4, <3>5 DEF T
      <4> HIDE DEF k
      <4>2. Len(old \o more) = Len(old) + Len(more) /\ Len(old) \in Nat /\ Len(more) \in Nat
        BY <4>1
      <4>3. SubSeq(old \o more, 1, k) = SubSeq(old, 1, k)
        BY <4>1
      <4> QED BY <4>1, <4>2, <4>3 DEF k
    <3>8. state.restarts = 0 => IsInjective(old \o more)
      <4> SUFFICES ASSUME state.restarts = 0 PROVE IsInjective(old \o more)
        OBVIOUS
      <4>1. old = <<>>
        BY <2>1, <2>3 DEF CrossInv, old
      <4>2. old \o more = more
        BY <4>1, <3>4
      <4> QED BY <3>4, <4>2
    <3>9. s.pairs \in Seq(AllPairs) /\ AllPairs \subseteq Range(s.pairs)
      BY <1>4, <3>1, <3>4, <3>6 DEF T
    <3>10. s.restarts = 0 => IsInjective(s.pairs)
      BY <1>4, <3>1, <3>8
    <3>11. s.emitAt \in 1 .. Len(s.pairs) + 1 /\ o = SubSeq(s.pairs, 1, s.emitAt - 1)
      BY <1>1, <1>4, <3>1, <3>5, <3>7
    <3>12. s.built /\ s.n \in Nat /\ ~s.ended
      BY <1>1, <1>4
    <3> QED BY <3>9, <3>10, <3>11, <3>12 DEF CrossInv
  <2> QED BY <2>2, <2>3
<1>6. ASSUME Counts(s) PROVE \E D : ProbeInv(s, o, D)
  <2>1. PICK D : ProbeInv(state, out, D)
    BY <1>4, <1>6 DEF JoinInv, Joining, Counts
  <2>2. Now(s) = Now(state)
    BY <1>4 DEF Now
  <2>3. IsCursor(s, D)
    BY <1>4, <2>1 DEF ProbeInv, IsCursor, OnceOnly
  <2>4. InRow(s)
    <3>1. 0 < VectorSize
      BY VectorAssumption
    <3> QED BY <1>4, <2>1, <2>2, <3>1 DEF ProbeInv, InRow
  <2>5. ~state.built => Now(state) = {} /\ D = {}
    BY <2>1 DEF ProbeInv, Now, FoundBefore
  <2>6. state.restarts = 0 => s.matched = state.matched
    <3> SUFFICES ASSUME state.restarts = 0, ~state.built PROVE state.matched = {}
      BY <1>4
    <3>1. state.matched = (UNION {Partners(p) : p \in D}) \cup Now(state)
      BY <2>1 DEF ProbeInv, FirstTime
    <3> QED BY <3>1, <2>5
  <2>7. IsOut(o, D, Now(s), s.chunk[s.at], s.aloneAt, s.matched)
    <3>1. IsOut(out, D, Now(state), state.chunk[state.at], state.aloneAt, state.matched)
      BY <2>1 DEF ProbeInv
    <3>2. PadsBuild => s.matched = state.matched
      BY <1>2, <1>4, <1>6, <2>6 DEF Counts
    <3>3. \A q : OfAlone(s.aloneAt, s.matched, q) <=> OfAlone(state.aloneAt, state.matched, q)
      BY <1>4, <3>2 DEF OfAlone
    <3> QED BY <1>1, <1>4, <2>2, <3>1, <3>3 DEF IsOut
  <2>8. s.restarts = 0 => FirstTime(s, o, D)
    BY <1>1, <1>4, <2>1, <2>2, <2>6 DEF ProbeInv, FirstTime
  <2>9. s.n \in Nat /\ s.aloneAt \in Nat \ {0}
    BY <1>4, <2>1 DEF ProbeInv
  <2>10. ~s.ended
    BY <1>1, <1>4
  <2> QED BY <1>4, <2>3, <2>4, <2>7, <2>8, <2>9, <2>10 DEF ProbeInv
<1> QED BY <1>2, <1>4, <1>5, <1>6 DEF Joining

LEMMA EmitPairStep ==
  ASSUME JoinInv, EmitPair, NEW s, s = state', NEW o, o = out' PROVE Joining(s, o)
<1> DEFINE k == state.emitAt
           ps == state.pairs
<1>1. /\ query.type = "CROSS" /\ k <= Len(ps) /\ o = Append(out, ps[k])
      /\ s = [state EXCEPT !.emitAt = k + 1, !.n = state.n + 1] /\ state.calling
  BY DEF EmitPair, Emit, InCall
<1>2. /\ IsJoin /\ IsJoinQuery(query) /\ DOMAIN state = JoinFields /\ state.restarts \in {0, 1}
      /\ CrossInv(state, out)
  BY <1>1 DEF JoinInv, Joining
<1>3. /\ DOMAIN s = JoinFields /\ s.built = state.built /\ s.pairs = ps /\ s.emitAt = k + 1 /\ s.n = state.n + 1
      /\ s.restarts = state.restarts /\ s.ended = state.ended /\ s.calling = state.calling
  BY <1>1, <1>2 DEF JoinFields
<1>4. /\ ps \in Seq(AllPairs) /\ Len(ps) \in Nat /\ k \in Nat \ {0} /\ k <= Len(ps) /\ out = SubSeq(ps, 1, k - 1)
  BY <1>1, <1>2 DEF CrossInv
<1>5. /\ k + 1 \in 1 .. Len(ps) + 1 /\ o = SubSeq(ps, 1, (k + 1) - 1)
  <2> DEFINE T == AllPairs
             j == k - 1
             r == ps
  <2>1. r \in Seq(T) /\ j \in Nat /\ k = j + 1 /\ j + 1 <= Len(r) /\ Len(r) \in Nat
    BY <1>4
  <2> HIDE DEF T, j, r
  <2>2. SubSeq(r, 1, j + 1) = Append(SubSeq(r, 1, j), r[j + 1])
    BY <2>1
  <2>3. j + 1 \in Nat /\ (j + 1) - 1 = j /\ (j + 1 + 1) - 1 = j + 1 /\ j + 1 + 1 \in 1 .. Len(r) + 1
    BY <2>1
  <2> QED BY <1>1, <1>4, <2>1, <2>2, <2>3 DEF r
<1>6. ~state.ended
  BY <1>2, <1>4 DEF CrossInv
<1>7. CrossInv(s, o)
  <2>1. s.n \in Nat
    BY <1>2, <1>3 DEF CrossInv
  <2> QED BY <1>2, <1>3, <1>5, <1>6, <2>1 DEF CrossInv
<1>8. ~Counts(s)
  BY <1>1 DEF Counts, Proper
<1> QED BY <1>2, <1>3, <1>7, <1>8 DEF Joining

\* A member of the invariant that is asked for in the steps below.
LEMMA InTheRow ==
  ASSUME IsJoinQuery(query), Proper, NEW st, NEW oo, NEW D, ProbeInv(st, oo, D), st.matches # <<>>
  PROVE  /\ st.built /\ ~st.probeDone
         /\ st.at \in DOMAIN st.chunk /\ st.chunk[st.at] \in DOMAIN Probe
         /\ st.matches = Bucket(Probe[st.chunk[st.at]])
         /\ st.matchAt \in Nat \ {0}
<1>1. /\ st.chunk \in Seq(DOMAIN Probe) /\ st.at \in DOMAIN st.chunk
      /\ st.matches = Bucket(Probe[st.chunk[st.at]]) /\ st.matchAt \in Nat \ {0} /\ st.built
  BY DEF ProbeInv, IsCursor, InRow
<1>2. st.chunk # <<>>
  BY <1>1
<1>3. ~st.probeDone
  BY <1>2 DEF ProbeInv, IsCursor
<1>4. st.chunk[st.at] \in DOMAIN Probe
  <2> DEFINE c == st.chunk
             T == DOMAIN Probe
             i == st.at
  <2>1. c \in Seq(T) /\ i \in DOMAIN c
    BY <1>1
  <2> HIDE DEF c, T, i
  <2>2. c[i] \in T
    BY <2>1
  <2> QED BY <2>2 DEF c, T, i
<1> QED BY <1>1, <1>3, <1>4

\* No row is done while there is none to be read.
LEMMA NoneFound ==
  ASSUME NEW st, st.matches = <<>> PROVE Now(st) = {}
<1>1. DOMAIN <<>> = {}
  OBVIOUS
<1> QED BY <1>1 DEF Now, FoundBefore

LEMMA EmitMatchStep ==
  ASSUME JoinInv, EmitMatch, NEW s, s = state', NEW o, o = out' PROVE Joining(s, o)
<1> DEFINE k == state.matchAt
           ms == state.matches
           b == ms[k]
           r == state.chunk[state.at]
           passes == ResidualPasses(Build[b], Probe[r])
<1>1. /\ IsJoin /\ IsJoinQuery(query) /\ DOMAIN state = JoinFields /\ state.restarts \in {0, 1}
      /\ query.type # "CROSS" /\ k <= Len(ms)
  BY DEF JoinInv, Joining, EmitMatch, Probing
<1>2. /\ s = IF passes THEN [state EXCEPT !.matchAt = k + 1, !.rowMatched = TRUE,
                                          !.matched = state.matched \cup {b}, !.n = state.n + 1]
             ELSE [state EXCEPT !.matchAt = k + 1]
      /\ o = IF passes THEN Append(out, Pair(b, r)) ELSE out
  BY DEF EmitMatch, Emit, CurrentRow
<1>3. /\ DOMAIN s = JoinFields /\ s.built = state.built /\ s.probed = state.probed
      /\ s.probeDone = state.probeDone /\ s.chunk = state.chunk /\ s.at = state.at /\ s.matches = ms
      /\ s.matchAt = k + 1 /\ s.aloneAt = state.aloneAt /\ s.calling = state.calling
      /\ s.ended = state.ended /\ s.restarts = state.restarts
  <2> HIDE DEF passes, b
  <2> QED BY <1>1, <1>2 DEF JoinFields
<1>4. ASSUME Counts(s) PROVE \E D : ProbeInv(s, o, D)
  <2>1. PICK D : ProbeInv(state, out, D)
    BY <1>3, <1>4 DEF JoinInv, Joining, Counts
  <2>2. Proper /\ (PadsBuild => state.restarts = 0)
    BY <1>1, <1>3, <1>4 DEF Counts
  <2>3. ms # <<>>
    <3>1. k \in Nat \ {0}
      BY <2>1 DEF ProbeInv, InRow
    <3> QED BY <1>1, <3>1
  <2>4. /\ state.built /\ ~state.probeDone /\ state.at \in DOMAIN state.chunk /\ r \in DOMAIN Probe
        /\ ms = Bucket(Probe[r]) /\ k \in Nat \ {0}
    BY <1>1, <2>1, <2>2, <2>3, InTheRow
  <2>5. /\ ms \in Seq(Nat) /\ \A i \in DOMAIN ms : ms[i] \in DOMAIN Build
        /\ \A i, j \in DOMAIN ms : ms[i] = ms[j] => i = j
        /\ \A i \in DOMAIN ms : ms[i] \in Partners(r) <=> ResidualPasses(Build[ms[i]], Probe[r])
    BY <1>1, <2>2, <2>4, BucketPartners
  <2>6. k \in DOMAIN ms
    BY <1>1, <2>4, <2>5
  <2>7. b \in DOMAIN Build /\ (b \in Partners(r) <=> passes)
    BY <2>5, <2>6
  <2> DEFINE F == Now(state)
  <2>8. Now(s) = IF passes THEN F \cup {b} ELSE F
    <3>1. Now(s) = FoundBefore(ms, k + 1, r) /\ F = FoundBefore(ms, k, r)
      BY <1>3 DEF Now
    <3>2. \A i \in DOMAIN ms : i < k + 1 <=> i < k \/ i = k
      BY <2>4, <2>5
    <3>3. \A c : (\E i \in DOMAIN ms : i < k + 1 /\ ms[i] = c)
                 <=> (\E i \in DOMAIN ms : i < k /\ ms[i] = c) \/ c = b
      BY <2>6, <3>2
    <3> HIDE DEF b, passes, F
    <3> QED BY <2>7, <3>1, <3>3 DEF FoundBefore
  <2>9. b \notin F
    <3>1. \A i \in DOMAIN ms : i < k => i # k
      BY <2>4, <2>5
    <3> QED BY <2>5, <2>6, <3>1 DEF Now, FoundBefore
  <2>10. IsCursor(s, D)
    BY <1>3, <2>1 DEF ProbeInv, IsCursor, OnceOnly
  <2>11. s.aloneAt \in Nat \ {0} /\ state.n \in Nat /\ state.aloneAt = s.aloneAt
    BY <1>3, <2>1 DEF ProbeInv
  <2>12. IsOut(out, D, F, r, state.aloneAt, state.matched)
    BY <2>1 DEF ProbeInv
  <2>13. s.ended => s.probeDone /\ (PadsBuild => s.aloneAt > Len(Build))
    BY <1>3, <2>1 DEF ProbeInv
  <2>14. k + 1 \in Nat \ {0}
    BY <2>4
  <2>15. CASE ~passes
    <3>1. /\ s.rowMatched = state.rowMatched /\ s.matched = state.matched /\ s.n = state.n /\ o = out
      <4> HIDE DEF passes, b
      <4> QED BY <1>1, <1>2, <2>15 DEF JoinFields
    <3>2. Now(s) = F
      BY <2>8, <2>15
    <3>3. InRow(s)
      BY <1>3, <2>1, <2>14, <3>1, <3>2 DEF ProbeInv, InRow
    <3>4. IsOut(o, D, Now(s), s.chunk[s.at], s.aloneAt, s.matched)
      BY <1>3, <2>12, <3>1, <3>2
    <3>5. s.restarts = 0 => FirstTime(s, o, D)
      BY <1>3, <2>1, <3>1, <3>2 DEF ProbeInv, FirstTime
    <3>6. s.built /\ s.n \in Nat
      BY <1>3, <2>4, <2>11, <3>1
    <3>7. ProbeInv(s, o, D)
      BY <2>10, <2>11, <2>13, <3>3, <3>4, <3>5, <3>6 DEF ProbeInv
    <3> QED BY <3>7
  <2>16. CASE passes
    <3> DEFINE e == Pair(b, r)
    <3>1. /\ s.rowMatched = TRUE /\ s.matched = state.matched \cup {b} /\ s.n = state.n + 1
          /\ o = Append(out, e)
      <4> HIDE DEF passes, b
      <4> QED BY <1>1, <1>2, <2>16 DEF JoinFields
    <3>2. Now(s) = F \cup {b}
      BY <2>8, <2>16
    <3>3. InRow(s)
      BY <1>3, <2>4, <2>14, <3>1, <3>2 DEF InRow
    <3>4. e \in RowPairs /\ out \in Seq(RowPairs)
      <4>1. b \in Nat /\ r \in Nat
        BY <1>1, <2>4, <2>7, RowNumbers
      <4> QED BY <4>1, <2>12, PairOf DEF IsOut
    <3>5. /\ o \in Seq(RowPairs) /\ \A q : q \in Range(o) <=> q \in Range(out) \/ q = e
          /\ IsInjective(out) /\ e \notin Range(out) => IsInjective(o)
      <4> HIDE DEF e
      <4> QED BY <3>1, <3>4, OutAppend
    <3>6. IsOut(o, D, Now(s), s.chunk[s.at], s.aloneAt, s.matched)
      <4>1. \A q : OfAlone(s.aloneAt, s.matched, q) <=> OfAlone(state.aloneAt, state.matched, q)
        <5> SUFFICES ASSUME PadsBuild
                     PROVE  \A q : ~OfAlone(s.aloneAt, s.matched, q) /\ ~OfAlone(state.aloneAt, state.matched, q)
          BY DEF OfAlone
        <5>1. state.aloneAt = 1
          BY <2>1, <2>2, <2>4, <2>11 DEF ProbeInv, FirstTime
        <5>2. \A c \in DOMAIN Build : ~(c < 1)
          BY <1>1, RowNumbers
        <5> QED BY <2>11, <5>1, <5>2 DEF OfAlone
      <4>2. \A q : OfRow(F \cup {b}, r, q) <=> OfRow(F, r, q) \/ q = e
        BY DEF OfRow
      <4>3. s.chunk[s.at] = r
        BY <1>3
      <4> HIDE DEF e, F, b, r
      <4> QED BY <2>12, <3>2, <3>5, <4>1, <4>2, <4>3 DEF IsOut
    <3>7. s.restarts = 0 => FirstTime(s, o, D)
      <4> SUFFICES ASSUME state.restarts = 0 PROVE FirstTime(s, o, D)
        BY <1>3
      <4>1. FirstTime(state, out, D) /\ OnceOnly(state, D)
        BY <2>1 DEF ProbeInv, IsCursor
      <4>2. e \notin Range(out)
        <5>1. r \notin D
          <6>1. state.at \in Nat
            BY <2>1 DEF ProbeInv, IsCursor
          <6>2. state.at >= state.at
            BY <6>1
          <6> QED BY <2>4, <4>1, <6>2 DEF OnceOnly
        <5>2. ~OfDone(D, e)
          BY <5>1, PairOf DEF OfDone
        <5>3. ~OfRow(F, r, e)
          BY <2>9, PairOf DEF OfRow
        <5>4. ~OfAlone(state.aloneAt, state.matched, e)
          <6>1. r # 0
            BY <1>1, <2>4, RowNumbers
          <6> QED BY <6>1, PairOf DEF OfAlone
        <5> QED BY <2>12, <5>2, <5>3, <5>4 DEF IsOut
      <4> HIDE DEF e, b
      <4> QED BY <1>3, <3>1, <3>2, <3>5, <4>1, <4>2 DEF FirstTime
    <3>8. s.built /\ s.n \in Nat
      BY <1>3, <2>4, <2>11, <3>1
    <3>9. ProbeInv(s, o, D)
      BY <2>10, <2>11, <2>13, <3>3, <3>6, <3>7, <3>8 DEF ProbeInv
    <3> QED BY <3>9
  <2> QED BY <2>15, <2>16
<1> QED BY <1>1, <1>3, <1>4 DEF Joining

\* The cursor moves on to the next row of the chunk.
NextRow(st, s) ==
  /\ s.built /\ s.probed = st.probed /\ s.probeDone = st.probeDone /\ s.chunk = st.chunk
  /\ s.at = st.at + 1 /\ s.matches = <<>> /\ s.matchAt \in Nat \ {0} /\ s.matched = st.matched
  /\ s.aloneAt = st.aloneAt /\ s.n \in Nat /\ s.ended = st.ended /\ s.restarts = st.restarts

\* A row of the probe side that has no more matches is done.
LEMMA RowDone ==
  ASSUME NEW st, NEW oo, NEW D, ProbeInv(st, oo, D), IsJoinQuery(query), Counts(st), st.built,
         st.at \in DOMAIN st.chunk, NEW r, r = st.chunk[st.at], Now(st) = Partners(r),
         NEW s, NextRow(st, s),
         NEW o, o = IF PadsProbe /\ Partners(r) = {} THEN Append(oo, Pair(0, r)) ELSE oo
  PROVE  ProbeInv(s, o, D \cup {r})
<1> DEFINE E == D \cup {r}
           F == Partners(r)
           e == Pair(0, r)
<1>0. /\ s.built /\ s.probed = st.probed /\ s.probeDone = st.probeDone /\ s.chunk = st.chunk
      /\ s.at = st.at + 1 /\ s.matches = <<>> /\ s.matchAt \in Nat \ {0} /\ s.matched = st.matched
      /\ s.aloneAt = st.aloneAt /\ s.n \in Nat /\ s.ended = st.ended /\ s.restarts = st.restarts
  BY DEF NextRow
<1> USE <1>0
<1>1. st.chunk \in Seq(DOMAIN Probe) /\ st.at \in Nat \ {0} /\ IsCursor(st, D)
  BY DEF ProbeInv, IsCursor
<1>2. r \in DOMAIN Probe
  <2> DEFINE c == st.chunk
             T == DOMAIN Probe
             i == st.at
  <2>1. c \in Seq(T) /\ i \in DOMAIN c
    BY <1>1
  <2> HIDE DEF c, T, i
  <2>2. c[i] \in T
    BY <2>1
  <2> QED BY <2>2 DEF c, T, i
<1>3. Now(s) = {}
  BY NoneFound
<1>4. /\ DOMAIN st.chunk \subseteq Nat
      /\ \A x \in DOMAIN st.chunk : x >= st.at <=> x = st.at \/ x >= s.at
      /\ \A x \in DOMAIN st.chunk : x >= s.at => x >= st.at /\ x # st.at
      /\ s.at \in Nat \ {0} /\ st.at >= st.at
  BY <1>1
<1>5. IsCursor(s, E)
  <2>1. ASSUME s.restarts = 0 PROVE OnceOnly(s, E)
    <3>1. OnceOnly(st, D)
      BY <1>1, <2>1 DEF IsCursor
    <3>2. \A x \in DOMAIN st.chunk : x >= s.at => st.chunk[x] # r
      BY <3>1, <1>4 DEF OnceOnly
    <3> QED BY <1>4, <3>1, <3>2 DEF OnceOnly
  <2>2. \A i \in 1 .. s.probed : i \in E \/ \E x \in DOMAIN s.chunk : x >= s.at /\ s.chunk[x] = i
    BY <1>1, <1>4 DEF IsCursor
  <2> QED BY <1>1, <1>2, <1>4, <2>1, <2>2 DEF IsCursor
<1>6. InRow(s)
  BY DEF InRow
<1>7. IsOut(oo, D, F, r, st.aloneAt, st.matched)
  BY DEF ProbeInv
<1>8. e \in RowPairs /\ oo \in Seq(RowPairs)
  <2>1. 0 \in Nat /\ r \in Nat
    BY <1>2, RowNumbers
  <2> QED BY <1>7, <2>1, PairOf DEF IsOut
<1>9. /\ o \in Seq(RowPairs)
      /\ \A q : q \in Range(o) <=> q \in Range(oo) \/ (PadsProbe /\ F = {} /\ q = e)
      /\ IsInjective(oo) /\ (PadsProbe /\ F = {} => e \notin Range(oo)) => IsInjective(o)
  <2> HIDE DEF e, F
  <2>1. CASE PadsProbe /\ F = {}
    <3>1. o = Append(oo, e)
      BY <2>1 DEF e, F
    <3> QED BY <1>8, <2>1, <3>1, OutAppend
  <2>2. CASE ~(PadsProbe /\ F = {})
    <3>1. o = oo
      BY <2>2 DEF F
    <3> QED BY <1>8, <2>2, <3>1
  <2> QED BY <2>1, <2>2
<1>10. \A y, q : IsOut(o, E, Now(s), y, s.aloneAt, s.matched)
  <2>1. \A q : OfDone(E, q) <=> OfDone(D, q) \/ OfRow(F, r, q) \/ (PadsProbe /\ F = {} /\ q = e)
    BY DEF OfDone, OfRow
  <2>2. \A y, q : ~OfRow(Now(s), y, q)
    BY <1>3 DEF OfRow
  <2> HIDE DEF E, F, e
  <2>3. s.aloneAt = st.aloneAt /\ s.matched = st.matched
    OBVIOUS
  <2> QED BY <1>7, <1>9, <2>1, <2>2, <2>3 DEF IsOut
<1>11. ASSUME s.restarts = 0 PROVE FirstTime(s, o, E)
  <2>1. FirstTime(st, oo, D) /\ OnceOnly(st, D)
    BY <1>1, <1>11 DEF ProbeInv, IsCursor
  <2>2. F = {} => e \notin Range(oo)
    <3> SUFFICES ASSUME F = {} PROVE e \notin Range(oo)
      OBVIOUS
    <3>1. r \notin D
      BY <1>4, <2>1 DEF OnceOnly
    <3>2. ~OfDone(D, e)
      BY <3>1, PairOf DEF OfDone
    <3>3. ~OfRow(F, r, e)
      BY DEF OfRow
    <3>4. ~OfAlone(st.aloneAt, st.matched, e)
      <4>1. r # 0
        BY <1>2, RowNumbers
      <4> QED BY <4>1, PairOf DEF OfAlone
    <3> QED BY <1>7, <3>2, <3>3, <3>4 DEF IsOut
  <2>3. IsInjective(o)
    <3> HIDE DEF e, F
    <3> QED BY <1>9, <2>1, <2>2 DEF FirstTime
  <2>4. s.matched = (UNION {Partners(p) : p \in E}) \cup Now(s)
    BY <1>3, <2>1 DEF FirstTime
  <2> HIDE DEF E
  <2> QED BY <2>1, <2>3, <2>4 DEF FirstTime
<1>12. s.ended => s.probeDone /\ (PadsBuild => s.aloneAt > Len(Build))
  BY DEF ProbeInv
<1>13. s.aloneAt \in Nat \ {0}
  BY DEF ProbeInv
<1> HIDE DEF E
<1>14. ProbeInv(s, o, E)
  BY <1>5, <1>6, <1>10, <1>11, <1>12, <1>13 DEF ProbeInv
<1> QED BY <1>14 DEF E

LEMMA EndOfMatchesStep ==
  ASSUME JoinInv, EndOfMatches, NEW s, s = state', NEW o, o = out' PROVE Joining(s, o)
<1> DEFINE k == state.matchAt
           ms == state.matches
           r == state.chunk[state.at]
           pads == HasResidual /\ ~state.rowMatched /\ state.n < VectorSize /\ PadsProbe
<1>1. /\ IsJoin /\ IsJoinQuery(query) /\ DOMAIN state = JoinFields /\ state.restarts \in {0, 1}
      /\ query.type # "CROSS" /\ ms # <<>> /\ k > Len(ms) /\ state.calling
  BY DEF JoinInv, Joining, EndOfMatches, Probing, InCall
<1>2. /\ s = [state EXCEPT !.matches = <<>>, !.matchAt = 1, !.at = state.at + 1,
                           !.n = IF pads THEN state.n + 1 ELSE state.n]
      /\ o = IF pads THEN Append(out, Pair(0, r)) ELSE out
  BY DEF EndOfMatches, CurrentRow
<1>3. /\ DOMAIN s = JoinFields /\ s.built = state.built /\ s.probed = state.probed
      /\ s.probeDone = state.probeDone /\ s.chunk = state.chunk /\ s.at = state.at + 1
      /\ s.matches = <<>> /\ s.matchAt = 1 /\ s.matched = state.matched
      /\ s.aloneAt = state.aloneAt /\ s.n = (IF pads THEN state.n + 1 ELSE state.n)
      /\ s.ended = state.ended /\ s.restarts = state.restarts
  <2> HIDE DEF pads
  <2> QED BY <1>1, <1>2 DEF JoinFields
<1>4. ASSUME Counts(s) PROVE \E D : ProbeInv(s, o, D)
  <2>1. Counts(state)
    BY <1>3, <1>4 DEF Counts
  <2>2. PICK D : ProbeInv(state, out, D)
    BY <2>1 DEF JoinInv, Joining
  <2>3. Proper
    BY <2>1 DEF Counts
  <2>4. /\ state.built /\ state.at \in DOMAIN state.chunk /\ r \in DOMAIN Probe
        /\ ms = Bucket(Probe[r]) /\ k \in Nat \ {0}
    BY <1>1, <2>2, <2>3, InTheRow
  <2>5. /\ ms \in Seq(Nat)
        /\ \A b \in Partners(r) : \E i \in DOMAIN ms : ms[i] = b
        /\ \A i \in DOMAIN ms : ms[i] \in Partners(r) <=> ResidualPasses(Build[ms[i]], Probe[r])
    BY <1>1, <2>3, <2>4, BucketPartners
  <2>6. Now(state) = Partners(r)
    <3>1. \A i \in DOMAIN ms : i < k
      BY <1>1, <2>4, <2>5
    <3> QED BY <2>5, <3>1 DEF Now, FoundBefore
  <2>7. /\ state.rowMatched <=> Partners(r) # {}
        /\ ~state.rowMatched => state.n < VectorSize
    BY <1>1, <2>2, <2>6 DEF ProbeInv, InRow
  <2>8. Partners(r) = {} => HasResidual
    <3>1. 1 \in DOMAIN ms
      BY <1>1, <2>5
    <3> QED BY <2>5, <3>1 DEF ResidualPasses
  <2>9. pads <=> PadsProbe /\ Partners(r) = {}
    BY <2>7, <2>8
  <2>10. s.n \in Nat
    <3>1. state.n \in Nat
      BY <2>2 DEF ProbeInv
    <3> HIDE DEF pads
    <3> QED BY <1>3, <3>1
  <2>11. o = IF PadsProbe /\ Partners(r) = {} THEN Append(out, Pair(0, r)) ELSE out
    BY <1>2, <2>9
  <2>12. s.matchAt \in Nat \ {0}
    BY <1>3
  <2> HIDE DEF r, pads
  <2>13. r = state.chunk[state.at]
    BY DEF r
  <2>14. NextRow(state, s)
    BY <1>3, <2>4, <2>10, <2>12 DEF NextRow
  <2>15. ProbeInv(s, o, D \cup {r})
    BY <1>1, <2>1, <2>2, <2>4, <2>6, <2>11, <2>13, <2>14, RowDone
  <2> QED BY <2>15
<1> QED BY <1>1, <1>3, <1>4 DEF Joining

LEMMA ProbeRowStep ==
  ASSUME JoinInv, ProbeRow, NEW s, s = state', NEW o, o = out' PROVE Joining(s, o)
<1> DEFINE r == state.chunk[state.at]
           bucket == Bucket(Probe[r])
<1>1. /\ IsJoin /\ IsJoinQuery(query) /\ DOMAIN state = JoinFields /\ state.restarts \in {0, 1}
      /\ query.type # "CROSS" /\ state.matches = <<>> /\ state.calling
      /\ state.at <= Len(state.chunk) /\ state.n < VectorSize
  BY DEF JoinInv, Joining, ProbeRow, Probing, InCall
<1>2. IF bucket # <<>>
      THEN /\ s = [state EXCEPT !.matches = bucket, !.matchAt = 1, !.rowMatched = FALSE]
           /\ o = out
      ELSE /\ s = [state EXCEPT !.at = state.at + 1, !.n = IF PadsProbe THEN state.n + 1 ELSE state.n]
           /\ o = IF PadsProbe THEN Append(out, Pair(0, r)) ELSE out
  BY DEF ProbeRow, CurrentRow
<1>3. /\ DOMAIN s = JoinFields /\ s.built = state.built /\ s.probed = state.probed
      /\ s.probeDone = state.probeDone /\ s.chunk = state.chunk /\ s.matched = state.matched
      /\ s.aloneAt = state.aloneAt /\ s.ended = state.ended /\ s.restarts = state.restarts
      /\ s.calling = state.calling
  <2> HIDE DEF bucket
  <2> QED BY <1>1, <1>2 DEF JoinFields
<1>4. ASSUME Counts(s) PROVE \E D : ProbeInv(s, o, D)
  <2>1. Counts(state)
    BY <1>3, <1>4 DEF Counts
  <2>2. PICK D : ProbeInv(state, out, D)
    BY <2>1 DEF JoinInv, Joining
  <2>3. Proper
    BY <2>1 DEF Counts
  <2>4. state.built
    BY <1>1, <2>2 DEF ProbeInv
  <2>5. state.at \in DOMAIN state.chunk
    <3>1. state.chunk \in Seq(DOMAIN Probe) /\ state.at \in Nat \ {0}
      BY <2>2 DEF ProbeInv, IsCursor
    <3> QED BY <1>1, <3>1
  <2>6. r \in DOMAIN Probe
    <3> DEFINE c == state.chunk
               T == DOMAIN Probe
               i == state.at
    <3>1. c \in Seq(T) /\ i \in DOMAIN c
      BY <2>2, <2>5 DEF ProbeInv, IsCursor
    <3> HIDE DEF c, T, i
    <3>2. c[i] \in T
      BY <3>1
    <3> QED BY <3>2 DEF c, T, i
  <2>7. Now(state) = {}
    BY <1>1, NoneFound
  <2>8. CASE bucket # <<>>
    <3>1. /\ s.at = state.at /\ s.n = state.n /\ o = out /\ s.matches = bucket /\ s.matchAt = 1
          /\ s.rowMatched = FALSE
      <4> HIDE DEF bucket
      <4> QED BY <1>1, <1>2, <2>8 DEF JoinFields
    <3>2. Now(s) = {}
      <4>1. bucket \in Seq(Nat)
        BY <1>1, <2>3, <2>6, BucketPartners
      <4>2. \A i \in DOMAIN bucket : ~(i < 1)
        BY <4>1
      <4> QED BY <3>1, <4>2 DEF Now, FoundBefore
    <3>3. IsCursor(s, D)
      BY <1>3, <2>2, <3>1 DEF ProbeInv, IsCursor, OnceOnly
    <3>4. InRow(s)
      <4> HIDE DEF bucket
      <4>1. s.at \in DOMAIN s.chunk /\ s.n < VectorSize /\ s.matchAt \in Nat \ {0}
        BY <1>1, <1>3, <2>5, <3>1
      <4>2. s.matches = Bucket(Probe[s.chunk[s.at]])
        BY <1>3, <3>1 DEF bucket
      <4>3. s.rowMatched <=> Now(s) # {}
        BY <3>1, <3>2
      <4> QED BY <4>1, <4>2, <4>3 DEF InRow
    <3>5. s.n \in Nat /\ s.aloneAt \in Nat \ {0}
      BY <1>3, <2>2, <3>1 DEF ProbeInv
    <3>6. IsOut(o, D, Now(s), s.chunk[s.at], s.aloneAt, s.matched)
      <4>1. IsOut(out, D, Now(state), state.chunk[state.at], state.aloneAt, state.matched)
        BY <2>2 DEF ProbeInv
      <4> QED BY <1>3, <2>7, <3>1, <3>2, <4>1
    <3>7. s.restarts = 0 => FirstTime(s, o, D)
      BY <1>3, <2>2, <2>7, <3>1, <3>2 DEF ProbeInv, FirstTime
    <3>8. s.ended => s.probeDone /\ (PadsBuild => s.aloneAt > Len(Build))
      BY <1>3, <2>2 DEF ProbeInv
    <3> QED BY <1>3, <2>4, <3>3, <3>4, <3>5, <3>6, <3>7, <3>8 DEF ProbeInv
  <2>9. CASE bucket = <<>>
    <3>1. /\ s.at = state.at + 1 /\ s.matches = state.matches /\ s.matchAt = state.matchAt
          /\ s.n = (IF PadsProbe THEN state.n + 1 ELSE state.n)
          /\ o = IF PadsProbe THEN Append(out, Pair(0, r)) ELSE out
      <4> HIDE DEF bucket
      <4> QED BY <1>1, <1>2, <2>9 DEF JoinFields
    <3>2. Partners(r) = {}
      <4>1. \A b \in Partners(r) : \E i \in DOMAIN bucket : bucket[i] = b
        BY <1>1, <2>3, <2>6, BucketPartners
      <4>2. DOMAIN bucket = {}
        BY <2>9
      <4> HIDE DEF bucket
      <4> QED BY <4>1, <4>2
    <3>3. s.n \in Nat /\ s.matchAt \in Nat \ {0}
      <4>1. state.n \in Nat /\ state.matchAt \in Nat \ {0}
        BY <2>2 DEF ProbeInv, InRow
      <4> QED BY <3>1, <4>1
    <3>4. o = IF PadsProbe /\ Partners(r) = {} THEN Append(out, Pair(0, r)) ELSE out
      BY <3>1, <3>2
    <3>5. s.matches = <<>> /\ s.built
      BY <1>1, <1>3, <2>4, <3>1
    <3> HIDE DEF r, bucket
    <3>6. r = state.chunk[state.at]
      BY DEF r
    <3>7. Now(state) = Partners(r)
      BY <2>7, <3>2
    <3>8. NextRow(state, s)
      BY <1>3, <3>1, <3>3, <3>5 DEF NextRow
    <3>9. ProbeInv(s, o, D \cup {r})
      BY <1>1, <2>1, <2>2, <2>4, <2>5, <3>4, <3>6, <3>7, <3>8, RowDone
    <3> QED BY <3>9
  <2> QED BY <2>8, <2>9
<1> QED BY <1>1, <1>3, <1>4 DEF Joining

\* A piece of the numbers from 1.
Numbers(P, from, to) == SubSeq([x \in 1 .. P |-> x], from + 1, to)

LEMMA NextNumbers ==
  ASSUME NEW P \in Nat, NEW from \in 0 .. P, NEW to \in from .. P
  PROVE  /\ Numbers(P, from, to) \in Seq(1 .. P)
         /\ Len(Numbers(P, from, to)) = to - from
         /\ DOMAIN Numbers(P, from, to) = 1 .. (to - from)
         /\ \A x \in 1 .. (to - from) : Numbers(P, from, to)[x] = from + x
         /\ Numbers(P, from, to) = <<>> <=> from = to
<1> DEFINE ns == [x \in 1 .. P |-> x]
           T == 1 .. P
           m == from + 1
           next == SubSeq(ns, m, to)
<1>1. m \in Int /\ to \in Int /\ \A i \in m .. to : ns[i] \in T
  OBVIOUS
<1>2. /\ to - m + 1 = to - from /\ to - from \in Nat /\ (m <= to <=> from # to)
      /\ (to - from = 0 <=> from = to)
  OBVIOUS
<1>3. \A x \in 1 .. (to - from) : from + x \in T /\ m + x - 1 = from + x
  OBVIOUS
<1>4. \A x \in T : ns[x] = x
  OBVIOUS
<1>5. Numbers(P, from, to) = next
  BY DEF Numbers
<1> HIDE DEF m, ns, T
<1>6. /\ next \in Seq(T) /\ Len(next) = (IF m <= to THEN to - m + 1 ELSE 0)
      /\ \A i \in 1 .. to - m + 1 : next[i] = ns[m + i - 1]
  BY <1>1, SubSeqProperties
<1> HIDE DEF next
<1>7. Len(next) = to - from
  BY <1>2, <1>6
<1>8. \A x \in 1 .. (to - from) : next[x] = from + x
  BY <1>2, <1>3, <1>4, <1>6
<1>9. DOMAIN next = 1 .. (to - from)
  BY <1>6, <1>7
<1>10. next = <<>> <=> from = to
  BY <1>2, <1>6, <1>7
<1> QED BY <1>5, <1>6, <1>7, <1>8, <1>9, <1>10 DEF T

LEMMA FetchChunkStep ==
  ASSUME JoinInv, FetchChunk, NEW s, s = state', NEW o, o = out' PROVE Joining(s, o)
<1> DEFINE P == Len(Probe)
           from == state.probed
           last == from + VectorSize
           to == IF last > P THEN P ELSE last
           next == SubSeq([x \in 1 .. P |-> x], from + 1, to)
<1>1. /\ IsJoin /\ IsJoinQuery(query) /\ DOMAIN state = JoinFields /\ state.restarts \in {0, 1}
      /\ query.type # "CROSS" /\ state.matches = <<>> /\ state.calling /\ ~state.probeDone
      /\ state.at > Len(state.chunk) /\ o = out
  BY DEF JoinInv, Joining, FetchChunk, Probing, InCall
<1>2. s = IF next = <<>> THEN [state EXCEPT !.probeDone = TRUE, !.chunk = <<>>]
          ELSE [state EXCEPT !.chunk = next, !.at = 1, !.probed = from + Len(next)]
  BY DEF FetchChunk
<1>3. /\ DOMAIN s = JoinFields /\ s.built = state.built /\ s.matched = state.matched
      /\ s.matches = state.matches /\ s.matchAt = state.matchAt /\ s.n = state.n
      /\ s.aloneAt = state.aloneAt /\ s.ended = state.ended /\ s.restarts = state.restarts
      /\ s.calling = state.calling
  <2> HIDE DEF next
  <2> QED BY <1>1, <1>2 DEF JoinFields
<1>4. ASSUME Counts(s) PROVE \E D : ProbeInv(s, o, D)
  <2>1. Counts(state)
    BY <1>3, <1>4 DEF Counts
  <2>2. PICK D : ProbeInv(state, out, D)
    BY <2>1 DEF JoinInv, Joining
  <2>3. IsCursor(state, D) /\ state.chunk \in Seq(DOMAIN Probe) /\ state.at \in Nat \ {0}
        /\ from \in 0 .. P /\ D \subseteq DOMAIN Probe
    BY <2>2 DEF ProbeInv, IsCursor
  <2>4. P \in Nat /\ DOMAIN Probe = 1 .. P
    BY <1>1, Sides
  <2>5. /\ to \in from .. P /\ (from = to => from = P)
    BY <2>3, <2>4, VectorAssumption
  <2>6. /\ next \in Seq(1 .. P) /\ DOMAIN next = 1 .. (to - from) /\ Len(next) = to - from
        /\ \A x \in 1 .. (to - from) : next[x] = from + x
        /\ next = <<>> <=> from = to
    <3>1. next = Numbers(P, from, to)
      BY DEF Numbers
    <3> HIDE DEF P, to, from, next
    <3>2. P \in Nat /\ from \in 0 .. P /\ to \in from .. P
      BY <2>3, <2>4, <2>5
    <3>3. /\ Numbers(P, from, to) \in Seq(1 .. P)
          /\ Len(Numbers(P, from, to)) = to - from
          /\ DOMAIN Numbers(P, from, to) = 1 .. (to - from)
          /\ \A x \in 1 .. (to - from) : Numbers(P, from, to)[x] = from + x
          /\ Numbers(P, from, to) = <<>> <=> from = to
      BY <3>2, NextNumbers
    <3> QED BY <3>1, <3>3
  <2> HIDE DEF next
  <2>7. \A i \in 1 .. from : i \in D
    <3>1. \A x \in DOMAIN state.chunk : ~(x >= state.at)
      BY <1>1, <2>3
    <3> QED BY <2>3, <3>1 DEF IsCursor
  <2>8. Now(state) = {} /\ Now(s) = {}
    BY <1>1, <1>3, NoneFound
  <2>9. IsCursor(s, D)
    <3>1. CASE next = <<>>
      <4>1. s.probeDone /\ s.chunk = <<>> /\ s.at = state.at /\ s.probed = from
        BY <1>1, <1>2, <3>1 DEF JoinFields
      <4>2. from = P
        BY <2>5, <2>6, <3>1
      <4>3. DOMAIN <<>> = {} /\ <<>> \in Seq(DOMAIN Probe)
        OBVIOUS
      <4>4. s.restarts = 0 => OnceOnly(s, D)
        BY <1>3, <2>3, <4>1, <4>3 DEF IsCursor, OnceOnly
      <4> QED BY <2>3, <2>7, <4>1, <4>2, <4>3, <4>4 DEF IsCursor
    <3>2. CASE next # <<>>
      <4>1. ~s.probeDone /\ s.chunk = next /\ s.at = 1 /\ s.probed = from + Len(next)
        BY <1>1, <1>2, <3>2 DEF JoinFields
      <4>2. s.probed = to /\ to \in 0 .. P /\ from \in Nat /\ from <= to
        BY <2>3, <2>4, <2>5, <2>6, <4>1
      <4>3. \A i \in 1 .. s.probed : i \in D \/ \E x \in DOMAIN s.chunk : x >= s.at /\ s.chunk[x] = i
        <5> SUFFICES ASSUME NEW i \in 1 .. to, i \notin D
                     PROVE  \E x \in DOMAIN next : x >= 1 /\ next[x] = i
          BY <4>1, <4>2
        <5>1. i > from
          BY <2>7, <4>2
        <5>2. i - from \in 1 .. (to - from) /\ i - from >= 1 /\ from + (i - from) = i
          BY <4>2, <5>1
        <5> QED BY <2>6, <5>2
      <4>4. ASSUME s.restarts = 0 PROVE OnceOnly(s, D)
        <5>1. \A p \in D : p <= from
          BY <1>3, <2>3, <4>4 DEF IsCursor, OnceOnly
        <5>2. \A p \in D : p \in 1 .. P
          BY <2>3, <2>4
        <5>3. \A p \in D : p <= to
          BY <2>4, <4>2, <5>1, <5>2
        <5>4. \A x \in 1 .. (to - from) : from + x <= to /\ ~(from + x <= from)
          BY <4>2
        <5>5. \A x \in DOMAIN next : next[x] <= to /\ next[x] \notin D
          BY <2>6, <5>1, <5>4
        <5>6. \A x, y \in DOMAIN next : next[x] = next[y] => x = y
          <6>1. \A x, y \in 1 .. (to - from) : from + x = from + y => x = y
            BY <4>2
          <6> QED BY <2>6, <6>1
        <5> QED BY <4>1, <4>2, <5>3, <5>5, <5>6 DEF OnceOnly
      <4> QED BY <2>3, <2>4, <2>6, <4>1, <4>2, <4>3, <4>4 DEF IsCursor
    <3> QED BY <3>1, <3>2
  <2>10. InRow(s)
    BY <1>1, <1>3, <2>2 DEF ProbeInv, InRow
  <2>11. IsOut(o, D, Now(s), s.chunk[s.at], s.aloneAt, s.matched)
    <3>1. IsOut(out, D, {}, state.chunk[state.at], state.aloneAt, state.matched)
      BY <2>2, <2>8 DEF ProbeInv
    <3>2. \A y, q : ~OfRow({}, y, q)
      BY DEF OfRow
    <3> QED BY <1>1, <1>3, <2>8, <3>1, <3>2 DEF IsOut
  <2>12. s.restarts = 0 => FirstTime(s, o, D)
    BY <1>1, <1>3, <2>2, <2>8 DEF ProbeInv, FirstTime
  <2>13. s.built /\ ~s.ended /\ s.n \in Nat /\ s.aloneAt \in Nat \ {0}
    BY <1>1, <1>3, <2>2 DEF ProbeInv
  <2> QED BY <2>9, <2>10, <2>11, <2>12, <2>13 DEF ProbeInv
<1> QED BY <1>1, <1>3, <1>4 DEF Joining

LEMMA EmitUnmatchedStep ==
  ASSUME JoinInv, EmitUnmatched, NEW s, s = state', NEW o, o = out' PROVE Joining(s, o)
<1> DEFINE a == state.aloneAt
           M == state.matched
           e == Pair(a, 0)
<1>1. /\ IsJoin /\ IsJoinQuery(query) /\ DOMAIN state = JoinFields /\ state.restarts \in {0, 1}
      /\ query.type # "CROSS" /\ state.calling /\ state.probeDone /\ PadsBuild /\ a <= Len(Build)
  BY DEF JoinInv, Joining, EmitUnmatched, Probing, InCall
<1>2. IF a \in M
      THEN s = [state EXCEPT !.aloneAt = a + 1] /\ o = out
      ELSE s = [state EXCEPT !.aloneAt = a + 1, !.n = state.n + 1] /\ o = Append(out, e)
  BY DEF EmitUnmatched, Emit
<1>3. /\ DOMAIN s = JoinFields /\ s.built = state.built /\ s.probed = state.probed
      /\ s.probeDone = state.probeDone /\ s.chunk = state.chunk /\ s.at = state.at
      /\ s.matches = state.matches /\ s.matchAt = state.matchAt /\ s.rowMatched = state.rowMatched
      /\ s.matched = state.matched /\ s.aloneAt = a + 1 /\ s.calling = state.calling
      /\ s.n = (IF a \in M THEN state.n ELSE state.n + 1)
      /\ s.ended = state.ended /\ s.restarts = state.restarts
  <2> HIDE DEF a, M
  <2> QED BY <1>1, <1>2 DEF JoinFields
<1>4. ASSUME Counts(s) PROVE \E D : ProbeInv(s, o, D)
  <2>1. PICK D : ProbeInv(state, out, D)
    BY <1>3, <1>4 DEF JoinInv, Joining, Counts
  <2>2. state.restarts = 0 /\ FirstTime(state, out, D)
    BY <1>1, <1>3, <1>4, <2>1 DEF Counts, ProbeInv
  <2>3. D \subseteq DOMAIN Probe /\ state.chunk = <<>> /\ a \in Nat \ {0} /\ state.n \in Nat
    BY <1>1, <2>1 DEF ProbeInv, IsCursor
  <2>4. state.matches = <<>>
    <3>1. DOMAIN <<>> = {}
      OBVIOUS
    <3> QED BY <2>1, <2>3, <3>1 DEF ProbeInv, InRow
  <2>5. Now(state) = {} /\ Now(s) = {}
    BY <1>3, <2>4, NoneFound
  <2>6. a \in DOMAIN Build /\ a \in Nat
    BY <1>1, <2>3, Sides
  <2>7. e \in RowPairs
    <3>1. 0 \in Nat
      OBVIOUS
    <3> QED BY <2>6, <3>1, PairOf
  <2>8. IsOut(out, D, {}, state.chunk[state.at], a, M)
    BY <2>1, <2>5 DEF ProbeInv
  <2>9. \A y, q : ~OfRow({}, y, q)
    BY DEF OfRow
  <2>10. \A q : OfAlone(a + 1, M, q) <=> OfAlone(a, M, q) \/ (a \notin M /\ q = e)
    <3>1. \A b \in DOMAIN Build : b < a + 1 <=> b < a \/ b = a
      <4>1. \A b \in DOMAIN Build : b \in Nat
        BY <1>1, RowNumbers
      <4> QED BY <2>6, <4>1
    <3> QED BY <1>1, <2>6, <3>1 DEF OfAlone
  <2>11. /\ o \in Seq(RowPairs)
         /\ \A q : q \in Range(o) <=> q \in Range(out) \/ (a \notin M /\ q = e)
         /\ IsInjective(out) /\ e \notin Range(out) => IsInjective(o)
    <3>1. out \in Seq(RowPairs)
      BY <2>8 DEF IsOut
    <3> HIDE DEF e, a, M
    <3>2. CASE a \in M
      BY <1>2, <3>1, <3>2, <2>2 DEF FirstTime
    <3>3. CASE a \notin M
      <4>1. o = Append(out, e)
        BY <1>2, <3>3
      <4> QED BY <2>7, <3>1, <3>3, <4>1, OutAppend
    <3> QED BY <3>2, <3>3
  <2>12. e \notin Range(out)
    <3>1. ~OfDone(D, e)
      <4>1. 0 \notin D
        BY <1>1, <2>3, RowNumbers
      <4> QED BY <4>1, PairOf DEF OfDone
    <3>2. ~OfAlone(a, M, e)
      <4>1. \A b \in DOMAIN Build : b < a => b # a
        BY <2>6
      <4> QED BY <4>1, PairOf DEF OfAlone
    <3> QED BY <2>8, <2>9, <3>1, <3>2 DEF IsOut
  <2> HIDE DEF e, a, M
  <2>13. IsOut(o, D, Now(s), s.chunk[s.at], s.aloneAt, s.matched)
    <3>1. s.aloneAt = a + 1 /\ s.matched = M
      BY <1>3 DEF M
    <3> QED BY <2>5, <2>8, <2>9, <2>10, <2>11, <3>1 DEF IsOut
  <2>14. FirstTime(s, o, D)
    BY <1>1, <1>3, <2>2, <2>5, <2>11, <2>12 DEF FirstTime, M
  <2>15. IsCursor(s, D)
    BY <1>3, <2>1 DEF ProbeInv, IsCursor, OnceOnly
  <2>16. InRow(s)
    BY <1>3, <2>1, <2>4 DEF ProbeInv, InRow
  <2>17. s.n \in Nat /\ s.aloneAt \in Nat \ {0}
    BY <1>3, <2>3
  <2>18. s.built /\ ~s.ended
    <3>1. Len(Build) \in Nat
      BY <1>1, Sides
    <3>2. ~(a > Len(Build))
      BY <1>1, <2>6, <3>1
    <3> QED BY <1>1, <1>3, <2>1, <3>2 DEF ProbeInv, a
  <2> QED BY <2>13, <2>14, <2>15, <2>16, <2>17, <2>18 DEF ProbeInv
<1> QED BY <1>1, <1>3, <1>4 DEF Joining

LEMMA ReturnChunkStep ==
  ASSUME JoinInv, ReturnChunk, NEW s, s = state', NEW o, o = out' PROVE Joining(s, o)
<1>1. /\ IsJoin /\ IsJoinQuery(query) /\ DOMAIN state = JoinFields /\ state.restarts \in {0, 1}
      /\ state.calling /\ o = out
      /\ state.matches = <<>> \/ state.matchAt <= Len(state.matches)
      /\ \/ state.n = VectorSize
         \/ query.type = "CROSS" /\ state.emitAt > Len(state.pairs)
         \/ query.type # "CROSS" /\ state.probeDone /\ (PadsBuild => state.aloneAt > Len(Build))
  BY DEF JoinInv, Joining, ReturnChunk, InCall
<1>2. s = [state EXCEPT !.calling = FALSE, !.ended = (state.n = 0)]
  BY DEF ReturnChunk
<1>3. /\ DOMAIN s = JoinFields /\ s.built = state.built /\ s.probed = state.probed
      /\ s.probeDone = state.probeDone /\ s.chunk = state.chunk /\ s.at = state.at
      /\ s.matches = state.matches /\ s.matchAt = state.matchAt /\ s.rowMatched = state.rowMatched
      /\ s.matched = state.matched /\ s.aloneAt = state.aloneAt /\ s.pairs = state.pairs
      /\ s.emitAt = state.emitAt /\ s.n = state.n /\ s.calling = FALSE
      /\ s.restarts = state.restarts
  BY <1>1, <1>2 DEF JoinFields
<1>4. s.ended = (state.n = 0)
  BY <1>1, <1>2 DEF JoinFields
<1>5. s.ended => state.n # VectorSize
  BY <1>4, VectorAssumption
<1>6. ASSUME query.type = "CROSS" PROVE CrossInv(s, o)
  <2>1. CrossInv(state, out)
    BY <1>6 DEF JoinInv, Joining
  <2>2. s.ended => s.built /\ s.emitAt > Len(s.pairs)
    BY <1>1, <1>3, <1>5, <1>6, <2>1 DEF CrossInv
  <2> QED BY <1>1, <1>3, <2>1, <2>2 DEF CrossInv
<1>7. ASSUME Counts(s) PROVE \E D : ProbeInv(s, o, D)
  <2>1. PICK D : ProbeInv(state, out, D)
    BY <1>3, <1>7 DEF JoinInv, Joining, Counts
  <2>2. query.type # "CROSS"
    BY <1>7 DEF Counts, Proper
  <2>3. s.ended => s.probeDone /\ (PadsBuild => s.aloneAt > Len(Build))
    BY <1>1, <1>3, <1>5, <2>2
  <2>4. Now(s) = Now(state)
    BY <1>3 DEF Now
  <2>5. IsCursor(s, D)
    BY <1>3, <2>1 DEF ProbeInv, IsCursor, OnceOnly
  <2>6. InRow(s)
    BY <1>3, <2>1, <2>4 DEF ProbeInv, InRow
  <2>7. s.restarts = 0 => FirstTime(s, o, D)
    BY <1>1, <1>3, <2>1, <2>4 DEF ProbeInv, FirstTime
  <2>8. IsOut(o, D, Now(s), s.chunk[s.at], s.aloneAt, s.matched)
    BY <1>1, <1>3, <2>1, <2>4 DEF ProbeInv
  <2>9. s.built /\ s.n \in Nat /\ s.aloneAt \in Nat \ {0}
    BY <1>1, <1>3, <2>1 DEF ProbeInv
  <2> QED BY <2>3, <2>5, <2>6, <2>7, <2>8, <2>9 DEF ProbeInv
<1> QED BY <1>1, <1>3, <1>6, <1>7 DEF Joining

LEMMA RestartStep ==
  ASSUME JoinInv, Restart, NEW s, s = state', NEW o, o = out' PROVE Joining(s, o)
<1>1. /\ IsJoin /\ IsJoinQuery(query) /\ DOMAIN state = JoinFields /\ state.restarts = 0
      /\ ~state.calling /\ o = <<>>
  BY DEF JoinInv, Joining, Restart
<1>2. s = [state EXCEPT !.built = FALSE, !.emitAt = 1, !.probeDone = FALSE, !.at = 1,
                        !.matchAt = 1, !.matches = <<>>, !.probed = 0,
                        !.ended = FALSE, !.restarts = 1]
  BY DEF Restart
<1>3. /\ DOMAIN s = JoinFields /\ s.built = FALSE /\ s.probed = 0 /\ s.probeDone = FALSE
      /\ s.chunk = state.chunk /\ s.at = 1 /\ s.matches = <<>> /\ s.matchAt = 1
      /\ s.matched = state.matched /\ s.aloneAt = state.aloneAt /\ s.pairs = state.pairs
      /\ s.emitAt = 1 /\ s.n = state.n /\ s.calling = state.calling /\ s.ended = FALSE
      /\ s.restarts = 1
  BY <1>1, <1>2 DEF JoinFields
<1>4. ASSUME query.type = "CROSS" PROVE CrossInv(s, o)
  <2>1. CrossInv(state, out)
    BY <1>4 DEF JoinInv, Joining
  <2>2. state.pairs \in Seq(AllPairs)
    BY <2>1 DEF CrossInv
  <2>3. 1 \in 1 .. Len(state.pairs) + 1 /\ SubSeq(state.pairs, 1, 1 - 1) = <<>>
    <3> DEFINE T == AllPairs
               ps == state.pairs
    <3>1. ps \in Seq(T)
      BY <2>2
    <3> HIDE DEF T, ps
    <3>2. Len(ps) \in Nat
      BY <3>1
    <3>3. SubSeq(ps, 1, 0) = <<>>
      BY SubSeqEmpty
    <3> QED BY <3>2, <3>3 DEF ps
  <2> QED BY <1>1, <1>3, <2>1, <2>2, <2>3 DEF CrossInv
<1>5. ASSUME Counts(s) PROVE \E D : ProbeInv(s, o, D)
  <2>1. Counts(state) /\ ~PadsBuild
    BY <1>1, <1>3, <1>5 DEF Counts
  <2>2. PICK D : ProbeInv(state, out, D)
    BY <2>1 DEF JoinInv, Joining
  <2>3. Now(s) = {}
    BY <1>3, NoneFound
  <2>4. IsCursor(s, {})
    <3>1. 0 \in 0 .. Len(Probe) /\ 1 .. 0 = {} /\ 1 \in Nat \ {0}
      BY <1>1, Sides
    <3> QED BY <1>3, <2>2, <3>1 DEF ProbeInv, IsCursor
  <2>5. InRow(s)
    BY <1>3 DEF InRow
  <2>6. IsOut(<<>>, {}, {}, s.chunk[s.at], s.aloneAt, s.matched)
    <3>1. <<>> \in Seq(RowPairs) /\ Range(<<>>) = {}
      BY DEF Range
    <3> QED BY <2>1, <3>1 DEF IsOut, OfDone, OfRow, OfAlone
  <2>7. s.n \in Nat /\ s.aloneAt \in Nat \ {0}
    BY <1>3, <2>2 DEF ProbeInv
  <2>8. ProbeInv(s, o, {})
    BY <1>1, <1>3, <2>3, <2>4, <2>5, <2>6, <2>7 DEF ProbeInv
  <2> QED BY <2>8
<1> QED BY <1>1, <1>3, <1>4, <1>5 DEF Joining

\* What is said of a query stays true while it is the same.
LEMMA JoinQueryStays ==
  ASSUME query' = query, NEW s, NEW o, s = state', o = out', Joining(s, o)
  PROVE  JoinInv'
<1>1. /\ (query.type)' = query.type /\ (query.cond)' = query.cond /\ (query.left)' = query.left
      /\ (query.right)' = query.right /\ (query.sized)' = query.sized /\ (query.texts)' = query.texts
      /\ (query.pruned)' = query.pruned /\ (query.op)' = query.op
  OBVIOUS
<1>2. IsJoin' = IsJoin
  BY DEF IsJoin
<1>3. IsJoinQuery(query)' = IsJoinQuery(query)
  OBVIOUS
<1>4. BuildsRight' = BuildsRight
  BY DEF BuildsRight
<1>5. Build' = Build /\ Probe' = Probe
  BY <1>4 DEF Build, Probe
<1>6. UsesInts' = UsesInts
  BY <1>5 DEF UsesInts
<1>7. NullsTold' = NullsTold
  BY <1>5, <1>6 DEF NullsTold
<1>8. HasResidual' = HasResidual
  BY DEF HasResidual
<1>9. Proper' = Proper
  BY <1>1, <1>7, <1>8 DEF Proper
<1>10. PadsProbe' = PadsProbe /\ PadsBuild' = PadsBuild
  BY <1>1, <1>4 DEF PadsProbe, PadsBuild
<1>11. AllPairs' = AllPairs
  BY DEF AllPairs
<1>12. Matching' = Matching
  BY DEF Matching, AllPairs, On
<1>13. \A b, p : Pair(b, p)' = Pair(b, p)
  BY <1>4 DEF Pair
<1>14. \A p : Partners(p)' = Partners(p)
  BY <1>5, <1>12, <1>13 DEF Partners
<1>15. \A m, k, p : FoundBefore(m, k, p)' = FoundBefore(m, k, p)
  BY <1>14 DEF FoundBefore
<1>16. \A t : Now(t)' = Now(t)
  BY <1>15 DEF Now
<1>17. \A D, q : OfDone(D, q)' <=> OfDone(D, q)
  BY <1>10, <1>13, <1>14 DEF OfDone
<1>18. \A F, r, q : OfRow(F, r, q)' <=> OfRow(F, r, q)
  BY <1>13 DEF OfRow
<1>19. \A a, M, q : OfAlone(a, M, q)' <=> OfAlone(a, M, q)
  BY <1>5, <1>10, <1>13 DEF OfAlone
<1>20. \A u, D, F, r, a, M : IsOut(u, D, F, r, a, M)' <=> IsOut(u, D, F, r, a, M)
  BY <1>17, <1>18, <1>19 DEF IsOut, RowPairs
<1>21. \A b, p : SameKey(b, p)' <=> SameKey(b, p)
  BY <1>1, <1>6 DEF SameKey, TextOf, BytesOf
<1>22. \A p : Bucket(p)' = Bucket(p)
  BY <1>5, <1>21 DEF Bucket
<1>23. \A t, D : OnceOnly(t, D)' <=> OnceOnly(t, D)
  BY DEF OnceOnly
<1>24. \A t, D : IsCursor(t, D)' <=> IsCursor(t, D)
  BY <1>5, <1>23 DEF IsCursor
<1>25. \A t : InRow(t)' <=> InRow(t)
  BY <1>5, <1>16, <1>22 DEF InRow
<1>26. \A t, u, D : FirstTime(t, u, D)' <=> FirstTime(t, u, D)
  BY <1>14, <1>16 DEF FirstTime
<1>27. \A t, u, D : ProbeInv(t, u, D)' <=> ProbeInv(t, u, D)
  BY <1>5, <1>10, <1>16, <1>20, <1>24, <1>25, <1>26 DEF ProbeInv
<1>28. \A t, u : CrossInv(t, u)' <=> CrossInv(t, u)
  BY <1>11 DEF CrossInv
<1>29. \A t : Counts(t)' <=> Counts(t)
  BY <1>9, <1>10 DEF Counts
<1>30. \A t, u : Joining(t, u)' <=> Joining(t, u)
  BY <1>1, <1>2, <1>3, <1>27, <1>28, <1>29 DEF Joining, JoinFields
<1> QED BY <1>30 DEF JoinInv

LEMMA JoinSteps == JoinInv /\ [JoinNext]_queryVars => JoinInv'
<1> SUFFICES ASSUME JoinInv, [JoinNext]_queryVars PROVE JoinInv'
  OBVIOUS
<1> DEFINE s == state'
           o == out'
<1>1. query' = query
  BY DEF JoinNext, GetData, EmitPair, EmitMatch, EndOfMatches, ProbeRow, FetchChunk,
         EmitUnmatched, ReturnChunk, Restart, queryVars
<1>2. Joining(s, o)
  <2> HIDE DEF s, o
  <2>0. s = state' /\ o = out'
    BY DEF s, o
  <2>1. CASE GetData
    BY <2>0, <2>1, GetDataStep
  <2>2. CASE EmitPair
    BY <2>0, <2>2, EmitPairStep
  <2>3. CASE EmitMatch
    BY <2>0, <2>3, EmitMatchStep
  <2>4. CASE EndOfMatches
    BY <2>0, <2>4, EndOfMatchesStep
  <2>5. CASE ProbeRow
    BY <2>0, <2>5, ProbeRowStep
  <2>6. CASE FetchChunk
    BY <2>0, <2>6, FetchChunkStep
  <2>7. CASE EmitUnmatched
    BY <2>0, <2>7, EmitUnmatchedStep
  <2>8. CASE ReturnChunk
    BY <2>0, <2>8, ReturnChunkStep
  <2>9. CASE Restart
    BY <2>0, <2>9, RestartStep
  <2>10. CASE UNCHANGED queryVars
    <3>1. s = state /\ o = out
      BY <2>0, <2>10 DEF queryVars
    <3> QED BY <3>1 DEF JoinInv
  <2> QED BY <2>1, <2>2, <2>3, <2>4, <2>5, <2>6, <2>7, <2>8, <2>9, <2>10 DEF JoinNext
<1> HIDE DEF s, o
<1>3. s = state' /\ o = out'
  BY DEF s, o
<1> QED BY <1>1, <1>2, <1>3, JoinQueryStays

-----------------------------------------------------------------------------
(* At the end.                                                             *)

\* The rows of the result, told by the side that is looked up.
LEMMA JoinedPairs ==
  ASSUME IsJoinQuery(query), query.type # "CROSS", NEW q
  PROVE  q \in Joined <=>
           \/ OfDone(DOMAIN Probe, q)
           \/ PadsBuild /\ \E b \in DOMAIN Build :
                /\ b \notin UNION {Partners(p) : p \in DOMAIN Probe}
                /\ q = Pair(b, 0)
<1> DEFINE Ls == 1 .. Len(query.left)
           Rs == 1 .. Len(query.right)
           leftAlone == {i \in Ls : \A p \in Matching : p[1] # i}
           rightAlone == {j \in Rs : \A p \in Matching : p[2] # j}
           probeAlone == {p \in DOMAIN Probe : Partners(p) = {}}
           buildAlone == {b \in DOMAIN Build : b \notin UNION {Partners(p) : p \in DOMAIN Probe}}
<1>1. \A p \in Matching : \E i \in Ls, j \in Rs : p = <<i, j>>
  BY DEF Matching, AllPairs
<1>2. DOMAIN Build = 1 .. Len(Build) /\ DOMAIN Probe = 1 .. Len(Probe)
  BY Sides
<1>3. /\ \A i \in Ls : (\A p \in Matching : p[1] # i) <=> \A j \in Rs : <<i, j>> \notin Matching
      /\ \A j \in Rs : (\A p \in Matching : p[2] # j) <=> \A i \in Ls : <<i, j>> \notin Matching
  <2> HIDE DEF Ls, Rs
  <2>1. \A p \in Matching : p[1] \in Ls /\ p[2] \in Rs /\ p = <<p[1], p[2]>>
    BY <1>1
  <2>2. \A i, j : <<i, j>>[1] = i /\ <<i, j>>[2] = j
    OBVIOUS
  <2>3. ASSUME NEW i \in Ls
        PROVE  (\A p \in Matching : p[1] # i) <=> \A j \in Rs : <<i, j>> \notin Matching
    <3>1. ASSUME \A p \in Matching : p[1] # i, NEW j \in Rs, <<i, j>> \in Matching PROVE FALSE
      BY <2>2, <3>1
    <3>2. ASSUME \A j \in Rs : <<i, j>> \notin Matching, NEW p \in Matching, p[1] = i PROVE FALSE
      <4>1. p = <<i, p[2]>> /\ p[2] \in Rs
        BY <2>1, <3>2
      <4> QED BY <3>2, <4>1
    <3> QED BY <3>1, <3>2
  <2>4. ASSUME NEW j \in Rs
        PROVE  (\A p \in Matching : p[2] # j) <=> \A i \in Ls : <<i, j>> \notin Matching
    <3>1. ASSUME \A p \in Matching : p[2] # j, NEW i \in Ls, <<i, j>> \in Matching PROVE FALSE
      BY <2>2, <3>1
    <3>2. ASSUME \A i \in Ls : <<i, j>> \notin Matching, NEW p \in Matching, p[2] = j PROVE FALSE
      <4>1. p = <<p[1], j>> /\ p[1] \in Ls
        BY <2>1, <3>2
      <4> QED BY <3>2, <4>1
    <3> QED BY <3>1, <3>2
  <2> QED BY <2>3, <2>4
<1>4. q \in Matching <=> \E p \in DOMAIN Probe : \E b \in Partners(p) : q = Pair(b, p)
  <2>1. CASE BuildsRight
    <3>1. DOMAIN Probe = Ls /\ DOMAIN Build = Rs
      BY <1>2, <2>1 DEF Build, Probe
    <3> QED BY <1>1, <2>1, <3>1 DEF Partners, Pair
  <2>2. CASE ~BuildsRight
    <3>1. DOMAIN Probe = Rs /\ DOMAIN Build = Ls
      BY <1>2, <2>2 DEF Build, Probe
    <3> QED BY <1>1, <2>2, <3>1 DEF Partners, Pair
  <2> QED BY <2>1, <2>2
<1>5. BuildsRight => leftAlone = probeAlone /\ rightAlone = buildAlone
  <2> SUFFICES ASSUME BuildsRight PROVE leftAlone = probeAlone /\ rightAlone = buildAlone
    OBVIOUS
  <2>1. DOMAIN Probe = Ls /\ DOMAIN Build = Rs
    BY <1>2 DEF Build, Probe
  <2>2. \A i \in Ls, j \in Rs : j \in Partners(i) <=> <<i, j>> \in Matching
    BY <2>1 DEF Partners, Pair
  <2>3. \A i : Partners(i) \subseteq Rs
    BY <2>1 DEF Partners
  <2>4. \A i \in Ls : (\A p \in Matching : p[1] # i) <=> Partners(i) = {}
    BY <1>3, <2>2, <2>3
  <2>5. \A j \in Rs : (\A p \in Matching : p[2] # j) <=> \A i \in Ls : j \notin Partners(i)
    BY <1>3, <2>2
  <2>6. \A j : j \in UNION {Partners(p) : p \in DOMAIN Probe} <=> \E i \in Ls : j \in Partners(i)
    BY <2>1
  <2> QED BY <2>1, <2>4, <2>5, <2>6
<1>6. ~BuildsRight => leftAlone = buildAlone /\ rightAlone = probeAlone
  <2> SUFFICES ASSUME ~BuildsRight PROVE leftAlone = buildAlone /\ rightAlone = probeAlone
    OBVIOUS
  <2>1. DOMAIN Probe = Rs /\ DOMAIN Build = Ls
    BY <1>2 DEF Build, Probe
  <2>2. \A i \in Ls, j \in Rs : i \in Partners(j) <=> <<i, j>> \in Matching
    BY <2>1 DEF Partners, Pair
  <2>3. \A j : Partners(j) \subseteq Ls
    BY <2>1 DEF Partners
  <2>4. \A j \in Rs : (\A p \in Matching : p[2] # j) <=> Partners(j) = {}
    BY <1>3, <2>2, <2>3
  <2>5. \A i \in Ls : (\A p \in Matching : p[1] # i) <=> \A j \in Rs : i \notin Partners(j)
    BY <1>3, <2>2
  <2>6. \A i : i \in UNION {Partners(p) : p \in DOMAIN Probe} <=> \E j \in Rs : i \in Partners(j)
    BY <2>1
  <2> QED BY <2>1, <2>4, <2>5, <2>6
<1>7. q \in Joined <=>
        \/ q \in Matching
        \/ query.type \in {"LEFT", "FULL"} /\ \E i \in leftAlone : q = <<i, 0>>
        \/ query.type \in {"RIGHT", "FULL"} /\ \E j \in rightAlone : q = <<0, j>>
  <2>1. query.type \in {"INNER", "LEFT", "RIGHT", "FULL"}
    BY DEF IsJoinQuery
  <2>2. Joined = CASE query.type = "LEFT" -> Matching \cup (leftAlone \X {0})
                   [] query.type = "RIGHT" -> Matching \cup ({0} \X rightAlone)
                   [] query.type = "FULL" -> Matching \cup (leftAlone \X {0}) \cup ({0} \X rightAlone)
                   [] OTHER -> Matching
    BY DEF Joined
  <2> HIDE DEF leftAlone, rightAlone
  <2>3. q \in leftAlone \X {0} <=> \E i \in leftAlone : q = <<i, 0>>
    OBVIOUS
  <2>4. q \in {0} \X rightAlone <=> \E j \in rightAlone : q = <<0, j>>
    OBVIOUS
  <2>5. CASE query.type = "INNER"
    BY <2>2, <2>5
  <2>6. CASE query.type = "LEFT"
    BY <2>2, <2>3, <2>6
  <2>7. CASE query.type = "RIGHT"
    BY <2>2, <2>4, <2>7
  <2>8. CASE query.type = "FULL"
    <3>1. Joined = Matching \cup (leftAlone \X {0}) \cup ({0} \X rightAlone)
      BY <2>2, <2>8
    <3> QED BY <2>3, <2>4, <2>8, <3>1
  <2> QED BY <2>1, <2>5, <2>6, <2>7, <2>8
<1>8. OfDone(DOMAIN Probe, q) <=> \/ q \in Matching
                                  \/ PadsProbe /\ \E p \in probeAlone : q = Pair(0, p)
  BY <1>4 DEF OfDone
<1>9. q \in Joined <=> \/ q \in Matching
                       \/ PadsProbe /\ \E p \in probeAlone : q = Pair(0, p)
                       \/ PadsBuild /\ \E b \in buildAlone : q = Pair(b, 0)
  <2> HIDE DEF leftAlone, rightAlone, probeAlone, buildAlone
  <2>1. CASE BuildsRight
    BY <1>5, <1>7, <2>1 DEF PadsProbe, PadsBuild, Pair
  <2>2. CASE ~BuildsRight
    BY <1>6, <1>7, <2>2 DEF PadsProbe, PadsBuild, Pair
  <2> QED BY <2>1, <2>2
<1> QED BY <1>8, <1>9

LEMMA ProbedIsRight ==
  ASSUME IsJoinQuery(query), NEW st, NEW oo, NEW D, ProbeInv(st, oo, D), Counts(st), st.ended,
         st.restarts \in {0, 1}
  PROVE  Range(oo) = Joined /\ (st.restarts = 0 => IsInjective(oo))
<1>1. st.probeDone /\ (PadsBuild => st.aloneAt > Len(Build)) /\ st.aloneAt \in Nat
  BY DEF ProbeInv
<1>2. st.probed = Len(Probe) /\ st.chunk = <<>> /\ IsCursor(st, D)
  BY <1>1 DEF ProbeInv, IsCursor
<1>3. DOMAIN <<>> = {}
  OBVIOUS
<1>4. st.matches = <<>>
  BY <1>2, <1>3 DEF ProbeInv, InRow
<1>5. Now(st) = {}
  BY <1>4, NoneFound
<1>6. D = DOMAIN Probe
  BY <1>2, <1>3, Sides DEF IsCursor
<1>7. query.type # "CROSS"
  BY DEF Counts, Proper
<1>8. \A q : OfAlone(st.aloneAt, st.matched, q) <=>
               PadsBuild /\ \E b \in DOMAIN Build :
                 /\ b \notin UNION {Partners(p) : p \in DOMAIN Probe}
                 /\ q = Pair(b, 0)
  <2> SUFFICES ASSUME PadsBuild
               PROVE  \A q : (\E b \in DOMAIN Build : b < st.aloneAt /\ b \notin st.matched /\ q = Pair(b, 0))
                             <=> \E b \in DOMAIN Build :
                                   /\ b \notin UNION {Partners(p) : p \in DOMAIN Probe}
                                   /\ q = Pair(b, 0)
    BY DEF OfAlone
  <2>1. st.restarts = 0
    <3>1. st.restarts # 1
      BY DEF Counts
    <3> QED BY <3>1
  <2>2. st.matched = UNION {Partners(p) : p \in DOMAIN Probe}
    BY <1>5, <1>6, <2>1 DEF ProbeInv, FirstTime
  <2>3. \A b \in DOMAIN Build : b < st.aloneAt
    BY <1>1, Sides
  <2> QED BY <2>2, <2>3
<1>9. \A q : q \in Range(oo) <=> OfDone(DOMAIN Probe, q) \/ OfAlone(st.aloneAt, st.matched, q)
  <2>1. IsOut(oo, D, {}, st.chunk[st.at], st.aloneAt, st.matched)
    BY <1>5 DEF ProbeInv
  <2>2. \A y, q : ~OfRow({}, y, q)
    BY DEF OfRow
  <2> QED BY <1>6, <2>1, <2>2 DEF IsOut
<1>10. \A q : q \in Range(oo) <=> q \in Joined
  BY <1>7, <1>8, <1>9, JoinedPairs
<1>11. st.restarts = 0 => IsInjective(oo)
  BY DEF ProbeInv, FirstTime
<1> QED BY <1>10, <1>11

LEMMA CrossIsRight ==
  ASSUME NEW st, NEW oo, query.type = "CROSS", CrossInv(st, oo), st.ended
  PROVE  Range(oo) = Joined /\ (st.restarts = 0 => IsInjective(oo))
<1> DEFINE T == AllPairs
           ps == st.pairs
<1>1. /\ ps \in Seq(T) /\ T \subseteq Range(ps) /\ (st.restarts = 0 => IsInjective(ps))
      /\ st.emitAt \in 1 .. Len(ps) + 1 /\ st.emitAt > Len(ps) /\ oo = SubSeq(ps, 1, st.emitAt - 1)
  BY DEF CrossInv
<1>2. Joined = T
  BY DEF Joined, Matching
<1> HIDE DEF T, ps
<1>3. st.emitAt - 1 = Len(ps)
  BY <1>1
<1>4. oo = ps
  BY <1>1, <1>3, SubSeqFull
<1>5. Range(ps) = T
  BY <1>1 DEF Range
<1> QED BY <1>1, <1>2, <1>4, <1>5

LEMMA JoinEnds == JoinInv => JoinIsRight
<1> SUFFICES ASSUME JoinInv, state.ended, NullsTold, query.cond \notin {"m", "k or m"},
                    ~(query.pruned /\ HasResidual)
             PROVE  /\ Range(out) = Joined \/ (state.restarts = 1 /\ PadsBuild)
                    /\ IsInjective(out) \/ state.restarts = 1
  BY DEF JoinIsRight
<1>1. IsJoinQuery(query) /\ state.restarts \in {0, 1}
  BY DEF JoinInv, Joining
<1>2. CASE query.type = "CROSS"
  <2>1. CrossInv(state, out)
    BY <1>2 DEF JoinInv, Joining
  <2>2. Range(out) = Joined /\ (state.restarts = 0 => IsInjective(out))
    BY <1>2, <2>1, CrossIsRight
  <2> QED BY <1>1, <2>2
<1>3. CASE query.type # "CROSS"
  <2> SUFFICES ASSUME ~(state.restarts = 1 /\ PadsBuild)
               PROVE  Range(out) = Joined /\ (state.restarts = 0 => IsInjective(out))
    BY <1>1
  <2>1. query.cond \in {"k", "k and m"}
    BY <1>1 DEF IsJoinQuery
  <2>2. Counts(state)
    BY <1>3, <2>1 DEF Counts, Proper
  <2>3. PICK D : ProbeInv(state, out, D)
    BY <2>2 DEF JoinInv, Joining
  <2> QED BY <1>1, <2>2, <2>3, ProbedIsRight
<1> QED BY <1>2, <1>3

(* A hash join that has ended has returned every pair that its condition   *)
(* joins and every row that an outer join keeps, once, for any tables and  *)
(* chunk size and wherever its calls ended; started over, it may repeat.   *)
THEOREM JoinsAreRight == JoinSpec => []JoinIsRight
<1>1. JoinInit => JoinInv
  BY JoinBegins
<1>2. JoinInv /\ [JoinNext]_queryVars => JoinInv'
  BY JoinSteps
<1>3. JoinInv => JoinIsRight
  BY JoinEnds
<1> QED BY <1>1, <1>2, <1>3, PTL DEF JoinSpec

-----------------------------------------------------------------------------
(* Set operations. Those rows of a sequence that are in a set, each at a    *)
(* place of its own.                                                        *)
IsPicked(c, list, S) ==
  \E e \in [1 .. Len(c) -> S] :
    /\ \A k \in 1 .. Len(c) : c[k] = list[e[k]]
    /\ \A k, l \in 1 .. Len(c) : e[k] = e[l] => k = l
    /\ \A x \in S : \E k \in 1 .. Len(c) : e[k] = x

LEMMA PickedNext ==
  ASSUME NEW T, NEW list \in Seq(T), NEW n \in Nat, n + 1 \in DOMAIN list, NEW S \in SUBSET (1 .. n),
         NEW c \in Seq(T), IsPicked(c, list, S)
  PROVE  IsPicked(c \o <<list[n + 1]>>, list, S \cup {n + 1})
<1> DEFINE d == c \o <<list[n + 1]>>
           N == Len(c)
<1>1. PICK e \in [1 .. N -> S] : /\ \A k \in 1 .. N : c[k] = list[e[k]]
                                 /\ \A k, l \in 1 .. N : e[k] = e[l] => k = l
                                 /\ \A x \in S : \E k \in 1 .. N : e[k] = x
  BY DEF IsPicked
<1> DEFINE g == [k \in 1 .. N + 1 |-> IF k = N + 1 THEN n + 1 ELSE e[k]]
<1>2. N \in Nat /\ Len(d) = N + 1 /\ d[N + 1] = list[n + 1] /\ \A k \in 1 .. N : d[k] = c[k]
  OBVIOUS
<1>3. \A k \in 1 .. N + 1 : k = N + 1 \/ k \in 1 .. N
  BY <1>2
<1>4. N + 1 \in 1 .. N + 1 /\ \A k \in 1 .. N : k \in 1 .. N + 1 /\ k # N + 1
  BY <1>2
<1>5. \A x \in S : x # n + 1
  OBVIOUS
<1> HIDE DEF d, N
<1>6. g \in [1 .. N + 1 -> S \cup {n + 1}]
  BY <1>1, <1>3
<1>7. g[N + 1] = n + 1 /\ \A k \in 1 .. N : g[k] = e[k]
  BY <1>4
<1> HIDE DEF g
<1>8. \A k \in 1 .. N + 1 : d[k] = list[g[k]]
  BY <1>1, <1>2, <1>3, <1>7
<1>9. \A k, l \in 1 .. N + 1 : g[k] = g[l] => k = l
  <2>1. \A k \in 1 .. N : g[k] \in S
    BY <1>1, <1>7
  <2> QED BY <1>1, <1>3, <1>5, <1>7, <2>1
<1>10. \A x \in S \cup {n + 1} : \E k \in 1 .. N + 1 : g[k] = x
  BY <1>1, <1>4, <1>7
<1>11. IsPicked(d, list, S \cup {n + 1})
  <2>1. g \in [1 .. Len(d) -> S \cup {n + 1}]
    BY <1>2, <1>6
  <2>2. /\ \A k \in 1 .. Len(d) : d[k] = list[g[k]]
        /\ \A k, l \in 1 .. Len(d) : g[k] = g[l] => k = l
        /\ \A x \in S \cup {n + 1} : \E k \in 1 .. Len(d) : g[k] = x
    BY <1>2, <1>8, <1>9, <1>10
  <2> QED BY <2>1, <2>2 DEF IsPicked
<1> QED BY <1>11 DEF d

LEMMA ThosePicked ==
  ASSUME NEW T, NEW list \in Seq(T), NEW S \in SUBSET DOMAIN list
  PROVE  Those(list, S) \in Seq(T) /\ IsPicked(Those(list, S), list, S)
<1> DEFINE one(x) == IF x \in S THEN <<list[x]>> ELSE <<>>
           s == [x \in DOMAIN list |-> one(x)]
           N == Len(list)
<1>1. N \in Nat /\ DOMAIN list = 1 .. N
  OBVIOUS
<1>2. \A x \in DOMAIN list : one(x) \in Seq(T)
  OBVIOUS
<1>3. s \in Seq(Seq(T)) /\ Len(s) = N /\ \A x \in 1 .. N : s[x] = one(x)
  <2> DEFINE Q == Seq(T)
  <2> HIDE DEF one, Q
  <2>1. \A x \in DOMAIN list : one(x) \in Q
    BY <1>2 DEF Q
  <2>2. s \in Seq(Q) /\ Len(s) = N /\ \A x \in 1 .. N : s[x] = one(x)
    BY <2>1, <1>1
  <2> QED BY <2>2 DEF Q
<1>4. Those(list, S) = FlattenSeq(s)
  BY DEF Those
<1> HIDE DEF s
<1>5. Those(list, S) \in Seq(T)
  BY <1>3, <1>4, FlattenType
<1>6. PICK f \in [0 .. N -> Seq(T)] : IsFlattening(f, s) /\ FlattenSeq(s) = f[N]
  BY <1>3, FlattenSteps
<1> DEFINE Until(n) == S \cap (1 .. n)
           G == {n \in Nat : n \in 0 .. N => IsPicked(f[n], list, Until(n))}
<1>7. 0 \in G
  <2>1. f[0] = <<>> /\ Until(0) = {}
    BY <1>6 DEF IsFlattening
  <2>2. IsPicked(<<>>, list, {})
    <3> DEFINE e == [k \in 1 .. 0 |-> k]
    <3>1. Len(<<>>) = 0 /\ 1 .. 0 = {} /\ e \in [1 .. 0 -> {}]
      OBVIOUS
    <3> HIDE DEF e
    <3> QED BY <3>1 DEF IsPicked
  <2> QED BY <2>1, <2>2
<1>8. ASSUME NEW n \in Nat, n \in G PROVE n + 1 \in G
  <2> SUFFICES ASSUME n + 1 \in 0 .. N PROVE IsPicked(f[n + 1], list, Until(n + 1))
    OBVIOUS
  <2>1. n \in 0 .. N /\ n + 1 \in 1 .. N /\ (n + 1) - 1 = n
    BY <1>1
  <2>2. f[n + 1] = f[n] \o one(n + 1) /\ f[n] \in Seq(T)
    BY <2>1, <1>3, <1>6 DEF IsFlattening
  <2>3. IsPicked(f[n], list, Until(n)) /\ Until(n) \in SUBSET (1 .. n)
    BY <2>1, <1>8
  <2>4. CASE n + 1 \in S
    <3>1. Until(n + 1) = Until(n) \cup {n + 1}
      BY <2>4, <1>1
    <3> HIDE DEF Until
    <3>2. IsPicked(f[n] \o <<list[n + 1]>>, list, Until(n) \cup {n + 1})
      BY <2>1, <2>2, <2>3, <1>1, PickedNext
    <3> QED BY <2>2, <2>4, <3>1, <3>2
  <2>5. CASE n + 1 \notin S
    <3>1. Until(n + 1) = Until(n)
      BY <2>5, <1>1
    <3>2. f[n] \o <<>> = f[n]
      BY <2>2
    <3> QED BY <2>2, <2>3, <2>5, <3>1, <3>2
  <2> QED BY <2>4, <2>5
<1>9. \A n \in Nat : n \in G
  <2> HIDE DEF G
  <2> QED BY <1>7, <1>8, Induction
<1>10. N \in 0 .. N /\ Until(N) = S
  BY <1>1
<1> HIDE DEF Until
<1> QED BY <1>1, <1>4, <1>5, <1>6, <1>9, <1>10

LEMMA ThoseRows ==
  ASSUME NEW T, NEW list \in Seq(T), NEW S \in SUBSET DOMAIN list
  PROVE  /\ Those(list, S) \in Seq(T)
         /\ Range(Those(list, S)) = {list[x] : x \in S}
         /\ (\A x, y \in S : list[x] = list[y] => x = y) => IsInjective(Those(list, S))
<1> DEFINE c == Those(list, S)
<1>1. c \in Seq(T) /\ IsPicked(c, list, S)
  BY ThosePicked
<1> HIDE DEF c
<1>2. DOMAIN c = 1 .. Len(c)
  BY <1>1
<1>3. Range(c) = {list[x] : x \in S}
  BY <1>1, <1>2 DEF IsPicked, Range
<1>4. ASSUME \A x, y \in S : list[x] = list[y] => x = y PROVE IsInjective(c)
  BY <1>1, <1>2, <1>4 DEF IsPicked, IsInjective
<1> QED BY <1>1, <1>3, <1>4 DEF c

-----------------------------------------------------------------------------
(* How often a sequence has a value.                                       *)
LEMMA TimesType ==
  ASSUME NEW T, NEW s \in Seq(T), NEW v
  PROVE  /\ IsFiniteSet({i \in DOMAIN s : s[i] = v}) /\ Times(s, v) \in Nat
         /\ Times(s, v) > 0 <=> v \in Range(s)
<1> DEFINE P == {i \in DOMAIN s : s[i] = v}
<1>1. IsFiniteSet(DOMAIN s)
  BY FS_Interval
<1>2. IsFiniteSet(P)
  <2>1. P \in SUBSET DOMAIN s
    OBVIOUS
  <2> HIDE DEF P
  <2> QED BY <1>1, <2>1, FS_Subset
<1>3. Cardinality(P) \in Nat /\ (Cardinality(P) = 0 <=> P = {})
  <2> HIDE DEF P
  <2> QED BY <1>2, FS_CardinalityType, FS_EmptySet
<1>4. P # {} <=> v \in Range(s)
  BY DEF Range
<1>5. Times(s, v) = Cardinality(P)
  BY DEF Times
<1> HIDE DEF P
<1>6. Times(s, v) > 0 <=> v \in Range(s)
  BY <1>3, <1>4, <1>5
<1> QED BY <1>2, <1>3, <1>5, <1>6 DEF P

LEMMA TimesOfDistinct ==
  ASSUME NEW T, NEW s \in Seq(T), IsInjective(s), NEW v
  PROVE  Times(s, v) = Once(v \in Range(s))
<1> DEFINE P == {i \in DOMAIN s : s[i] = v}
<1>1. CASE v \notin Range(s)
  <2>1. ~(Times(s, v) > 0) /\ Times(s, v) \in Nat
    BY <1>1, TimesType
  <2> QED BY <1>1, <2>1 DEF Once
<1>2. CASE v \in Range(s)
  <2>1. PICK i \in DOMAIN s : s[i] = v
    BY <1>2 DEF Range
  <2>2. P = {i}
    BY <2>1 DEF IsInjective
  <2>3. Cardinality(P) = 1
    BY <2>2, FS_Singleton
  <2> QED BY <1>2, <2>3 DEF Times, Once
<1> QED BY <1>1, <1>2

(* Shifting the numbers of places does not change how many they are.       *)
LEMMA SameTimes ==
  ASSUME NEW P, NEW Q, IsFiniteSet(P), NEW g \in [P -> Q],
         \A a, b \in P : g[a] = g[b] => a = b, \A q \in Q : \E a \in P : g[a] = q
  PROVE  IsFiniteSet(Q) /\ Cardinality(Q) = Cardinality(P)
<1>1. g \in Bijection(P, Q)
  BY DEF Bijection, Injection, Surjection, IsInjective
<1>2. ExistsBijection(P, Q)
  BY <1>1 DEF ExistsBijection
<1> QED BY <1>2, FS_Bijection

LEMMA TimesOfConcat ==
  ASSUME NEW T, NEW s \in Seq(T), NEW t \in Seq(T), NEW v
  PROVE  Times(s \o t, v) = Times(s, v) + Times(t, v)
<1> DEFINE u == s \o t
           M == Len(s)
           N == Len(t)
           P == {i \in DOMAIN s : s[i] = v}
           Q == {i \in DOMAIN t : t[i] = v}
           R == {i \in DOMAIN u : u[i] = v}
           S == {i \in DOMAIN u : u[i] = v /\ i > M}
           g == [i \in Q |-> M + i]
<1>1. /\ M \in Nat /\ N \in Nat /\ DOMAIN s = 1 .. M /\ DOMAIN t = 1 .. N /\ DOMAIN u = 1 .. M + N
      /\ \A i \in 1 .. M : u[i] = s[i]
      /\ \A i \in 1 .. N : u[M + i] = t[i]
  OBVIOUS
<1>2. IsFiniteSet(P) /\ IsFiniteSet(Q)
  BY TimesType
<1> HIDE DEF u, M, N
<1>3. R = P \cup S /\ P \cap S = {}
  BY <1>1
<1>4. g \in [Q -> S] /\ \A a, b \in Q : g[a] = g[b] => a = b
  BY <1>1
<1>5. \A q \in S : \E a \in Q : g[a] = q
  <2> SUFFICES ASSUME NEW q \in S PROVE q - M \in Q /\ g[q - M] = q
    OBVIOUS
  <2>1. q - M \in 1 .. N /\ M + (q - M) = q
    BY <1>1
  <2> QED BY <1>1, <2>1
<1>6. IsFiniteSet(S) /\ Cardinality(S) = Cardinality(Q)
  <2> HIDE DEF g, S, Q
  <2> QED BY <1>2, <1>4, <1>5, SameTimes
<1>7. Cardinality(R) = Cardinality(P) + Cardinality(S) - Cardinality(P \cap S)
  <2> HIDE DEF R, P, S
  <2> QED BY <1>2, <1>3, <1>6, FS_Union
<1>8. Cardinality(P \cap S) = 0
  BY <1>3, FS_EmptySet
<1>9. Cardinality(P) \in Nat /\ Cardinality(Q) \in Nat
  <2> HIDE DEF P, Q
  <2> QED BY <1>2, FS_CardinalityType
<1>10. Times(s, v) = Cardinality(P) /\ Times(t, v) = Cardinality(Q) /\ Times(u, v) = Cardinality(R)
  BY DEF Times
<1> HIDE DEF P, Q, R, S
<1> QED BY <1>6, <1>7, <1>8, <1>9, <1>10 DEF u

LEMMA ConcatRange ==
  ASSUME NEW T, NEW s \in Seq(T), NEW t \in Seq(T)
  PROVE  /\ s \o t \in Seq(T) /\ Range(s \o t) = Range(s) \cup Range(t)
         /\ IsInjective(s) /\ IsInjective(t) /\ Range(s) \cap Range(t) = {} => IsInjective(s \o t)
<1> DEFINE u == s \o t
           M == Len(s)
           N == Len(t)
<1>1. /\ M \in Nat /\ N \in Nat /\ DOMAIN s = 1 .. M /\ DOMAIN t = 1 .. N /\ DOMAIN u = 1 .. M + N
      /\ u \in Seq(T)
      /\ \A i \in 1 .. M : u[i] = s[i]
      /\ \A i \in 1 .. N : u[M + i] = t[i]
  OBVIOUS
<1> HIDE DEF u, M, N
<1>2. \A i \in 1 .. M : i \in 1 .. M + N
  BY <1>1
<1>3. \A i \in 1 .. N : M + i \in 1 .. M + N
  BY <1>1
<1>4. \A i \in 1 .. M + N : i \in 1 .. M \/ (i - M \in 1 .. N /\ M + (i - M) = i)
  BY <1>1
<1>5. Range(u) = Range(s) \cup Range(t)
  <2>1. \A i \in 1 .. M + N : u[i] \in Range(s) \cup Range(t)
    <3> SUFFICES ASSUME NEW i \in 1 .. M + N PROVE u[i] \in Range(s) \cup Range(t)
      OBVIOUS
    <3>1. CASE i \in 1 .. M
      BY <1>1, <3>1 DEF Range
    <3>2. CASE i - M \in 1 .. N /\ M + (i - M) = i
      <4>1. u[i] = t[i - M]
        BY <1>1, <3>2
      <4> QED BY <1>1, <3>2, <4>1 DEF Range
    <3> QED BY <1>4, <3>1, <3>2
  <2>2. \A i \in 1 .. M : s[i] \in Range(u)
    BY <1>1, <1>2 DEF Range
  <2>3. \A i \in 1 .. N : t[i] \in Range(u)
    BY <1>1, <1>3 DEF Range
  <2>4. Range(u) \subseteq Range(s) \cup Range(t)
    BY <1>1, <2>1 DEF Range
  <2>5. Range(s) \subseteq Range(u) /\ Range(t) \subseteq Range(u)
    BY <1>1, <2>2, <2>3 DEF Range
  <2> QED BY <2>4, <2>5
<1>6. ASSUME IsInjective(s), IsInjective(t), Range(s) \cap Range(t) = {} PROVE IsInjective(u)
  <2> SUFFICES ASSUME NEW i \in 1 .. M + N, NEW j \in 1 .. M + N, u[i] = u[j] PROVE i = j
    BY <1>1 DEF IsInjective
  <2>1. \A k \in 1 .. M + N : k \in 1 .. M => u[k] = s[k] /\ u[k] \in Range(s)
    BY <1>1 DEF Range
  <2>2. \A k \in 1 .. M + N : k \notin 1 .. M => /\ k - M \in 1 .. N /\ u[k] = t[k - M] /\ u[k] \in Range(t)
    <3> SUFFICES ASSUME NEW k \in 1 .. M + N, k \notin 1 .. M
                 PROVE  k - M \in 1 .. N /\ u[k] = t[k - M] /\ u[k] \in Range(t)
      OBVIOUS
    <3>1. k - M \in 1 .. N /\ u[k] = t[k - M]
      BY <1>1, <1>4
    <3> QED BY <1>1, <3>1 DEF Range
  <2>3. CASE i \in 1 .. M /\ j \in 1 .. M
    BY <1>1, <1>6, <2>1, <2>3 DEF IsInjective
  <2>4. CASE i \notin 1 .. M /\ j \notin 1 .. M
    <3>1. i - M = j - M
      BY <1>1, <1>6, <2>2, <2>4 DEF IsInjective
    <3> QED BY <1>1, <3>1
  <2> QED BY <1>6, <2>1, <2>2, <2>3, <2>4
<1> QED BY <1>1, <1>5, <1>6 DEF u

-----------------------------------------------------------------------------
(* Values of the common type.                                              *)
AnyValue  == {Null} \cup [type : ColumnTypes, n : Int]
Values(t) == {Null} \cup [type : {t}, n : Int]
SetOps    == {"UNION ALL", "UNION", "INTERSECT", "EXCEPT"}

LEMMA IntegerTypes ==
  /\ Range(SignedTypes) = {"TINYINT", "SMALLINT", "INTEGER", "BIGINT"} /\ \A i \in 1 .. 4 : SignedTypes[i] \in Range(SignedTypes)
  /\ Range(UnsignedTypes) = {"UTINYINT", "USMALLINT", "UINTEGER", "UBIGINT"}
  /\ \A i \in 1 .. 4 : UnsignedTypes[i] \in Range(UnsignedTypes)
<1>1. DOMAIN SignedTypes = 1 .. 4 /\ DOMAIN UnsignedTypes = 1 .. 4 /\ 1 .. 4 = {1, 2, 3, 4}
  BY DEF SignedTypes, UnsignedTypes
<1>2. SignedTypes[1] = "TINYINT" /\ SignedTypes[2] = "SMALLINT" /\ SignedTypes[3] = "INTEGER" /\ SignedTypes[4] = "BIGINT"
  BY DEF SignedTypes
<1>3. UnsignedTypes[1] = "UTINYINT" /\ UnsignedTypes[2] = "USMALLINT" /\ UnsignedTypes[3] = "UINTEGER" /\ UnsignedTypes[4] = "UBIGINT"
  BY DEF UnsignedTypes
<1>4. Range(SignedTypes) = {SignedTypes[x] : x \in {1, 2, 3, 4}} /\ Range(UnsignedTypes) = {UnsignedTypes[x] : x \in {1, 2, 3, 4}}
  BY <1>1 DEF Range
<1> QED BY <1>1, <1>2, <1>3, <1>4

LEMMA ValuesType ==
  ASSUME NEW t \in ColumnTypes
  PROVE  Values(t) \subseteq AnyValue /\ \A v \in Values(t) : v = Null \/ (v # Null /\ v.type = t /\ v.n \in Int)
BY NullHasNoType DEF Values, AnyValue

LEMMA EqualIsEqual ==
  ASSUME NEW t \in ColumnTypes, t # "DATE", NEW a \in Values(t), NEW b \in Values(t)
  PROVE  Equal(a, b) <=> a = b
BY ValuesType DEF Equal

LEMMA HasIsIn ==
  ASSUME NEW t \in ColumnTypes, t # "DATE", NEW s \in Seq(Values(t)), NEW v \in Values(t)
  PROVE  Has(s, v) <=> v \in Range(s)
<1>1. \A i \in DOMAIN s : s[i] \in Values(t)
  OBVIOUS
<1> QED BY <1>1, EqualIsEqual DEF Has, Range

(* One operator.                                                           *)
LEMMA CombinedIsRight ==
  ASSUME NEW t \in ColumnTypes, t # "DATE", NEW V \in SUBSET Values(t),
         NEW left \in Seq(V), NEW right \in Seq(V), IsInjective(left), NEW op \in SetOps
  PROVE  /\ Combined(op, left, right) \in Seq(V)
         /\ \A v : Times(Combined(op, left, right), v) = TimesIn(op, Times(left, v), Times(right, v))
         /\ op # "UNION ALL" => IsInjective(Combined(op, left, right))
<1> DEFINE c == Combined(op, left, right)
<1>1. left \in Seq(Values(t)) /\ right \in Seq(Values(t))
  OBVIOUS
<1>2. /\ \A v : Times(left, v) \in Nat /\ (Times(left, v) > 0 <=> v \in Range(left))
      /\ \A v : Times(right, v) \in Nat /\ (Times(right, v) > 0 <=> v \in Range(right))
  BY TimesType
<1>3. /\ \A v \in Values(t) : Has(left, v) <=> v \in Range(left)
      /\ \A v \in Values(t) : Has(right, v) <=> v \in Range(right)
  BY <1>1, HasIsIn
<1>4. \A v : Times(left, v) = Once(v \in Range(left))
  BY TimesOfDistinct
<1>5. ASSUME NEW s \in Seq(V), IsInjective(s), c = s, op # "UNION ALL",
             \A v : v \in Range(s) <=> TimesIn(op, Times(left, v), Times(right, v)) = 1,
             \A v : TimesIn(op, Times(left, v), Times(right, v)) \in {0, 1}
      PROVE  /\ c \in Seq(V) /\ IsInjective(c)
             /\ \A v : Times(c, v) = TimesIn(op, Times(left, v), Times(right, v))
  <2>1. \A v : Times(s, v) = Once(v \in Range(s))
    BY <1>5, TimesOfDistinct
  <2> HIDE DEF c
  <2> QED BY <1>5, <2>1 DEF Once
<1>6. CASE op = "UNION ALL"
  <2>1. c = left \o right
    BY <1>6 DEF Combined
  <2>2. \A v : Times(left \o right, v) = Times(left, v) + Times(right, v)
    BY TimesOfConcat
  <2>3. \A v : TimesIn(op, Times(left, v), Times(right, v)) = Times(left, v) + Times(right, v)
    BY <1>6 DEF TimesIn
  <2>4. left \o right \in Seq(V)
    OBVIOUS
  <2> HIDE DEF c
  <2> QED BY <1>6, <2>1, <2>2, <2>3, <2>4 DEF c
<1>7. CASE op = "INTERSECT"
  <2> DEFINE S == {x \in DOMAIN left : Has(right, left[x])}
             s == Those(left, S)
  <2>1. c = s
    BY <1>7 DEF Combined
  <2>2. s \in Seq(V) /\ Range(s) = {left[x] : x \in S} /\ IsInjective(s)
    <3>1. S \in SUBSET DOMAIN left /\ \A x, y \in S : left[x] = left[y] => x = y
      BY DEF IsInjective
    <3> HIDE DEF S
    <3> QED BY <3>1, ThoseRows
  <2>3. \A x \in DOMAIN left : left[x] \in Values(t)
    BY <1>1
  <2>4. \A v : v \in Range(s) <=> v \in Range(left) /\ v \in Range(right)
    BY <1>3, <2>2, <2>3 DEF Range
  <2>5. \A v : TimesIn(op, Times(left, v), Times(right, v)) = IF v \in Range(left) /\ v \in Range(right) THEN 1 ELSE 0
    BY <1>2, <1>7 DEF TimesIn, Once
  <2> HIDE DEF s, c
  <2> QED BY <1>5, <1>7, <2>1, <2>2, <2>4, <2>5 DEF c
<1>8. CASE op = "EXCEPT"
  <2> DEFINE S == {x \in DOMAIN left : ~Has(right, left[x])}
             s == Those(left, S)
  <2>1. c = s
    BY <1>8 DEF Combined
  <2>2. s \in Seq(V) /\ Range(s) = {left[x] : x \in S} /\ IsInjective(s)
    <3>1. S \in SUBSET DOMAIN left /\ \A x, y \in S : left[x] = left[y] => x = y
      BY DEF IsInjective
    <3> HIDE DEF S
    <3> QED BY <3>1, ThoseRows
  <2>3. \A x \in DOMAIN left : left[x] \in Values(t)
    BY <1>1
  <2>4. \A v : v \in Range(s) <=> v \in Range(left) /\ v \notin Range(right)
    BY <1>3, <2>2, <2>3 DEF Range
  <2>5. \A v : TimesIn(op, Times(left, v), Times(right, v)) = IF v \in Range(left) /\ v \notin Range(right) THEN 1 ELSE 0
    BY <1>2, <1>8 DEF TimesIn, Once
  <2> HIDE DEF s, c
  <2> QED BY <1>5, <1>8, <2>1, <2>2, <2>4, <2>5 DEF c
<1>9. CASE op = "UNION"
  <2> DEFINE S == {x \in DOMAIN right : /\ ~Has(left, right[x])
                                        /\ \A y \in 1 .. x - 1 : ~Equal(right[y], right[x])}
             r == Those(right, S)
             s == left \o r
  <2>1. c = s
    BY <1>9 DEF Combined, Union
  <2>2. /\ DOMAIN right = 1 .. Len(right) /\ Len(right) \in Nat
        /\ \A x \in DOMAIN right : right[x] \in Values(t)
    BY <1>1
  <2>3. S = {x \in DOMAIN right : right[x] \notin Range(left) /\ \A y \in 1 .. x - 1 : right[y] # right[x]}
    <3>1. \A x \in DOMAIN right : \A y \in 1 .. x - 1 : y \in DOMAIN right
      BY <2>2
    <3>2. \A x, y \in DOMAIN right : Equal(right[y], right[x]) <=> right[y] = right[x]
      BY <2>2, EqualIsEqual
    <3>3. \A x \in DOMAIN right : Has(left, right[x]) <=> right[x] \in Range(left)
      BY <1>3, <2>2
    <3> QED BY <3>1, <3>2, <3>3
  <2>4. \A x, y \in S : right[x] = right[y] => x = y
    <3>1. \A x, y \in DOMAIN right : x < y => x \in 1 .. y - 1
      BY <2>2
    <3>2. \A x, y \in DOMAIN right : x < y \/ x = y \/ y < x
      BY <2>2
    <3> QED BY <2>3, <3>1, <3>2
  <2>5. r \in Seq(V) /\ Range(r) = {right[x] : x \in S} /\ IsInjective(r)
    <3>1. S \in SUBSET DOMAIN right
      OBVIOUS
    <3> HIDE DEF S
    <3> QED BY <2>4, <3>1, ThoseRows
  <2>6. \A v : v \in Range(r) <=> v \in Range(right) /\ v \notin Range(left)
    <3>1. ASSUME NEW v \in Range(right), v \notin Range(left) PROVE \E x \in S : right[x] = v
      <4> DEFINE P == {x \in DOMAIN right : right[x] = v}
      <4>1. P \subseteq Nat /\ P # {}
        BY <2>2, <3>1 DEF Range
      <4>2. PICK x \in P : \A y \in P : x <= y
        <5> HIDE DEF P
        <5>1. PICK x \in P : \A y \in P : <<y, x>> \notin OpToRel(<, Nat)
          BY <4>1, NatLessThanWellFounded, WFMin
        <5>2. \A y \in P : ~(y < x)
          BY <4>1, <5>1 DEF OpToRel
        <5> QED BY <4>1, <5>2
      <4>3. \A y \in 1 .. x - 1 : y \notin P /\ y \in DOMAIN right
        BY <2>2, <4>1, <4>2
      <4> QED BY <2>3, <3>1, <4>2, <4>3
    <3>2. \A v : v \in Range(r) <=> \E x \in S : right[x] = v
      <4> HIDE DEF S, r
      <4> QED BY <2>5
    <3>3. \A x \in S : right[x] \in Range(right) /\ right[x] \notin Range(left)
      BY <2>3 DEF Range
    <3> HIDE DEF S, r
    <3> QED BY <3>1, <3>2, <3>3
  <2>7. s \in Seq(V) /\ IsInjective(s) /\ Range(s) = Range(left) \cup Range(right)
    <3> HIDE DEF r
    <3> QED BY <2>5, <2>6, ConcatRange
  <2>8. \A v : TimesIn(op, Times(left, v), Times(right, v)) = IF v \in Range(left) \cup Range(right) THEN 1 ELSE 0
    <3>1. \A v : Times(left, v) + Times(right, v) > 0 <=> v \in Range(left) \cup Range(right)
      BY <1>2
    <3> QED BY <3>1, <1>9 DEF TimesIn, Once
  <2> HIDE DEF s, c
  <2> QED BY <1>5, <1>9, <2>1, <2>7, <2>8 DEF c
<1> HIDE DEF c
<1>10. op \in {"UNION ALL", "UNION", "INTERSECT", "EXCEPT"}
  BY DEF SetOps
<1>11. CASE op # "UNION ALL"
  <2>1. c \in Seq(V) /\ IsInjective(c) /\ \A v : Times(c, v) = TimesIn(op, Times(left, v), Times(right, v))
    BY <1>7, <1>8, <1>9, <1>10, <1>11 DEF c
  <2> QED BY <2>1 DEF c
<1> QED BY <1>6, <1>11 DEF c

LEMMA CommonOfTwo ==
  ASSUME NEW a \in ColumnTypes, NEW b \in ColumnTypes
  PROVE  ComputeSetOpCommonType(a, b) \in ColumnTypes
<1>1. {"VARCHAR", "DOUBLE", "FLOAT"} \subseteq ColumnTypes
  BY DEF ColumnTypes, FloatTypes
<1>2. \A w \in 1 .. 4 : SignedTypes[IF w < 4 THEN w + 1 ELSE 4] \in ColumnTypes
  <2>1. \A w \in 1 .. 4 : (IF w < 4 THEN w + 1 ELSE 4) \in 1 .. 4
    OBVIOUS
  <2> QED BY <2>1, IntegerTypes DEF ColumnTypes
<1>3. Wider(a, b) \in {a, b}
  BY DEF Wider
<1>4. \A t : IsSigned(t) \/ IsUnsigned(t) => Width(t) \in 1 .. 4
  <2> SUFFICES ASSUME NEW t, IsSigned(t) \/ IsUnsigned(t) PROVE Width(t) \in 1 .. 4
    OBVIOUS
  <2>1. ~(IsSigned(t) /\ IsUnsigned(t))
    BY IntegerTypes DEF IsSigned, IsUnsigned
  <2>2. DOMAIN SignedTypes = 1 .. 4 /\ DOMAIN UnsignedTypes = 1 .. 4
    BY DEF SignedTypes, UnsignedTypes
  <2>3. CASE IsSigned(t)
    <3>1. \E i \in 1 .. 4 : SignedTypes[i] = t
      BY <2>2, <2>3 DEF IsSigned, Range
    <3>2. (CHOOSE i \in 1 .. 4 : SignedTypes[i] = t) \in 1 .. 4
      BY <3>1
    <3> QED BY <2>1, <2>3, <3>2, IntegerTypes DEF Width, IsSigned
  <2>4. CASE IsUnsigned(t)
    <3>1. \E i \in 1 .. 4 : UnsignedTypes[i] = t
      BY <2>2, <2>4 DEF IsUnsigned, Range
    <3>2. (CHOOSE i \in 1 .. 4 : UnsignedTypes[i] = t) \in 1 .. 4
      BY <3>1
    <3> QED BY <2>1, <2>4, <3>2, IntegerTypes DEF Width, IsUnsigned
  <2> QED BY <2>3, <2>4
<1>5. CASE a = b \/ b = "SQLNULL"
  BY <1>5 DEF ComputeSetOpCommonType
<1>6. CASE a # b /\ b # "SQLNULL" /\ a = "SQLNULL"
  BY <1>6 DEF ComputeSetOpCommonType
<1>7. CASE a # b /\ "SQLNULL" \notin {a, b}
  <2> DEFINE other == CASE "VARCHAR" \in {a, b} -> "VARCHAR"
         [] "VARCHAR" \notin {a, b} /\ {a, b} \cap FloatTypes # {} ->
              IF "DOUBLE" \in {a, b} \/ Width(a) >= 3 \/ Width(b) >= 3 THEN "DOUBLE" ELSE "FLOAT"
         [] (IsSigned(a) /\ IsUnsigned(b)) \/ (IsUnsigned(a) /\ IsSigned(b)) ->
              LET wider == Width(Wider(a, b)) IN SignedTypes[IF wider < 4 THEN wider + 1 ELSE 4]
         [] (IsSigned(a) /\ IsSigned(b)) \/ (IsUnsigned(a) /\ IsUnsigned(b)) -> Wider(a, b)
         [] OTHER -> "VARCHAR"
  <2>1. ComputeSetOpCommonType(a, b) = other
    BY <1>7 DEF ComputeSetOpCommonType
  <2>2. (IsSigned(a) /\ IsUnsigned(b)) \/ (IsUnsigned(a) /\ IsSigned(b)) => Width(Wider(a, b)) \in 1 .. 4
    BY <1>3, <1>4
  <2>3. other \in ColumnTypes
    BY <1>1, <1>2, <1>3, <2>2
  <2> QED BY <2>1, <2>3
<1> QED BY <1>5, <1>6, <1>7

Branches == Len(query.branches)

LEMMA ChainType ==
  ASSUME IsChain(query)
  PROVE  /\ Branches \in Nat \ {0} /\ DOMAIN query.branches = 1 .. Branches
         /\ \A i \in 1 .. Branches : IsBranch(query.branches[i])
         /\ \A i \in 1 .. Branches - 1 : query.ops[i] \in SetOps
         /\ DOMAIN query.ops = 1 .. Branches - 1
<1> DEFINE b == query.branches
<1>1. b \in Seq(Range(b)) /\ b # <<>>
  BY DEF IsChain
<1>2. Branches = Len(b)
  BY DEF Branches
<1> HIDE DEF b
<1>3. Branches \in Nat \ {0} /\ DOMAIN b = 1 .. Branches
  BY <1>1, <1>2
<1> QED BY <1>3 DEF IsChain, Branches, SetOps, b

(* A function that begins with a value at 1.                               *)
ComputesFromOne(g, first, step, S, N) ==
  g \in [1 .. N -> S] /\ (N > 0 => g[1] = first) /\ \A i \in 2 .. N : g[i] = step[i][g[i - 1]]

LEMMA RecursionFromOne ==
  ASSUME NEW S, NEW first \in S, NEW step \in [Nat -> [S -> S]], NEW N \in Nat
  PROVE  \E g : ComputesFromOne(g, first, step, S, N)
<1> DEFINE next == [n \in Nat |-> step[n + 1]]
<1>1. next \in [Nat -> [S -> S]]
  OBVIOUS
<1>2. PICK f : Computes(f, first, next, S, N)
  <2> HIDE DEF next
  <2> QED BY <1>1, Recursion
<1>3. f \in [0 .. N -> S] /\ f[0] = first /\ \A n \in 1 .. N : f[n] = next[n][f[n - 1]]
  BY <1>2 DEF Computes
<1> DEFINE g == [i \in 1 .. N |-> f[i - 1]]
<1>4. \A i \in 1 .. N : i - 1 \in 0 .. N
  OBVIOUS
<1>5. g \in [1 .. N -> S]
  BY <1>3, <1>4
<1>6. N > 0 => g[1] = first
  BY <1>3
<1>7. ASSUME NEW i \in 2 .. N PROVE g[i] = step[i][g[i - 1]]
  <2>1. i - 1 \in 1 .. N /\ i \in 1 .. N /\ (i - 1) + 1 = i /\ i - 1 \in Nat
    OBVIOUS
  <2>2. g[i] = f[i - 1] /\ g[i - 1] = f[(i - 1) - 1] /\ next[i - 1] = step[i]
    BY <2>1
  <2> HIDE DEF g, next
  <2> QED BY <1>3, <2>1, <2>2
<1> HIDE DEF g
<1> QED BY <1>5, <1>6, <1>7 DEF ComputesFromOne

LEMMA CommonTypeType ==
  ASSUME IsChain(query)
  PROVE  \A i \in 1 .. Branches : CommonType[i] \in ColumnTypes
<1> DEFINE S == ColumnTypes
           N == Branches
           first == query.branches[1].type
           Common(t, n) == ComputeSetOpCommonType(t, query.branches[n].type)
           step == [n \in Nat |-> [t \in S |-> IF n \in 1 .. N THEN Common(t, n) ELSE t]]
           E(q) == [i \in 1 .. N |-> IF i = 1 THEN first ELSE Common(q[i - 1], i)]
           h == CHOOSE q : q = E(q)
<1>1. /\ N \in Nat \ {0} /\ 1 \in 1 .. N /\ first \in S
      /\ \A n \in 1 .. N : \A t \in S : Common(t, n) \in S
  <2>1. N \in Nat \ {0} /\ \A n \in 1 .. N : query.branches[n].type \in S
    BY ChainType DEF IsBranch
  <2>2. 1 \in 1 .. N
    BY <2>1
  <2> QED BY <2>1, <2>2, CommonOfTwo
<1>2. CommonType = h
  BY DEF CommonType, Branches
<1> HIDE DEF S, N, first, Common
<1>3. step \in [Nat -> [S -> S]]
  BY <1>1
<1>4. PICK g : ComputesFromOne(g, first, step, S, N)
  <2> HIDE DEF step
  <2> QED BY <1>1, <1>3, RecursionFromOne
<1>5. \A i \in 1 .. N : i # 1 => i \in 2 .. N /\ i - 1 \in 1 .. N
  BY <1>1
<1>6. ASSUME NEW i \in 1 .. N PROVE g[i] = IF i = 1 THEN first ELSE Common(g[i - 1], i)
  <2>1. CASE i = 1
    BY <1>1, <1>4, <2>1 DEF ComputesFromOne
  <2>2. CASE i # 1
    <3>1. i \in 2 .. N /\ i \in Nat /\ g[i - 1] \in S
      BY <1>1, <1>4, <1>5, <2>2 DEF ComputesFromOne
    <3>2. step[i][g[i - 1]] = Common(g[i - 1], i)
      BY <3>1
    <3> HIDE DEF step
    <3> QED BY <1>4, <2>2, <3>1, <3>2 DEF ComputesFromOne
  <2> QED BY <2>1, <2>2
<1>7. g = E(g)
  BY <1>4, <1>6 DEF ComputesFromOne
<1>8. h = E(h)
  BY <1>7
<1> HIDE DEF h
<1>9. h[1] = first /\ \A i \in 1 .. N : i # 1 => h[i] = Common(h[i - 1], i)
  BY <1>1, <1>8
<1> DEFINE G == {n \in Nat : n \in 1 .. N => h[n] \in S}
<1>10. 0 \in G
  OBVIOUS
<1>11. ASSUME NEW n \in Nat, n \in G PROVE n + 1 \in G
  <2> SUFFICES ASSUME n + 1 \in 1 .. N, n # 0 PROVE h[n + 1] \in S
    BY <1>1, <1>9
  <2>1. n \in 1 .. N /\ (n + 1) - 1 = n /\ n + 1 # 1
    BY <1>1
  <2> QED BY <1>1, <1>9, <1>11, <2>1
<1>12. \A n \in Nat : n \in G
  <2> HIDE DEF G
  <2> QED BY <1>10, <1>11, Induction
<1> QED BY <1>1, <1>2, <1>12 DEF S, N

-----------------------------------------------------------------------------
(* The branches with their values coerced to a type.                       *)
CoercedTo(t, i) == [x \in DOMAIN query.branches[i].rows |-> CoerceValueForSetOp(query.branches[i].rows[x], t)]
ValuesAs(t) == UNION {Range(CoercedTo(t, i)) : i \in DOMAIN query.branches}

LEMMA CoercedType ==
  ASSUME IsChain(query), NEW t \in ColumnTypes, NEW i \in 1 .. Branches
  PROVE  /\ CoercedTo(t, i) \in Seq(ValuesAs(t))
         /\ ValuesAs(t) \subseteq Values(t)
         /\ IsInjective(query.branches[i].rows) => IsInjective(CoercedTo(t, i))
<1>1. ASSUME NEW k \in 1 .. Branches PROVE
        /\ query.branches[k].rows \in Seq(Values(query.branches[k].type)) /\ query.branches[k].type \in ColumnTypes
        /\ \A v \in Values(query.branches[k].type) : CoerceValueForSetOp(v, t) \in Values(t)
        /\ \A v, w \in Values(query.branches[k].type) : CoerceValueForSetOp(v, t) = CoerceValueForSetOp(w, t) => v = w
  <2> DEFINE b == query.branches[k]
  <2>1. b.type \in ColumnTypes /\ b.rows \in Seq(Values(b.type))
    BY ChainType DEF IsBranch, Values
  <2> HIDE DEF b
  <2>2. b.type \in ColumnTypes /\ t \in ColumnTypes
    BY <2>1
  <2>3. \A v \in Values(b.type) : v = Null \/ (v # Null /\ v.type = b.type /\ v.n \in Int /\ v = [type |-> b.type, n |-> v.n])
    BY <2>2, ValuesType DEF Values
  <2>4. \A n \in Int : [type |-> t, n |-> n] \in Values(t) /\ [type |-> t, n |-> n] # Null
    BY <2>2, NullHasNoType DEF Values
  <2>5. \A v \in Values(b.type) : v # Null => AsText(v) \in Int
    BY <2>3 DEF AsText
  <2>6. ASSUME NEW v \in Values(b.type) PROVE CoerceValueForSetOp(v, t) \in Values(t)
    <3>1. CASE v = Null
      BY <3>1 DEF CoerceValueForSetOp, Values
    <3>2. CASE v # Null
      BY <2>3, <2>4, <2>5, <3>2 DEF CoerceValueForSetOp
    <3> QED BY <3>1, <3>2
  <2>7. ASSUME NEW v \in Values(b.type), NEW w \in Values(b.type), CoerceValueForSetOp(v, t) = CoerceValueForSetOp(w, t)
        PROVE  v = w
    <3>1. CASE v = Null \/ w = Null
      BY <2>3, <2>4, <2>5, <2>7, <3>1 DEF CoerceValueForSetOp
    <3>2. CASE v # Null /\ w # Null
      <4>1. v.n = w.n
        <5>1. CASE b.type = t
          BY <2>3, <2>7, <3>2, <5>1 DEF CoerceValueForSetOp
        <5>2. CASE b.type # t /\ t # "VARCHAR"
          BY <2>3, <2>7, <3>2, <5>2 DEF CoerceValueForSetOp
        <5>3. CASE b.type # t /\ t = "VARCHAR"
          <6>1. AsText(v) = AsText(w)
            BY <2>3, <2>7, <3>2, <5>3 DEF CoerceValueForSetOp
          <6> QED BY <2>3, <3>2, <6>1 DEF AsText
        <5> QED BY <5>1, <5>2, <5>3
      <4> QED BY <2>3, <3>2, <4>1
    <3> QED BY <3>1, <3>2
  <2> QED BY <2>1, <2>6, <2>7 DEF b
<1>2. ASSUME NEW k \in 1 .. Branches PROVE
        /\ CoercedTo(t, k) \in Seq(Values(t)) /\ Range(CoercedTo(t, k)) \subseteq Values(t)
        /\ CoercedTo(t, k) \in Seq(Range(CoercedTo(t, k)))
  <2> DEFINE r == query.branches[k].rows
             c == CoercedTo(t, k)
  <2>1. r \in Seq(Values(query.branches[k].type))
    BY <1>1
  <2>2. DOMAIN r = 1 .. Len(r) /\ Len(r) \in Nat /\ \A x \in DOMAIN r : CoerceValueForSetOp(r[x], t) \in Values(t)
    BY <1>1, <2>1
  <2>3. c = [x \in 1 .. Len(r) |-> CoerceValueForSetOp(r[x], t)]
    BY <2>2 DEF CoercedTo
  <2>4. c \in Seq(Values(t))
    BY <2>2, <2>3
  <2> HIDE DEF c
  <2> QED BY <2>4 DEF Range, c
<1>3. ValuesAs(t) \subseteq Values(t)
  BY <1>2, ChainType DEF ValuesAs
<1>4. CoercedTo(t, i) \in Seq(ValuesAs(t))
  <2>1. Range(CoercedTo(t, i)) \subseteq ValuesAs(t)
    BY ChainType DEF ValuesAs
  <2> QED BY <1>2, <2>1
<1>5. ASSUME IsInjective(query.branches[i].rows) PROVE IsInjective(CoercedTo(t, i))
  <2> DEFINE r == query.branches[i].rows
  <2>1. \A x \in DOMAIN r : r[x] \in Values(query.branches[i].type)
    BY <1>1
  <2>2. \A x, y \in DOMAIN r : CoerceValueForSetOp(r[x], t) = CoerceValueForSetOp(r[y], t) => r[x] = r[y]
    BY <1>1, <2>1
  <2> QED BY <1>5, <2>2 DEF CoercedTo, IsInjective
<1> QED BY <1>3, <1>4, <1>5

LEMMA TimesInType ==
  ASSUME NEW op \in SetOps, NEW l \in Nat, NEW r \in Nat
  PROVE  TimesIn(op, l, r) \in Nat
<1>1. op \in {"UNION ALL", "UNION", "INTERSECT", "EXCEPT"}
  BY DEF SetOps
<1>2. \A c \in BOOLEAN : Once(c) \in Nat
  BY DEF Once
<1>3. CASE op = "UNION ALL"
  <2>1. TimesIn(op, l, r) = l + r
    BY <1>3, Zenon DEF TimesIn
  <2> QED BY <2>1
<1>4. CASE op = "UNION"
  <2>1. TimesIn(op, l, r) = Once(l + r > 0)
    BY <1>4 DEF TimesIn
  <2>2. (l + r > 0) \in BOOLEAN
    OBVIOUS
  <2> QED BY <1>2, <2>1, <2>2
<1>5. CASE op = "INTERSECT"
  BY <1>2, <1>5 DEF TimesIn
<1>6. CASE op = "EXCEPT"
  BY <1>2, <1>6 DEF TimesIn
<1> QED BY <1>1, <1>3, <1>4, <1>5, <1>6

(* f is how often the result should have each value, branch by branch.     *)
IsCount(f, t) ==
  /\ f \in [1 .. Branches -> [ValuesAs(t) -> Nat]]
  /\ \A v \in ValuesAs(t) : f[1][v] = Times(CoercedTo(t, 1), v)
  /\ \A i \in 2 .. Branches : \A v \in ValuesAs(t) :
       f[i][v] = TimesIn(query.ops[i - 1], f[i - 1][v], Times(CoercedTo(t, i), v))

LEMMA TimesAfterIsCount ==
  ASSUME IsChain(query), state.type \in ColumnTypes
  PROVE  IsCount(TimesAfter, state.type) /\ AllValues = ValuesAs(state.type)
<1> DEFINE t == state.type
           V == ValuesAs(t)
           N == Branches
           S == [V -> Nat]
           T(i, v) == Times(CoercedTo(t, i), v)
           first == [v \in V |-> T(1, v)]
           More(m, i) == [v \in V |-> TimesIn(query.ops[i - 1], m[v], T(i, v))]
           step == [n \in Nat |-> [m \in S |-> IF n \in 2 .. N THEN More(m, n) ELSE m]]
           Row(q, i) == [v \in V |-> IF i = 1 THEN T(1, v) ELSE TimesIn(query.ops[i - 1], q[i - 1][v], T(i, v))]
           E(q) == [i \in 1 .. N |-> Row(q, i)]
           h == CHOOSE q : q = E(q)
<1>1. \A i \in 1 .. N, v \in V : T(i, v) \in Nat
  <2> SUFFICES ASSUME NEW i \in 1 .. N, NEW v \in V PROVE T(i, v) \in Nat
    OBVIOUS
  <2>1. CoercedTo(t, i) \in Seq(V)
    BY CoercedType
  <2> QED BY <2>1, TimesType
<1>2. N \in Nat \ {0} /\ 1 \in 1 .. N /\ \A i \in 2 .. N : query.ops[i - 1] \in SetOps /\ i \in 1 .. N
  <2>1. N \in Nat \ {0} /\ \A i \in 1 .. N - 1 : query.ops[i] \in SetOps
    BY ChainType
  <2>2. \A i \in 2 .. N : i - 1 \in 1 .. N - 1 /\ i \in 1 .. N
    BY <2>1
  <2> QED BY <2>1, <2>2
<1>3. AllValues = V
  BY DEF AllValues, ValuesAs, Coerced, CoercedTo
<1>4. TimesAfter = h
  <2>1. \A i : Coerced(i) = CoercedTo(t, i)
    BY DEF Coerced, CoercedTo
  <2>2. TimesAfter = CHOOSE q : q = [i \in 1 .. N |-> [v \in AllValues |-> IF i = 1 THEN Times(Coerced(1), v)
                      ELSE TimesIn(query.ops[i - 1], q[i - 1][v], Times(Coerced(i), v))]]
    BY DEF TimesAfter, Branches
  <2> QED BY <1>3, <2>1, <2>2
<1> HIDE DEF V, N, T
<1>5. first \in S /\ \A m \in S : \A i \in 2 .. N : More(m, i) \in S
  BY <1>1, <1>2, TimesInType
<1> HIDE DEF first, More
<1>6. step \in [Nat -> [S -> S]]
  <2> HIDE DEF S
  <2> QED BY <1>5
<1>7. PICK g : ComputesFromOne(g, first, step, S, N)
  <2> HIDE DEF step, S
  <2> QED BY <1>2, <1>5, <1>6, RecursionFromOne
<1>8. \A i \in 1 .. N : i # 1 => i \in 2 .. N /\ i - 1 \in 1 .. N
  BY <1>2
<1>9. g[1] = first /\ \A i \in 2 .. N : g[i] = More(g[i - 1], i)
  <2>1. ASSUME NEW i \in 2 .. N PROVE g[i] = More(g[i - 1], i)
    <3>1. i \in 2 .. N /\ i \in Nat /\ g[i - 1] \in S
      <4>1. i \in 1 .. N /\ i - 1 \in 1 .. N
        BY <1>2
      <4> HIDE DEF S
      <4> QED BY <1>2, <1>7, <4>1 DEF ComputesFromOne
    <3>2. step[i][g[i - 1]] = More(g[i - 1], i)
      <4> HIDE DEF S
      <4> QED BY <3>1
    <3> HIDE DEF step, S
    <3> QED BY <1>7, <3>1, <3>2 DEF ComputesFromOne
  <2> QED BY <1>2, <1>7, <2>1 DEF ComputesFromOne
<1>10. g = E(g)
  <2>1. ASSUME NEW i \in 1 .. N
        PROVE  g[i] = [v \in V |-> IF i = 1 THEN T(1, v) ELSE TimesIn(query.ops[i - 1], g[i - 1][v], T(i, v))]
    <3>1. CASE i = 1
      BY <1>9, <3>1 DEF first
    <3>2. CASE i # 1
      BY <1>8, <1>9, <3>2 DEF More
    <3> QED BY <3>1, <3>2
  <2>2. \A i \in 1 .. N : g[i] = Row(g, i)
    BY <2>1
  <2> HIDE DEF S, Row
  <2> QED BY <1>7, <2>2 DEF ComputesFromOne
<1>11. h = E(h)
  BY <1>10
<1> HIDE DEF h
<1>20. h = [i \in 1 .. N |-> h[i]] /\ \A i \in 1 .. N : h[i] = Row(h, i)
  <2> HIDE DEF Row
  <2> QED BY <1>11
<1>12. \A i \in 1 .. N : \A v \in V : h[i][v] = IF i = 1 THEN T(1, v) ELSE TimesIn(query.ops[i - 1], h[i - 1][v], T(i, v))
  BY <1>20
<1> DEFINE G == {n \in Nat : n \in 1 .. N => \A v \in V : h[n][v] \in Nat}
<1>13. 0 \in G
  OBVIOUS
<1>14. ASSUME NEW n \in Nat, n \in G PROVE n + 1 \in G
  <2> SUFFICES ASSUME n + 1 \in 1 .. N, NEW v \in V PROVE h[n + 1][v] \in Nat
    OBVIOUS
  <2>1. CASE n = 0
    <3>1. n + 1 = 1 /\ h[1][v] = T(1, v) /\ T(1, v) \in Nat
      BY <1>1, <1>2, <1>12, <2>1
    <3> QED BY <3>1
  <2>2. CASE n # 0
    <3>1. n \in 1 .. N /\ (n + 1) - 1 = n /\ n + 1 # 1 /\ n + 1 \in 2 .. N
      BY <1>2, <2>2
    <3>2. h[n][v] \in Nat /\ T(n + 1, v) \in Nat /\ query.ops[n] \in SetOps
      <4>1. query.ops[(n + 1) - 1] \in SetOps
        BY <1>2, <3>1
      <4> QED BY <1>1, <1>14, <3>1, <4>1
    <3>3. h[n + 1][v] = TimesIn(query.ops[n], h[n][v], T(n + 1, v))
      BY <1>12, <3>1
    <3> QED BY <3>2, <3>3, TimesInType
  <2> QED BY <2>1, <2>2
<1>15. \A n \in Nat : n \in G
  <2> HIDE DEF G
  <2> QED BY <1>13, <1>14, Induction
<1>16. \A i \in 1 .. N : h[i] \in S
  <2> SUFFICES ASSUME NEW i \in 1 .. N PROVE h[i] \in S
    OBVIOUS
  <2>1. \A v \in V : h[i][v] \in Nat
    BY <1>2, <1>15
  <2>2. h[i] = [v \in V |-> h[i][v]]
    BY <1>20
  <2> QED BY <2>1, <2>2
<1>17. h \in [1 .. N -> S]
  <2> HIDE DEF S
  <2> QED BY <1>16, <1>20
<1>18. \A v \in V : h[1][v] = T(1, v)
  BY <1>2, <1>12
<1>19. \A i \in 2 .. N : \A v \in V : h[i][v] = TimesIn(query.ops[i - 1], h[i - 1][v], T(i, v))
  <2>1. \A i \in 2 .. N : i # 1
    OBVIOUS
  <2> QED BY <1>2, <1>12, <2>1
<1> QED BY <1>3, <1>4, <1>17, <1>18, <1>19 DEF IsCount, V, N, T

-----------------------------------------------------------------------------
(* A sequence in another order.                                            *)
LEMMA TimesOfPermuted ==
  ASSUME NEW T, NEW s \in Seq(T), NEW p \in [DOMAIN s -> DOMAIN s], IsInjective(p),
         NEW z, z = [i \in DOMAIN s |-> s[p[i]]]
  PROVE  z \in Seq(T) /\ Len(z) = Len(s) /\ \A v : Times(z, v) = Times(s, v)
<1> DEFINE D == DOMAIN s
<1>1. Len(s) \in Nat /\ D = 1 .. Len(s) /\ IsFiniteSet(D) /\ \A i \in D : s[i] \in T
  BY FS_Interval
<1>2. p \in Injection(D, D)
  BY DEF Injection
<1>3. p \in Surjection(D, D)
  <2> HIDE DEF D
  <2> QED BY <1>1, <1>2, FS_Injection
<1>4. \A j \in D : \E i \in D : p[i] = j
  BY <1>3 DEF Surjection
<1>5. z \in Seq(T) /\ Len(z) = Len(s) /\ DOMAIN z = D /\ \A i \in D : z[i] = s[p[i]]
  <2>1. z = [i \in 1 .. Len(s) |-> s[p[i]]] /\ \A i \in 1 .. Len(s) : s[p[i]] \in T
    BY <1>1
  <2> QED BY <1>1, <2>1
<1>6. ASSUME NEW v PROVE Times(z, v) = Times(s, v)
  <2> DEFINE P == {i \in D : z[i] = v}
             Q == {i \in D : s[i] = v}
             g == [i \in P |-> p[i]]
  <2>1. IsFiniteSet(P)
    <3>1. P \in SUBSET D
      OBVIOUS
    <3> HIDE DEF P, D
    <3> QED BY <1>1, <3>1, FS_Subset
  <2>2. g \in [P -> Q] /\ \A a, b \in P : g[a] = g[b] => a = b
    BY <1>5 DEF IsInjective
  <2>3. \A q \in Q : \E a \in P : g[a] = q
    BY <1>4, <1>5
  <2>4. Times(z, v) = Cardinality(P) /\ Times(s, v) = Cardinality(Q)
    BY <1>5 DEF Times
  <2> HIDE DEF P, Q, g
  <2> QED BY <2>1, <2>2, <2>3, <2>4, SameTimes
<1> QED BY <1>5, <1>6

(* The rows of a sequence that are in a set, counted by their values.      *)
PlacesOf(s, S) == {i \in DOMAIN s : s[i] \in S}
ByValue(s, S)  == UNION {{v} \X (1 .. Times(s, v)) : v \in S}

LEMMA CountedByValue ==
  ASSUME NEW T, NEW s \in Seq(T), NEW S \in SUBSET T
  PROVE  Cardinality(PlacesOf(s, S)) = Cardinality(ByValue(s, S))
<1> DEFINE P == {i \in DOMAIN s : s[i] \in S}
           Q == UNION {{v} \X (1 .. Times(s, v)) : v \in S}
           Places(v) == {i \in DOMAIN s : s[i] = v}
           B(v) == CHOOSE b : b \in Bijection(Places(v), 1 .. Times(s, v))
           g == [i \in P |-> <<s[i], B(s[i])[i]>>]
<1>1. IsFiniteSet(DOMAIN s) /\ P \in SUBSET DOMAIN s
  <2>1. DOMAIN s = 1 .. Len(s) /\ Len(s) \in Int
    OBVIOUS
  <2>2. IsFiniteSet(DOMAIN s)
    BY <2>1, FS_Interval
  <2> QED BY <2>2
<1>2. IsFiniteSet(P)
  <2> HIDE DEF P
  <2> QED BY <1>1, FS_Subset
<1>3. ASSUME NEW v \in S PROVE B(v) \in Bijection(Places(v), 1 .. Times(s, v))
  <2>1. IsFiniteSet(Places(v)) /\ Times(s, v) = Cardinality(Places(v)) /\ Times(s, v) \in Nat
    <3>1. Times(s, v) = Cardinality(Places(v))
      BY DEF Times
    <3>2. IsFiniteSet(Places(v)) /\ Times(s, v) \in Nat
      BY TimesType
    <3> HIDE DEF Places
    <3> QED BY <3>1, <3>2
  <2>2. IsFiniteSet(1 .. Times(s, v)) /\ Cardinality(1 .. Times(s, v)) = Times(s, v)
    BY <2>1, FS_Interval
  <2>3. ExistsBijection(Places(v), 1 .. Times(s, v))
    <3> HIDE DEF Places
    <3> QED BY <2>1, <2>2, FS_SameCardinalityBij
  <2> HIDE DEF Places
  <2> QED BY <2>3 DEF ExistsBijection
<1> HIDE DEF B
<1>4. \A v \in S : /\ B(v) \in [Places(v) -> 1 .. Times(s, v)]
                   /\ \A a, b \in Places(v) : B(v)[a] = B(v)[b] => a = b
                   /\ \A k \in 1 .. Times(s, v) : \E a \in Places(v) : B(v)[a] = k
  BY <1>3 DEF Bijection, Injection, Surjection, IsInjective
<1>5. \A i \in P : s[i] \in S /\ i \in Places(s[i])
  OBVIOUS
<1>6. \A v \in S : \A i \in Places(v) : i \in P /\ s[i] = v
  OBVIOUS
<1>7. \A v \in S : \A k \in 1 .. Times(s, v) : <<v, k>> \in Q
  OBVIOUS
<1>8. \A q \in Q : \E v \in S : \E k \in 1 .. Times(s, v) : q = <<v, k>>
  OBVIOUS
<1> HIDE DEF P, Q, Places
<1>9. g \in [P -> Q]
  BY <1>4, <1>5, <1>7
<1>10. \A a, b \in P : g[a] = g[b] => a = b
  <2> SUFFICES ASSUME NEW a \in P, NEW b \in P, g[a] = g[b] PROVE a = b
    OBVIOUS
  <2>1. g[a] = <<s[a], B(s[a])[a]>> /\ g[b] = <<s[b], B(s[b])[b]>>
    OBVIOUS
  <2>2. s[a] = s[b] /\ B(s[a])[a] = B(s[b])[b]
    BY <2>1
  <2>3. B(s[a])[a] = B(s[a])[b] /\ s[a] \in S /\ a \in Places(s[a]) /\ b \in Places(s[a])
    BY <1>5, <2>2
  <2> QED BY <1>4, <2>3
<1>11. \A q \in Q : \E a \in P : g[a] = q
  <2> SUFFICES ASSUME NEW q \in Q PROVE \E a \in P : g[a] = q
    OBVIOUS
  <2>1. PICK v \in S : \E k \in 1 .. Times(s, v) : q = <<v, k>>
    BY <1>8
  <2>2. PICK k \in 1 .. Times(s, v) : q = <<v, k>>
    BY <2>1
  <2>3. PICK a \in Places(v) : B(v)[a] = k
    BY <1>4
  <2>4. a \in P /\ s[a] = v
    BY <1>6
  <2>5. g[a] = <<s[a], B(s[a])[a]>>
    BY <2>4
  <2> QED BY <2>2, <2>3, <2>4, <2>5
<1>12. Cardinality(Q) = Cardinality(P)
  <2> HIDE DEF g
  <2> QED BY <1>2, <1>9, <1>10, <1>11, SameTimes
<1> QED BY <1>12 DEF P, Q, PlacesOf, ByValue

LEMMA TotalOfRows ==
  ASSUME NEW s \in Seq(AllValues), \A v \in AllValues : Times(s, v) = RightTimes(v), NEW S \in SUBSET AllValues
  PROVE  Total(S) = Cardinality({i \in DOMAIN s : s[i] \in S})
<1>1. ByValue(s, S) = UNION {{v} \X (1 .. RightTimes(v)) : v \in S}
  BY DEF ByValue
<1>2. Total(S) = Cardinality(ByValue(s, S))
  BY <1>1 DEF Total
<1>3. Total(S) = Cardinality(PlacesOf(s, S))
  BY <1>2, CountedByValue
<1> QED BY <1>3 DEF PlacesOf

(* ORDER BY orders the values of one type.                                 *)
LEMMA BeforeOrders ==
  ASSUME NEW t \in ColumnTypes, t # "DATE", query.nullsFirst \in BOOLEAN, NEW a \in Values(t)
  PROVE  ~Before(a, a) /\ \A b \in Values(t) : Before(a, b) \/ Before(b, a) \/ a = b
<1>1. \A v \in Values(t) : v = Null \/ (v # Null /\ v.type = t /\ v.n \in Int /\ v = [type |-> t, n |-> v.n])
  BY ValuesType DEF Values
<1>2. ~Before(a, a)
  BY <1>1 DEF Before, Less
<1>3. ASSUME NEW b \in Values(t) PROVE Before(a, b) \/ Before(b, a) \/ a = b
  <2>1. CASE a = Null \/ b = Null
    BY <2>1 DEF Before
  <2>2. CASE a # Null /\ b # Null
    <3>1. a.n < b.n \/ b.n < a.n \/ a.n = b.n
      BY <1>1, <2>2
    <3>2. CASE a.n = b.n
      BY <1>1, <2>2, <3>2
    <3>3. CASE a.n < b.n \/ b.n < a.n
      <4>1. Less(a, b) \/ Less(b, a)
        BY <1>1, <2>2, <3>3 DEF Less
      <4> QED BY <2>2, <4>1 DEF Before
    <3> QED BY <3>1, <3>2, <3>3
  <2> QED BY <2>1, <2>2
<1> QED BY <1>2, <1>3

LEMMA SortedRows ==
  ASSUME IsChain(query), NEW T, NEW s \in Seq(T), NEW z \in Sorted(s)
  PROVE  /\ z \in Seq(T) /\ Len(z) = Len(s) /\ \A v : Times(z, v) = Times(s, v)
         /\ query.order # "none" => \A i, j \in 1 .. Len(z) : i < j => ~Before(z[j], z[i])
<1>1. CASE query.order = "none"
  <2>1. z = s
    BY <1>1 DEF Sorted
  <2> QED BY <1>1, <2>1
<1>2. CASE query.order # "none"
  <2>1. PICK p \in [DOMAIN s -> DOMAIN s] :
          /\ IsInjective(p) /\ \A i, j \in DOMAIN s : i < j => ~Before(s[p[j]], s[p[i]])
          /\ z = [i \in DOMAIN s |-> s[p[i]]]
    BY <1>2 DEF Sorted
  <2>2. z \in Seq(T) /\ Len(z) = Len(s) /\ \A v : Times(z, v) = Times(s, v)
    BY <2>1, TimesOfPermuted
  <2>3. \A i, j \in DOMAIN s : i < j => ~Before(z[j], z[i])
    BY <2>1
  <2>4. DOMAIN s = 1 .. Len(s)
    OBVIOUS
  <2> QED BY <2>2, <2>3, <2>4
<1> QED BY <1>1, <1>2

\* What is kept of a sequence when the first rows and the last are dropped.
LEMMA TrimmedRows ==
  ASSUME query.offset \in Nat, query.limit \in Int, NEW T, NEW z \in Seq(T)
  PROVE  LET left == IF Len(z) < query.offset THEN 0 ELSE Len(z) - query.offset
         IN  /\ Trimmed(z) \in Seq(T)
             /\ Len(Trimmed(z)) = IF query.limit < 0 \/ left < query.limit THEN left ELSE query.limit
             /\ \A i \in 1 .. Len(Trimmed(z)) : query.offset + i \in 1 .. Len(z) /\ Trimmed(z)[i] = z[query.offset + i]
<1> DEFINE m == query.offset
           k == query.limit
           L == Len(z)
           n == IF k < 0 \/ m + k > L THEN L ELSE m + k
           o == SubSeq(z, m + 1, n)
           left == IF L < m THEN 0 ELSE L - m
           kept == IF k < 0 \/ left < k THEN left ELSE k
<1>1. Trimmed(z) = o
  BY DEF Trimmed
<1>2. L \in Nat /\ m \in Nat /\ k \in Int /\ n \in Nat /\ n <= L /\ left \in Nat /\ kept \in Nat
  OBVIOUS
<1>3. IF m + 1 <= n THEN kept = n - m ELSE kept = 0
  BY <1>2
<1> HIDE DEF left, kept
<1>4. ASSUME NEW x \in Nat, x <= L PROVE
       /\ SubSeq(z, m + 1, x) \in Seq(T)
       /\ Len(SubSeq(z, m + 1, x)) = IF m + 1 <= x THEN x - m ELSE 0
       /\ \A i \in 1 .. x - m : SubSeq(z, m + 1, x)[i] = z[m + i]
  <2>1. CASE m + 1 <= x
    <3>1. m + 1 \in 1 .. Len(z) /\ x \in 1 .. Len(z) /\ m + 1 \in Nat
      BY <1>2, <1>4, <2>1
    <3>2. SubSeq(z, m + 1, x) \in Seq(T)
      BY <3>1
    <3>3. Len(SubSeq(z, m + 1, x)) = x - m
      BY <1>2, <2>1, <3>1
    <3>4. ASSUME NEW i \in 1 .. x - m PROVE SubSeq(z, m + 1, x)[i] = z[m + i]
      <4> DEFINE a == m + 1
      <4>1. a \in 1 .. Len(z) /\ x \in 1 .. Len(z) /\ i \in 1 .. x - a + 1 /\ a + i - 1 = m + i
        BY <1>2, <3>1
      <4> HIDE DEF a
      <4>2. SubSeq(z, a, x)[i] = z[a + i - 1]
        BY <4>1
      <4> QED BY <4>1, <4>2 DEF a
    <3> QED BY <2>1, <3>2, <3>3, <3>4
  <2>2. CASE ~(m + 1 <= x)
    <3>1. SubSeq(z, m + 1, x) = <<>>
      BY <1>2, <1>4, <2>2
    <3>2. 1 .. x - m = {}
      BY <1>2, <1>4, <2>2
    <3> QED BY <2>2, <3>1, <3>2
  <2> QED BY <2>1, <2>2
<1>5. o \in Seq(T) /\ Len(o) = kept /\ \A i \in 1 .. n - m : o[i] = z[m + i]
  <2> HIDE DEF n
  <2> QED BY <1>2, <1>3, <1>4
<1>6. \A i \in 1 .. kept : m + i \in 1 .. L /\ i \in 1 .. n - m
  <2> HIDE DEF n
  <2> QED BY <1>2, <1>3
<1>7. \A i \in 1 .. Len(o) : m + i \in 1 .. L /\ o[i] = z[m + i]
  <2> HIDE DEF n, o
  <2> QED BY <1>5, <1>6
<1> HIDE DEF o
<1> QED BY <1>1, <1>5, <1>7 DEF left, kept

\* What SetOpsAreRight says of rows that are out.
IsAnswer(o) ==
  LET all == Total(AllValues)
      left == IF all < query.offset THEN 0 ELSE all - query.offset
  IN  /\ Len(o) = IF query.limit < 0 \/ left < query.limit THEN left ELSE query.limit
      /\ \A v \in AllValues : Times(o, v) <= RightTimes(v)
      /\ Range(o) \subseteq AllValues
      /\ query.order # "none" =>
           \A i \in DOMAIN o :
             LET ahead == Total({v \in AllValues : Before(v, o[i])})
             IN  ahead < query.offset + i /\ query.offset + i <= ahead + RightTimes(o[i])

LEMMA OrderedRightly ==
  ASSUME IsChain(query), state.type \in ColumnTypes, state.type # "DATE", query.order # "none",
         NEW z \in Seq(AllValues), \A v \in AllValues : Times(z, v) = RightTimes(v),
         \A i, j \in 1 .. Len(z) : i < j => ~Before(z[j], z[i]),
         NEW k \in 1 .. Len(z)
  PROVE  LET ahead == Total({v \in AllValues : Before(v, z[k])})
         IN  ahead < k /\ k <= ahead + RightTimes(z[k])
<1> DEFINE V == AllValues
           x == z[k]
           S == {v \in V : Before(v, x)}
           A == {j \in 1 .. Len(z) : z[j] \in S}
           E == {j \in 1 .. Len(z) : z[j] = x}
           t == state.type
<1>1. /\ Len(z) \in Nat /\ DOMAIN z = 1 .. Len(z) /\ IsFiniteSet(1 .. Len(z))
      /\ x \in V /\ \A j \in 1 .. Len(z) : z[j] \in V
  <2>1. Len(z) \in Nat /\ DOMAIN z = 1 .. Len(z) /\ \A j \in 1 .. Len(z) : z[j] \in V
    OBVIOUS
  <2>2. IsFiniteSet(1 .. Len(z))
    BY <2>1, FS_Interval
  <2> QED BY <2>1, <2>2
<1>2. V \subseteq Values(t)
  <2>1. V = ValuesAs(t)
    BY TimesAfterIsCount
  <2>2. 1 \in 1 .. Branches
    BY ChainType
  <2> QED BY <2>1, <2>2, CoercedType
<1>3. \A a \in V : ~Before(a, a) /\ \A b \in V : Before(a, b) \/ Before(b, a) \/ a = b
  <2>1. query.nullsFirst \in BOOLEAN
    BY DEF IsChain
  <2>2. \A a \in Values(t) : ~Before(a, a) /\ \A b \in Values(t) : Before(a, b) \/ Before(b, a) \/ a = b
    BY <2>1, BeforeOrders
  <2> QED BY <1>2, <2>2
<1>4. Total(S) = Cardinality(A)
  <2>1. DOMAIN z = 1 .. Len(z) /\ S \in SUBSET V
    BY <1>1
  <2> HIDE DEF S
  <2>2. Total(S) = Cardinality({i \in DOMAIN z : z[i] \in S})
    BY <2>1, TotalOfRows
  <2> QED BY <2>1, <2>2
<1>5. RightTimes(x) = Cardinality(E)
  <2>1. RightTimes(x) = Times(z, x)
    BY <1>1
  <2> QED BY <1>1, <2>1 DEF Times
<1>6. A \in SUBSET (1 .. k - 1)
  <2> SUFFICES ASSUME NEW j \in A PROVE j \in 1 .. k - 1
    OBVIOUS
  <2>1. j \in 1 .. Len(z) /\ Before(z[j], x)
    OBVIOUS
  <2>2. j # k
    BY <1>1, <1>3, <2>1
  <2>3. ~(k < j)
    BY <2>1
  <2> QED BY <1>1, <2>1, <2>2, <2>3
<1>7. 1 .. k \in SUBSET (A \cup E)
  <2> SUFFICES ASSUME NEW j \in 1 .. k PROVE j \in A \/ j \in E
    OBVIOUS
  <2>1. j \in 1 .. Len(z) /\ (j = k \/ j < k)
    BY <1>1
  <2>2. CASE j = k
    BY <2>1, <2>2
  <2>3. CASE j < k
    <3>1. ~Before(x, z[j]) /\ z[j] \in V /\ x \in V
      BY <1>1, <2>1, <2>3
    <3> QED BY <1>3, <2>1, <3>1
  <2> QED BY <2>1, <2>2, <2>3
<1>8. IsFiniteSet(A) /\ IsFiniteSet(E) /\ Cardinality(A) \in Nat /\ Cardinality(E) \in Nat
  <2>1. A \in SUBSET (1 .. Len(z)) /\ E \in SUBSET (1 .. Len(z))
    OBVIOUS
  <2> HIDE DEF A, E
  <2> QED BY <1>1, <2>1, FS_Subset, FS_CardinalityType
<1> HIDE DEF A, E, S
<1>9. Cardinality(A) <= k - 1
  <2>1. k - 1 \in Int /\ 1 \in Int /\ k \in Int /\ k >= 1
    BY <1>1
  <2>2. IsFiniteSet(1 .. k - 1) /\ Cardinality(1 .. k - 1) = k - 1
    BY <2>1, FS_Interval
  <2> QED BY <1>6, <2>2, FS_Subset
<1>10. k <= Cardinality(A) + Cardinality(E)
  <2>1. 1 \in Int /\ k \in Int /\ k >= 1
    BY <1>1
  <2>2. Cardinality(1 .. k) = k
    BY <2>1, FS_Interval
  <2>3. /\ IsFiniteSet(A \cup E)
        /\ Cardinality(A \cup E) = Cardinality(A) + Cardinality(E) - Cardinality(A \cap E)
    BY <1>8, FS_Union
  <2>4. Cardinality(A \cap E) \in Nat
    BY <1>8, FS_Intersection, FS_CardinalityType
  <2>5. Cardinality(1 .. k) <= Cardinality(A \cup E)
    BY <1>7, <2>3, FS_Subset
  <2> QED BY <1>8, <2>1, <2>2, <2>3, <2>4, <2>5
<1>11. Cardinality(A) < k /\ k <= Cardinality(A) + RightTimes(x)
  <2>1. k \in Int
    BY <1>1
  <2> QED BY <1>5, <1>8, <1>9, <1>10, <2>1
<1> QED BY <1>4, <1>11 DEF S

(* Rows of the right number, ordered and trimmed, are what is asked for.   *)
LEMMA AnswerOfRows ==
  ASSUME IsChain(query), state.type \in ColumnTypes, state.type # "DATE",
         NEW r \in Seq(AllValues), \A v \in AllValues : Times(r, v) = RightTimes(v),
         NEW z \in Sorted(r), NEW o, o = Trimmed(z)
  PROVE  IsAnswer(o)
<1> DEFINE V == AllValues
           m == query.offset
           left == IF Len(z) < m THEN 0 ELSE Len(z) - m
<1>1. /\ z \in Seq(V) /\ \A v \in V : Times(z, v) = RightTimes(v)
      /\ query.order # "none" => \A i, j \in 1 .. Len(z) : i < j => ~Before(z[j], z[i])
  BY SortedRows
<1>2. m \in Nat /\ query.limit \in Int
  BY DEF IsChain
<1>3. /\ o \in Seq(V) /\ Len(o) = IF query.limit < 0 \/ left < query.limit THEN left ELSE query.limit
      /\ \A i \in 1 .. Len(o) : m + i \in 1 .. Len(z) /\ o[i] = z[m + i]
  BY <1>1, <1>2, TrimmedRows
<1>4. Total(V) = Len(z)
  <2>1. Total(V) = Cardinality({i \in DOMAIN z : z[i] \in V})
    BY <1>1, TotalOfRows
  <2>2. {i \in DOMAIN z : z[i] \in V} = 1 .. Len(z) /\ Len(z) \in Nat
    BY <1>1
  <2>3. Cardinality(1 .. Len(z)) = Len(z)
    <3>1. 1 \in Int /\ Len(z) \in Int /\ Len(z) >= 0
      BY <2>2
    <3> DEFINE n == Len(z)
    <3> HIDE DEF n
    <3>2. Cardinality(1 .. n) = IF 1 > n THEN 0 ELSE n - 1 + 1
      BY <3>1, FS_Interval DEF n
    <3> QED BY <3>1, <3>2 DEF n
  <2> HIDE DEF V
  <2> QED BY <2>1, <2>2, <2>3
<1>5. ASSUME NEW v \in V PROVE Times(o, v) <= RightTimes(v)
  <2> DEFINE P == {i \in DOMAIN o : o[i] = v}
             Q == {i \in DOMAIN z : z[i] = v}
             g == [i \in P |-> m + i]
  <2>1. DOMAIN o = 1 .. Len(o) /\ DOMAIN z = 1 .. Len(z) /\ Len(o) \in Nat
    BY <1>1, <1>3
  <2>2. g \in [P -> Q] /\ \A a, b \in P : g[a] = g[b] => a = b
    BY <1>2, <1>3, <2>1
  <2>3. g \in Injection(P, Q)
    BY <2>2 DEF Injection, IsInjective
  <2>4. IsFiniteSet(Q)
    BY <1>1, TimesType
  <2>5. Cardinality(P) <= Cardinality(Q)
    <3> HIDE DEF P, Q, g
    <3> QED BY <2>3, <2>4, FS_Injection
  <2>6. Times(o, v) = Cardinality(P) /\ Times(z, v) = Cardinality(Q)
    BY DEF Times
  <2>7. Times(z, v) = RightTimes(v)
    BY <1>1
  <2> HIDE DEF P, Q
  <2> QED BY <2>5, <2>6, <2>7
<1>6. Range(o) \subseteq V
  BY <1>3 DEF Range
<1>7. ASSUME query.order # "none", NEW i \in DOMAIN o
      PROVE  LET ahead == Total({v \in V : Before(v, o[i])})
             IN  ahead < m + i /\ m + i <= ahead + RightTimes(o[i])
  <2>1. m + i \in 1 .. Len(z) /\ o[i] = z[m + i]
    BY <1>3
  <2>2. \A j, k \in 1 .. Len(z) : j < k => ~Before(z[k], z[j])
    BY <1>1, <1>7
  <2>3. LET ahead == Total({v \in V : Before(v, z[m + i])})
        IN  ahead < m + i /\ m + i <= ahead + RightTimes(z[m + i])
    <3> DEFINE k == m + i
    <3>1. k \in 1 .. Len(z)
      BY <2>1
    <3> HIDE DEF k
    <3>2. LET ahead == Total({v \in V : Before(v, z[k])})
          IN  ahead < k /\ k <= ahead + RightTimes(z[k])
      BY <1>1, <1>7, <2>2, <3>1, OrderedRightly
    <3> QED BY <3>2 DEF k
  <2> QED BY <2>1, <2>3
<1> QED BY <1>3, <1>4, <1>5, <1>6, <1>7 DEF IsAnswer

-----------------------------------------------------------------------------
(* What holds after every branch.                                          *)
\* What the query is asked of: the rest are the faults the README lists.
Judged(t) == NoDuplicates /\ ForTheWhole /\ t # "DATE"

\* The rows after so many branches.
IsPartial(list, i, t) ==
  /\ list \in Seq(ValuesAs(t))
  /\ i = 0 => list = <<>>
  /\ i > 0 => \A f : IsCount(f, t) => \A v \in ValuesAs(t) : Times(list, v) = f[i][v]
  /\ i = 1 => IsInjective(list)
  /\ i > 1 /\ query.ops[i - 1] # "UNION ALL" => IsInjective(list)

IsKept(o, list) == \E z \in Sorted(list) : o = Trimmed(z)

Chained(s, o) ==
  /\ IsSetOp /\ IsChain(query)
  /\ s \in [phase : {"bind", "walk", "done", "threw"}, type : ColumnTypes, taken : 0 .. Branches, rows : {s.rows}]
  /\ s.phase = "bind" => s = Unbound
  /\ s.phase \in {"walk", "done"} /\ Judged(s.type) => IsPartial(s.rows, s.taken, s.type)
  /\ s.phase = "done" => s.taken = Branches
  /\ s.phase = "done" /\ Judged(s.type) => IsKept(o, s.rows)

ChainInv == Chained(state, out)

LEMMA ChainStays ==
  ASSUME query' = query
  PROVE  /\ (IsSetOp)' = IsSetOp /\ IsChain(query)' = IsChain(query) /\ Branches' = Branches
         /\ \A t : Judged(t)' = Judged(t)
         /\ \A list, i, t : IsPartial(list, i, t)' = IsPartial(list, i, t)
         /\ \A o, list : IsKept(o, list)' = IsKept(o, list)
<1>1. (IsSetOp)' = IsSetOp /\ Branches' = Branches
  BY DEF IsSetOp, Branches
<1>2. IsChain(query)' = IsChain(query)
  BY DEF IsChain
<1>3. \A t : Judged(t)' = Judged(t)
  BY DEF Judged, NoDuplicates, ForTheWhole
<1>4. \A t : ValuesAs(t)' = ValuesAs(t)
  BY DEF ValuesAs, CoercedTo
<1>5. \A t, i : CoercedTo(t, i)' = CoercedTo(t, i)
  BY DEF CoercedTo
<1>6. \A f, t : IsCount(f, t)' = IsCount(f, t)
  BY <1>1, <1>4, <1>5 DEF IsCount, Times
<1>7. \A list, i, t : IsPartial(list, i, t)' = IsPartial(list, i, t)
  BY <1>4, <1>6 DEF IsPartial, Times
<1>8. \A o, list : IsKept(o, list)' = IsKept(o, list)
  <2>1. \A a, b : Before(a, b)' = Before(a, b)
    BY DEF Before
  <2>2. \A list : Sorted(list)' = Sorted(list)
    BY <2>1 DEF Sorted
  <2>3. \A list : Trimmed(list)' = Trimmed(list)
    BY DEF Trimmed
  <2> QED BY <2>2, <2>3 DEF IsKept
<1> QED BY <1>1, <1>2, <1>3, <1>7, <1>8

LEMMA ChainNext ==
  ASSUME query' = query, NEW s, s = state', NEW o, o = out', Chained(s, o)
  PROVE  ChainInv'
<1>1. (IsSetOp /\ IsChain(query))'
  BY ChainStays DEF Chained
<1>2. (state \in [phase : {"bind", "walk", "done", "threw"}, type : ColumnTypes, taken : 0 .. Branches, rows : {state.rows}])'
  BY ChainStays DEF Chained
<1>3. (state.phase = "bind" => state = Unbound)'
  BY DEF Chained, Unbound
<1>4. (state.phase \in {"walk", "done"} /\ Judged(state.type) => IsPartial(state.rows, state.taken, state.type))'
  BY ChainStays DEF Chained
<1>5. (state.phase = "done" => state.taken = Branches)'
  BY ChainStays DEF Chained
<1>6. (state.phase = "done" /\ Judged(state.type) => IsKept(out, state.rows))'
  BY ChainStays DEF Chained
<1> QED BY <1>1, <1>2, <1>3, <1>4, <1>5, <1>6 DEF ChainInv, Chained

LEMMA ChainInit == SetInit => ChainInv
<1> SUFFICES ASSUME SetInit PROVE ChainInv
  OBVIOUS
<1>1. IsSetOp /\ IsChain(query) /\ state = Unbound
  BY DEF SetInit
<1>2. "SQLNULL" \in ColumnTypes
  BY DEF ColumnTypes
<1>3. 0 \in 0 .. Branches
  BY <1>1, ChainType
<1> QED BY <1>1, <1>2, <1>3 DEF ChainInv, Chained, Unbound

LEMMA BindStep ==
  ASSUME ChainInv, Bind, NEW s, s = state', NEW o, o = out'
  PROVE  Chained(s, o)
<1>1. IsSetOp /\ IsChain(query) /\ state = Unbound
  BY DEF ChainInv, Chained, Bind, InStep
<1>2. \/ s = [state EXCEPT !.phase = "threw"]
      \/ s = [state EXCEPT !.phase = "walk", !.type = CommonType[Len(query.branches)]]
  BY DEF Bind
<1>3. CommonType[Branches] \in ColumnTypes /\ "SQLNULL" \in ColumnTypes /\ 0 \in 0 .. Branches
  <2>1. Branches \in Nat \ {0}
    BY <1>1, ChainType
  <2>2. Branches \in 1 .. Branches /\ 0 \in 0 .. Branches
    BY <2>1
  <2> QED BY <1>1, <2>2, CommonTypeType DEF ColumnTypes
<1>4. \/ s = [phase |-> "threw", type |-> "SQLNULL", taken |-> 0, rows |-> <<>>]
      \/ s = [phase |-> "walk", type |-> CommonType[Branches], taken |-> 0, rows |-> <<>>]
  BY <1>1, <1>2 DEF Unbound, Branches
<1>5. IsPartial(<<>>, 0, s.type)
  <2>1. <<>> \in Seq(ValuesAs(s.type))
    OBVIOUS
  <2> QED BY <2>1 DEF IsPartial
<1> QED BY <1>1, <1>3, <1>4, <1>5 DEF Chained

(* Nothing is dropped where ORDER BY, LIMIT and OFFSET are for the whole.  *)
LEMMA NothingDropped ==
  ASSUME query.order = "none", query.limit < 0, query.offset = 0, NEW T, NEW list \in Seq(T)
  PROVE  Sorted(list) = {list} /\ Trimmed(list) = list
<1>1. Sorted(list) = {list}
  BY DEF Sorted
<1>2. Trimmed(list) = SubSeq(list, 1, Len(list))
  BY DEF Trimmed
<1>3. SubSeq(list, 1, Len(list)) = list
  OBVIOUS
<1> QED BY <1>1, <1>2, <1>3

\* Before the last operator, what is on the left has nothing twice.
LEMMA LeftIsDistinct ==
  ASSUME IsChain(query), NoDuplicates, NEW i \in 1 .. Branches - 1, NEW list, NEW t, IsPartial(list, i, t)
  PROVE  IsInjective(list)
<1>1. Branches \in Nat \ {0} /\ DOMAIN query.ops = 1 .. Branches - 1
  BY ChainType
<1>2. Len(query.ops) = Branches - 1
  <2>1. query.ops \in [1 .. Branches - 1 -> SetOps]
    BY DEF IsChain, Branches, SetOps
  <2>2. Branches - 1 \in Nat
    BY <1>1
  <2> QED BY <2>1, <2>2
<1>3. CASE i = 1
  BY <1>3 DEF IsPartial
<1>4. CASE i # 1
  <2>1. i > 1 /\ i - 1 \in 1 .. Branches - 1 /\ i - 1 # Branches - 1
    BY <1>1, <1>4
  <2>2. query.ops[i - 1] # "UNION ALL"
    BY <1>1, <1>2, <2>1 DEF NoDuplicates
  <2> QED BY <2>1, <2>2 DEF IsPartial
<1> QED BY <1>3, <1>4

LEMMA TakeStep ==
  ASSUME ChainInv, TakeBranch, NEW s, s = state', NEW o, o = out'
  PROVE  Chained(s, o)
<1> DEFINE i == state.taken + 1
           t == state.type
           V == ValuesAs(t)
<1>1. /\ IsSetOp /\ IsChain(query) /\ state.phase = "walk" /\ state.taken < Branches
      /\ state \in [phase : {"bind", "walk", "done", "threw"}, type : ColumnTypes, taken : 0 .. Branches,
                    rows : {state.rows}]
      /\ Judged(t) => IsPartial(state.rows, state.taken, t)
  BY DEF ChainInv, Chained, TakeBranch, InStep, Branches
<1>2. PICK list \in Drained(i) :
        s = [state EXCEPT !.taken = i, !.rows = IF i = 1 THEN list ELSE Combined(query.ops[i - 1], @, list)]
  BY DEF TakeBranch
<1>3. /\ s.phase = "walk" /\ s.type = t /\ s.taken = i
      /\ s.rows = IF i = 1 THEN list ELSE Combined(query.ops[i - 1], state.rows, list)
      /\ s = [phase |-> "walk", type |-> t, taken |-> i, rows |-> s.rows]
  BY <1>1, <1>2
<1>4. /\ Branches \in Nat \ {0} /\ t \in ColumnTypes /\ state.taken \in 0 .. Branches /\ i \in 1 .. Branches
      /\ i \in 0 .. Branches /\ i - 1 = state.taken
  <2>1. Branches \in Nat \ {0} /\ t \in ColumnTypes /\ state.taken \in 0 .. Branches
    BY <1>1, ChainType
  <2> QED BY <1>1, <2>1
<1>5. s \in [phase : {"bind", "walk", "done", "threw"}, type : ColumnTypes, taken : 0 .. Branches, rows : {s.rows}]
  BY <1>3, <1>4
<1>6. ASSUME Judged(t) PROVE IsPartial(s.rows, i, t)
  <2>1. CoercedTo(t, i) \in Seq(V) /\ V \subseteq Values(t) /\ t # "DATE" /\ ForTheWhole /\ NoDuplicates
    BY <1>1, <1>4, <1>6, CoercedType DEF Judged
  <2>2. list = CoercedTo(t, i)
    <3>1. Coerced(i) = CoercedTo(t, i)
      BY DEF Coerced, CoercedTo
    <3>2. CASE query.derived /\ i = Len(query.branches)
      <4>1. query.order = "none" /\ query.limit < 0 /\ query.offset = 0
        BY <2>1, <3>2 DEF ForTheWhole
      <4>2. Sorted(CoercedTo(t, i)) = {CoercedTo(t, i)} /\ Trimmed(CoercedTo(t, i)) = CoercedTo(t, i)
        BY <2>1, <4>1, NothingDropped
      <4>3. Drained(i) = {Trimmed(z) : z \in Sorted(Coerced(i))}
        BY <3>2 DEF Drained
      <4> HIDE DEF i
      <4> QED BY <1>2, <3>1, <4>2, <4>3
    <3>3. CASE ~(query.derived /\ i = Len(query.branches))
      BY <1>2, <3>1, <3>3 DEF Drained
    <3> QED BY <3>2, <3>3
  <2>3. \A f : IsCount(f, t) => /\ \A v \in V : f[1][v] = Times(CoercedTo(t, 1), v)
                                /\ \A k \in 2 .. Branches : \A v \in V :
                                     f[k][v] = TimesIn(query.ops[k - 1], f[k - 1][v], Times(CoercedTo(t, k), v))
    BY DEF IsCount
  <2>4. CASE i = 1
    <3>1. s.rows = CoercedTo(t, 1)
      BY <1>3, <2>2, <2>4
    <3>2. IsInjective(s.rows)
      <4>1. 1 \in 1 .. Branches /\ IsInjective(query.branches[1].rows)
        <5>1. 1 \in 1 .. Branches
          BY <1>4, <2>4
        <5>2. NoDuplicates
          BY <2>1
        <5> QED BY <5>1, <5>2, Zenon DEF NoDuplicates
      <4> QED BY <1>1, <1>4, <3>1, <4>1, CoercedType
    <3>3. s.rows \in Seq(V)
      BY <2>1, <2>4, <3>1
    <3>4. \A f : IsCount(f, t) => \A v \in V : Times(s.rows, v) = f[1][v]
      BY <2>3, <3>1
    <3>5. IsPartial(s.rows, 1, t)
      <4> HIDE DEF t
      <4> QED BY <3>2, <3>3, <3>4 DEF IsPartial
    <3> QED BY <2>4, <3>5
  <2>5. CASE i # 1
    <3> DEFINE op == query.ops[i - 1]
               left == state.rows
               right == CoercedTo(t, i)
    <3>1. i \in 2 .. Branches /\ i > 1 /\ state.taken \in 1 .. Branches - 1 /\ state.taken > 0
      BY <1>4, <2>5
    <3>2. left \in Seq(V) /\ IsInjective(left)
      <4>1. IsPartial(left, state.taken, t)
        BY <1>1, <1>6
      <4>2. IsInjective(left)
        BY <1>1, <2>1, <3>1, <4>1, LeftIsDistinct
      <4> QED BY <4>1, <4>2 DEF IsPartial
    <3>3. op \in SetOps
      BY <1>1, <1>4, <3>1, ChainType
    <3>4. s.rows = Combined(op, left, right)
      BY <1>3, <2>2, <2>5
    <3>5. /\ s.rows \in Seq(V) /\ \A v : Times(s.rows, v) = TimesIn(op, Times(left, v), Times(right, v))
          /\ op # "UNION ALL" => IsInjective(s.rows)
      <4> HIDE DEF op, left, right, V, t
      <4>1. t \in ColumnTypes /\ V \in SUBSET Values(t) /\ right \in Seq(V) /\ t # "DATE"
        BY <1>4, <2>1 DEF right
      <4>2. left \in Seq(V) /\ IsInjective(left) /\ op \in SetOps
        BY <3>2, <3>3
      <4>3. /\ Combined(op, left, right) \in Seq(V)
            /\ \A v : Times(Combined(op, left, right), v) = TimesIn(op, Times(left, v), Times(right, v))
            /\ op # "UNION ALL" => IsInjective(Combined(op, left, right))
        BY <4>1, <4>2, CombinedIsRight
      <4> QED BY <3>4, <4>3
    <3>6. ASSUME NEW f, IsCount(f, t), NEW v \in V PROVE Times(s.rows, v) = f[i][v]
      <4>1. Times(left, v) = f[i - 1][v]
        BY <1>1, <1>4, <1>6, <3>1, <3>6 DEF IsPartial
      <4>2. f[i][v] = TimesIn(op, f[i - 1][v], Times(right, v))
        BY <2>3, <3>1, <3>6
      <4> QED BY <3>5, <4>1, <4>2
    <3>7. i # 0 /\ i # 1
      BY <3>1
    <3>8. /\ s.rows \in Seq(V) /\ (query.ops[i - 1] # "UNION ALL" => IsInjective(s.rows))
          /\ \A f : IsCount(f, t) => \A v \in V : Times(s.rows, v) = f[i][v]
      BY <3>5, <3>6
    <3> HIDE DEF i, t
    <3> QED BY <3>7, <3>8 DEF IsPartial
  <2> QED BY <2>4, <2>5
<1> QED BY <1>1, <1>3, <1>5, <1>6 DEF Chained

LEMMA FinishStep ==
  ASSUME ChainInv, Finish, NEW s, s = state', NEW o, o = out'
  PROVE  Chained(s, o)
<1>1. /\ IsSetOp /\ IsChain(query) /\ state.phase = "walk" /\ state.taken = Branches
      /\ state \in [phase : {"bind", "walk", "done", "threw"}, type : ColumnTypes, taken : 0 .. Branches,
                    rows : {state.rows}]
      /\ Judged(state.type) => IsPartial(state.rows, state.taken, state.type)
  BY DEF ChainInv, Chained, Finish, InStep, Branches
<1>2. s = [state EXCEPT !.phase = "done"]
  BY DEF Finish
<1>3. s.phase = "done" /\ s.type = state.type /\ s.taken = Branches /\ s.rows = state.rows
  BY <1>1, <1>2
<1>4. s \in [phase : {"bind", "walk", "done", "threw"}, type : ColumnTypes, taken : 0 .. Branches, rows : {s.rows}]
  BY <1>1, <1>2
<1>5. ASSUME Judged(state.type) PROVE IsKept(o, state.rows)
  <2>1. CASE query.derived
    <3>1. query.order = "none" /\ query.limit < 0 /\ query.offset = 0
      BY <1>5, <2>1 DEF Judged, ForTheWhole
    <3>2. state.rows \in Seq(ValuesAs(state.type))
      BY <1>1, <1>5 DEF IsPartial
    <3>3. Sorted(state.rows) = {state.rows} /\ Trimmed(state.rows) = state.rows
      BY <3>1, <3>2, NothingDropped
    <3>4. o = state.rows
      BY <2>1 DEF Finish
    <3> QED BY <3>3, <3>4 DEF IsKept
  <2>2. CASE ~query.derived
    BY <2>2 DEF Finish, IsKept
  <2> QED BY <2>1, <2>2
<1> QED BY <1>1, <1>3, <1>4, <1>5 DEF Chained

LEMMA ChainStep == ChainInv /\ [SetNext]_queryVars => ChainInv'
<1> SUFFICES ASSUME ChainInv, [SetNext]_queryVars PROVE ChainInv'
  OBVIOUS
<1>1. query' = query
  BY DEF SetNext, Bind, TakeBranch, Finish, queryVars
<1>2. Chained(state', out')
  <2> DEFINE s == state'
             o == out'
  <2>1. CASE Bind
    BY <2>1, BindStep
  <2>2. CASE TakeBranch
    BY <2>2, TakeStep
  <2>3. CASE Finish
    BY <2>3, FinishStep
  <2>4. CASE UNCHANGED queryVars
    BY <2>4 DEF ChainInv, queryVars
  <2> QED BY <2>1, <2>2, <2>3, <2>4 DEF SetNext
<1> QED BY <1>1, <1>2, ChainNext

LEMMA ChainIsRight == ChainInv => SetOpsAreRight
<1> SUFFICES ASSUME ChainInv, InStep("done"), NoDuplicates, ForTheWhole, state.type # "DATE" PROVE IsAnswer(out)
  BY DEF SetOpsAreRight, IsAnswer
<1> DEFINE r == state.rows
           t == state.type
<1>1. /\ IsChain(query) /\ t \in ColumnTypes /\ IsPartial(r, Branches, t) /\ IsKept(out, r)
  BY DEF ChainInv, Chained, InStep, Judged
<1>2. IsCount(TimesAfter, t) /\ AllValues = ValuesAs(t) /\ Branches > 0
  <2>1. Branches \in Nat \ {0}
    BY <1>1, ChainType
  <2> QED BY <1>1, <2>1, TimesAfterIsCount
<1>3. r \in Seq(AllValues) /\ \A v \in AllValues : Times(r, v) = RightTimes(v)
  BY <1>1, <1>2 DEF IsPartial, RightTimes, Branches
<1>4. PICK z \in Sorted(r) : out = Trimmed(z)
  BY <1>1 DEF IsKept
<1> QED BY <1>1, <1>3, <1>4, AnswerOfRows

(* A chain of set operations gives each row as often as its operators say, *)
(* NULL like any value, in order and from OFFSET on, for any branches and  *)
(* any types that are not dates.                                           *)
THEOREM SetOperationsAreRight == SetSpec => []SetOpsAreRight
<1>1. SetInit => ChainInv
  BY ChainInit
<1>2. ChainInv /\ [SetNext]_queryVars => ChainInv'
  BY ChainStep
<1>3. ChainInv => SetOpsAreRight
  BY ChainIsRight
<1> QED BY <1>1, <1>2, <1>3, PTL DEF SetSpec
=============================================================================
