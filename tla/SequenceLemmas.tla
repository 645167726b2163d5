--------------------------- MODULE SequenceLemmas ---------------------------
(***************************************************************************)
(* Facts about data that the proofs of several components need: induction  *)
(* on a natural number, functions defined by recursion on one, and what    *)
(* FlattenSeq computes.                                                    *)
(*                                                                         *)
(* The induction principle is about a set, not about a predicate, and the  *)
(* step of a recursion is a function, not an operator: a proof that uses   *)
(* one names the set or the function with a local definition.              *)
(***************************************************************************)
EXTENDS Integers, Sequences, SequencesExt, WellFoundedInduction, SequenceTheorems, TLAPS

(* A set with 0 and with the successor of each of its numbers has all.     *)
LEMMA Induction ==
  ASSUME NEW S, 0 \in S, \A n \in Nat : n \in S => n + 1 \in S
  PROVE  \A n \in Nat : n \in S
<1> DEFINE T == Nat \ S
<1> SUFFICES ASSUME T # {} PROVE FALSE
  OBVIOUS
<1>1. PICK n \in T : \A m \in T : <<m, n>> \notin OpToRel(<, Nat)
  <2> T \subseteq Nat
    OBVIOUS
  <2> HIDE DEF T
  <2> QED BY NatLessThanWellFounded, WFMin
<1>2. n - 1 \in Nat /\ n - 1 < n
  OBVIOUS
<1>3. n - 1 \in T
  <2>1. n - 1 \in S => (n - 1) + 1 \in S
    BY <1>2
  <2> QED BY <1>2, <2>1
<1>4. <<n - 1, n>> \in OpToRel(<, Nat)
  BY <1>2 DEF OpToRel
<1> QED BY <1>1, <1>3, <1>4

(* A set with the empty sequence and with each of its sequences one longer *)
(* has all sequences.                                                      *)
LEMMA SequenceInduction ==
  ASSUME NEW T, NEW S, <<>> \in S,
         \A s \in Seq(T) : \A e \in T : s \in S => Append(s, e) \in S
  PROVE  \A s \in Seq(T) : s \in S
<1> DEFINE G == {n \in Nat : \A s \in Seq(T) : Len(s) = n => s \in S}
<1>1. 0 \in G
  <2>1. \A s \in Seq(T) : Len(s) = 0 => s = <<>>
    OBVIOUS
  <2> QED BY <2>1
<1>2. ASSUME NEW n \in Nat, n \in G PROVE n + 1 \in G
  <2> SUFFICES ASSUME NEW s \in Seq(T), Len(s) = n + 1 PROVE s \in S
    OBVIOUS
  <2> DEFINE front == SubSeq(s, 1, n)
  <2>1. front \in Seq(T) /\ Len(front) = n /\ s[n + 1] \in T /\ s = Append(front, s[n + 1])
    OBVIOUS
  <2>2. front \in S
    BY <1>2, <2>1
  <2> HIDE DEF front
  <2> QED BY <2>1, <2>2
<1>3. \A n \in Nat : n \in G
  <2> HIDE DEF G
  <2> QED BY <1>1, <1>2, Induction
<1> QED BY <1>3

(* A first value and the steps from one value to the next determine a      *)
(* function on 0 .. N.                                                     *)
Computes(f, first, step, S, N) ==
  f \in [0 .. N -> S] /\ f[0] = first /\ \A n \in 1 .. N : f[n] = step[n][f[n - 1]]

LEMMA Recursion ==
  ASSUME NEW S, NEW first \in S, NEW step \in [Nat -> [S -> S]], NEW N \in Nat
  PROVE  \E f : Computes(f, first, step, S, N)
<1> DEFINE P(m) == \E f \in [0 .. m -> S] :
                      f[0] = first /\ \A n \in 1 .. m : f[n] = step[n][f[n - 1]]
           G == {m \in Nat : P(m)}
<1>1. 0 \in G
  <2> DEFINE f == [i \in 0 .. 0 |-> first]
  <2>1. f \in [0 .. 0 -> S] /\ f[0] = first
    OBVIOUS
  <2>2. \A n \in 1 .. 0 : f[n] = step[n][f[n - 1]]
    OBVIOUS
  <2>3. P(0)
    <3> HIDE DEF f
    <3> QED BY <2>1, <2>2
  <2> QED BY <2>3
<1>2. ASSUME NEW m \in Nat, m \in G PROVE m + 1 \in G
  <2>1. PICK f \in [0 .. m -> S] : f[0] = first /\ \A n \in 1 .. m : f[n] = step[n][f[n - 1]]
    BY <1>2
  <2> DEFINE g == [i \in 0 .. m + 1 |-> IF i = m + 1 THEN step[m + 1][f[m]] ELSE f[i]]
  <2>2. g \in [0 .. m + 1 -> S]
    OBVIOUS
  <2>3. g[0] = first
    BY <2>1
  <2>4. ASSUME NEW n \in 1 .. m + 1 PROVE g[n] = step[n][g[n - 1]]
    <3>1. CASE n = m + 1
      BY <3>1
    <3>2. CASE n # m + 1
      BY <3>2, <2>1
    <3> QED BY <3>1, <3>2
  <2>5. P(m + 1)
    <3> HIDE DEF g
    <3> QED BY <2>2, <2>3, <2>4
  <2> QED BY <2>5
<1>3. \A m \in Nat : m \in G
  <2> HIDE DEF G
  <2> QED BY <1>1, <1>2, Induction
<1> QED BY <1>3 DEF Computes

-----------------------------------------------------------------------------
(* What FlattenSeq has put together after each sequence of sequences.      *)
IsFlattening(f, s) == /\ DOMAIN f = 0 .. Len(s) /\ f[0] = <<>>
                      /\ \A n \in 1 .. Len(s) : f[n] = f[n - 1] \o s[n]

LEMMA FlattenSteps ==
  ASSUME NEW T, NEW s \in Seq(Seq(T))
  PROVE  \E f \in [0 .. Len(s) -> Seq(T)] : IsFlattening(f, s) /\ FlattenSeq(s) = f[Len(s)]
<1> DEFINE S == Seq(T)
           N == Len(s)
           step == [n \in Nat |-> [p \in S |-> IF n \in 1 .. N THEN p \o s[n] ELSE p]]
<1>1. /\ N \in Nat /\ <<>> \in S /\ step \in [Nat -> [S -> S]]
      /\ \A n \in 1 .. N : s[n] \in S
  OBVIOUS
<1>2. PICK f : Computes(f, <<>>, step, S, N)
  <2> HIDE DEF step, N, S
  <2> QED BY <1>1, Recursion
<1> USE DEF Computes
<1>3. \A n \in 1 .. N : f[n] = f[n - 1] \o s[n]
  <2> SUFFICES ASSUME NEW n \in 1 .. N PROVE f[n] = f[n - 1] \o s[n]
    OBVIOUS
  <2>1. f[n - 1] \in S /\ n \in Nat
    <3>1. n - 1 \in 0 .. N /\ n \in Nat
      BY <1>1
    <3> HIDE DEF S, N
    <3> QED BY <1>2, <3>1
  <2> QED BY <1>2, <2>1
<1>4. CASE N = 0
  BY <1>2, <1>4 DEF FlattenSeq, IsFlattening
<1>5. CASE N # 0
  <2> DEFINE E(g) == [i \in 1 .. N |-> IF i = 1 THEN s[i] ELSE g[i - 1] \o s[i]]
             g == [i \in 1 .. N |-> f[i]]
             h == CHOOSE q : q = E(q)
  <2>1. f[1] = s[1] /\ 1 \in 1 .. N
    <3>1. 1 \in 1 .. N /\ f[1 - 1] = <<>> /\ 1 - 1 = 0
      BY <1>1, <1>2, <1>5
    <3>2. f[1] = <<>> \o s[1]
      BY <3>1, <1>3
    <3> QED BY <3>1, <3>2, <1>1
  <2>2. g = E(g)
    <3>1. ASSUME NEW i \in 1 .. N, i # 1 PROVE f[i] = g[i - 1] \o s[i]
      <4>1. i - 1 \in 1 .. N
        BY <1>1, <3>1
      <4> QED BY <4>1, <1>3
    <3> HIDE DEF N
    <3> QED BY <2>1, <3>1
  <2>3. h = E(h)
    BY <2>2
  <2>4. FlattenSeq(s) = h[N]
    BY <1>5 DEF FlattenSeq
  <2>5. h[1] = s[1] /\ \A i \in 1 .. N : i # 1 => h[i] = h[i - 1] \o s[i]
    <3> HIDE DEF N, h
    <3> QED BY <2>1, <2>3
  <2>6. h[N] = f[N]
    <3> HIDE DEF h, N
    <3> DEFINE G == {m \in Nat : m \in 1 .. N => h[m] = f[m]}
    <3>1. 0 \in G
      OBVIOUS
    <3>2. ASSUME NEW n \in Nat, n \in G PROVE n + 1 \in G
      <4> SUFFICES ASSUME n + 1 \in 1 .. N, n # 0 PROVE h[n + 1] = f[n + 1]
        BY <2>1, <2>5
      <4>1. n \in 1 .. N /\ n + 1 # 1 /\ (n + 1) - 1 = n
        BY <1>1
      <4> QED BY <4>1, <2>5, <3>2, <1>3
    <3>3. \A m \in Nat : m \in G
      <4> HIDE DEF G
      <4> QED BY <3>1, <3>2, Induction
    <3> QED BY <1>1, <1>5, <3>3
  <2> HIDE DEF h
  <2> QED BY <1>2, <1>3, <2>4, <2>6 DEF IsFlattening
<1> QED BY <1>4, <1>5, <1>1

LEMMA FlattenType ==
  ASSUME NEW T, NEW s \in Seq(Seq(T))
  PROVE  FlattenSeq(s) \in Seq(T)
<1>1. Len(s) \in 0 .. Len(s)
  OBVIOUS
<1> QED BY <1>1, FlattenSteps

LEMMA FlattenEmpty == FlattenSeq(<<>>) = <<>>
BY DEF FlattenSeq

(* One more sequence is put behind what the others make.                   *)
LEMMA FlattenAppend ==
  ASSUME NEW T, NEW s \in Seq(Seq(T)), NEW e \in Seq(T)
  PROVE  FlattenSeq(Append(s, e)) = FlattenSeq(s) \o e
<1> DEFINE t == Append(s, e)
           N == Len(s)
<1>1. /\ t \in Seq(Seq(T)) /\ Len(t) = N + 1 /\ N \in Nat
      /\ t[N + 1] = e /\ \A n \in 1 .. N : t[n] = s[n]
  OBVIOUS
<1> HIDE DEF t
<1>2. PICK f : IsFlattening(f, s) /\ FlattenSeq(s) = f[Len(s)]
  BY FlattenSteps
<1>3. PICK g : IsFlattening(g, t) /\ FlattenSeq(t) = g[Len(t)]
  BY <1>1, FlattenSteps
<1> HIDE DEF N
<1>4. f[0] = g[0] /\ \A n \in 1 .. N : f[n] = f[n - 1] \o s[n] /\ g[n] = g[n - 1] \o s[n]
  <2>1. f[0] = g[0] /\ \A n \in 1 .. N : f[n] = f[n - 1] \o s[n]
    BY <1>2, <1>3 DEF IsFlattening, N
  <2>2. ASSUME NEW n \in 1 .. N PROVE g[n] = g[n - 1] \o s[n]
    <3>1. n \in 1 .. Len(t) /\ t[n] = s[n]
      BY <1>1
    <3> QED BY <3>1, <1>3 DEF IsFlattening
  <2> QED BY <2>1, <2>2
<1>5. f[N] = g[N]
  <2> DEFINE G == {m \in Nat : m \in 0 .. N => f[m] = g[m]}
  <2>1. 0 \in G
    BY <1>4
  <2>2. ASSUME NEW n \in Nat, n \in G PROVE n + 1 \in G
    <3> SUFFICES ASSUME n + 1 \in 0 .. N PROVE f[n + 1] = g[n + 1]
      OBVIOUS
    <3>1. n \in 0 .. N /\ n + 1 \in 1 .. N /\ (n + 1) - 1 = n
      BY <1>1
    <3> QED BY <3>1, <2>2, <1>4
  <2>3. \A m \in Nat : m \in G
    <3> HIDE DEF G
    <3> QED BY <2>1, <2>2, Induction
  <2> QED BY <1>1, <2>3
<1>6. g[N + 1] = g[N] \o e
  <2>1. N + 1 \in 1 .. Len(t) /\ (N + 1) - 1 = N
    BY <1>1
  <2> QED BY <1>1, <1>3, <2>1 DEF IsFlattening
<1> QED BY <1>1, <1>2, <1>3, <1>5, <1>6 DEF t, N

(* What two sequences of sequences make is put together likewise.          *)
LEMMA FlattenConcat ==
  ASSUME NEW T, NEW s \in Seq(Seq(T)), NEW t \in Seq(Seq(T))
  PROVE  FlattenSeq(s \o t) = FlattenSeq(s) \o FlattenSeq(t)
<1> DEFINE Upto(n) == SubSeq(t, 1, n)
           G == {n \in Nat : n <= Len(t) => FlattenSeq(s \o Upto(n)) = FlattenSeq(s) \o FlattenSeq(Upto(n))}
<1>1. 0 \in G
  <2>1. Upto(0) = <<>> /\ s \o <<>> = s
    OBVIOUS
  <2>2. FlattenSeq(s) \o <<>> = FlattenSeq(s)
    BY FlattenType, ConcatEmptySeq
  <2>3. FlattenSeq(s \o Upto(0)) = FlattenSeq(s) \o FlattenSeq(Upto(0))
    BY <2>1, <2>2, FlattenEmpty
  <2> QED BY <2>3
<1>2. ASSUME NEW n \in Nat, n \in G PROVE n + 1 \in G
  <2> SUFFICES ASSUME n + 1 <= Len(t)
               PROVE  FlattenSeq(s \o Upto(n + 1)) = FlattenSeq(s) \o FlattenSeq(Upto(n + 1))
    OBVIOUS
  <2> DEFINE e == t[n + 1]
             u == Upto(n)
  <2>1. /\ u \in Seq(Seq(T)) /\ e \in Seq(T) /\ s \o u \in Seq(Seq(T))
        /\ Upto(n + 1) = Append(u, e) /\ s \o Append(u, e) = Append(s \o u, e)
    <3>1. n + 1 \in 1 .. Len(t) /\ Len(t) \in Nat
      OBVIOUS
    <3>2. u \in Seq(Seq(T)) /\ e \in Seq(T)
      BY <3>1
    <3>3. Upto(n + 1) = Append(u, e)
      BY <3>1
    <3> DEFINE Q == Seq(T)
    <3> HIDE DEF u, e, Q
    <3>4. s \in Seq(Q) /\ u \in Seq(Q) /\ e \in Q
      BY <3>2 DEF Q
    <3>5. s \o u \in Seq(Q) /\ s \o Append(u, e) = Append(s \o u, e)
      BY <3>4
    <3> QED BY <3>2, <3>3, <3>5 DEF Q
  <2>2. FlattenSeq(s \o u) = FlattenSeq(s) \o FlattenSeq(u)
    BY <1>2
  <2> HIDE DEF u, e, Upto
  <2>3. FlattenSeq(Append(s \o u, e)) = (FlattenSeq(s) \o FlattenSeq(u)) \o e
    BY <2>1, <2>2, FlattenAppend
  <2>4. FlattenSeq(Append(u, e)) = FlattenSeq(u) \o e
    BY <2>1, FlattenAppend
  <2>5. (FlattenSeq(s) \o FlattenSeq(u)) \o e = FlattenSeq(s) \o (FlattenSeq(u) \o e)
    <3>1. FlattenSeq(s) \in Seq(T) /\ FlattenSeq(u) \in Seq(T)
      BY <2>1, FlattenType
    <3> DEFINE a == FlattenSeq(s)
               b == FlattenSeq(u)
    <3>2. a \in Seq(T) /\ b \in Seq(T) /\ e \in Seq(T)
      BY <2>1, <3>1
    <3> HIDE DEF a, b
    <3>3. (a \o b) \o e = a \o (b \o e)
      BY <3>2, ConcatAssociative
    <3> QED BY <3>3 DEF a, b
  <2> QED BY <2>1, <2>3, <2>4, <2>5
<1>3. \A n \in Nat : n \in G
  <2> HIDE DEF G
  <2> QED BY <1>1, <1>2, Induction
<1>4. Upto(Len(t)) = t /\ Len(t) \in Nat
  OBVIOUS
<1>5. FlattenSeq(s \o Upto(Len(t))) = FlattenSeq(s) \o FlattenSeq(Upto(Len(t)))
  BY <1>3, <1>4
<1> HIDE DEF Upto, G
<1> QED BY <1>4, <1>5
=============================================================================
