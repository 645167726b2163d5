---------------------------- MODULE StorageProofs ----------------------------
(***************************************************************************)
(* What the database file promises to sessions that follow one another,    *)
(* for any number of processes, changes and crashes; what the format of    *)
(* one image promises, for any catalogs of any size, wherever the file is  *)
(* cut; and, for every number of scans and tasks, vector and group size:   *)
(* a table is a sequence of rows that grows at its end, sequential scans   *)
(* deliver it in order, and parallel scans give each row to one task.      *)
(***************************************************************************)
EXTENDS DatabaseFile, Checkpoint, DataTable, SequenceLemmas, FiniteSetTheorems

-----------------------------------------------------------------------------
(* The format                                                              *)

(* The tables that the file has all the fields of, before it is cut.       *)
Saved == DOMAIN source \ left
Size(n) == Len(source[n].rows)
LastField(at, n) == at[n] + 1 + Size(n)
Places == [Saved -> Nat]

IsSequence(s) == s \in Seq({s[i] : i \in DOMAIN s})

(* Each table has a place of its own, and there is nothing between them.   *)
Laid(at) ==
  /\ \A n \in Saved : at[n] >= 2
  /\ \A n, m \in Saved : n = m \/ LastField(at, n) < at[m] \/ LastField(at, m) < at[n]
  /\ \A i \in 2 .. Len(file) : \E n \in Saved : at[n] <= i /\ i <= LastField(at, n)

TableField(n)  == [is |-> "table", name |-> n, types |-> ColumnTypes(source[n])]
RowsField(n)   == [is |-> "rows", n |-> Size(n)]
RowField(n, r) == [is |-> "row",
                   cells |-> [i \in DOMAIN source[n].cols |->
                                WriteValue(source[n].cols[i].type, source[n].rows[r][i])]]

(* At the place of a table are its fields, as far as the file goes.        *)
Written(at) ==
  /\ IsSequence(file)
  /\ Len(file) >= 1 => file[1] = [is |-> "tables", n |-> Cardinality(DOMAIN source)]
  /\ \A n \in Saved :
       /\ at[n] <= Len(file) => file[at[n]] = TableField(n)
       /\ at[n] + 1 <= Len(file) => file[at[n] + 1] = RowsField(n)
       /\ \A r \in 1 .. Size(n) :
            at[n] + 1 + r <= Len(file) => file[at[n] + 1 + r] = RowField(n, r)

(* A file that lost its tail lacks a field or a table.                     *)
IsWhole(at) == Len(file) >= 1 /\ \A n \in Saved : LastField(at, n) <= Len(file)
Lacks(at) ==
  /\ lost => phase # "save" /\ (left # {} \/ ~IsWhole(at))
  /\ ~lost => IsWhole(at) /\ (phase # "save" => left = {})

(* pos is past the name of a table, and the rows before it have been read.  *)
Begun(at, n) ==
  /\ at[n] + 1 < pos
  /\ IF LastField(at, n) < pos THEN Len(loaded[n].rows) = Size(n)
     ELSE /\ counts.rows = LastField(at, n) + 1 - pos
          /\ Len(loaded[n].rows) = Size(n) - counts.rows

(* What has been read: the tables before pos and some rows of the last.    *)
Passed(at) ==
  /\ pos \in Nat \ {0} /\ pos <= Len(file) + 1
  /\ counts \in [tables : Int, rows : Nat]
  /\ DOMAIN loaded \subseteq Saved
  /\ pos = 1 => DOMAIN loaded = {} /\ counts.rows = 0
  /\ pos > 1 => counts.tables = Cardinality(DOMAIN source) - Cardinality(DOMAIN loaded)
  /\ \A n \in Saved \ DOMAIN loaded : at[n] >= pos
  /\ \A n \in DOMAIN loaded : Begun(at, n)
  /\ counts.rows > 0 => \E n \in DOMAIN loaded : LastField(at, n) + 1 = pos + counts.rows

(* A table read back so far.                                               *)
Copied(n) ==
  /\ loaded[n] = [NewTable(ColumnTypes(source[n])) EXCEPT !.rows = loaded[n].rows]
  /\ IsSequence(loaded[n].rows)
  /\ Plain(source[n]) => \A r \in 1 .. Len(loaded[n].rows) : loaded[n].rows[r] = source[n].rows[r]

Phases ==
  /\ phase \in {"save", "load", "loaded", "thrown"}
  /\ phase = "save" => pos = 1
  /\ phase = "loaded" => pos > 1 /\ counts.rows = 0 /\ counts.tables = 0
  /\ phase = "thrown" => lost \/ TooLarge

ImageInv ==
  /\ source \in Catalogs /\ left \subseteq DOMAIN source /\ lost \in BOOLEAN
  /\ Phases
  /\ \A n \in DOMAIN loaded : Copied(n)
  /\ \E at \in Places : Laid(at) /\ Written(at) /\ Lacks(at) /\ Passed(at)
-----------------------------------------------------------------------------
(* A number has its sign back, whether it was written as it is or without. *)
LEMMA SignComesBack ==
  ASSUME NEW n \in {256, 65536}, NEW v \in Int, HasWidth(v, n)
  PROVE  Signed(v, n) = v /\ Signed(v % n, n) = v
<1>1. PICK h \in Nat : n = h + h /\ h > 0
  <2>1. 256 = 128 + 128 /\ 65536 = 32768 + 32768
    OBVIOUS
  <2> QED BY <2>1
<1>2. n \in Nat \ {0} /\ n \div 2 = h
  <2>1. (h + h) \div 2 = h
    OBVIOUS
  <2> QED BY <2>1, <1>1
<1>3. -h <= v /\ v < h
  BY <1>2 DEF HasWidth
<1>4. ASSUME NEW x \in 0 .. n - 1 PROVE x % n = x /\ (x + n) % n = x
  BY <1>2
<1>5. (v + h) % n = v + h
  <2>1. v + h \in 0 .. n - 1
    BY <1>1, <1>3
  <2> QED BY <2>1, <1>4
<1>6. ((v % n) + h) % n = v + h
  <2>1. CASE v >= 0
    <3>1. v \in 0 .. n - 1
      BY <1>1, <1>3, <2>1
    <3> QED BY <3>1, <1>4, <1>5
  <2>2. CASE v < 0
    <3>1. v % n = v + n
      <4>1. v + n \in 0 .. n - 1
        BY <1>1, <1>3, <2>2
      <4> QED BY <4>1, <1>2
    <3>2. v + n + h = (v + h) + n /\ v + h \in 0 .. n - 1
      BY <1>1, <1>3
    <3> QED BY <3>1, <3>2, <1>4
  <2> QED BY <2>1, <2>2
<1> QED BY <1>2, <1>5, <1>6, <1>1 DEF Signed

(* A value that fits its type is read back as the value that was written,  *)
(* if the type is one the format knows.                                    *)
LEMMA ValueComesBack ==
  ASSUME NEW t \in Encoded, NEW v \in Int \cup {Null}, Fits(t, v)
  PROVE  Restored(t, v) = {v}
<1> USE DEF Encoded, Restored
<1>1. ReadMember(t) = PhysicalType[t]
  BY DEF ReadMember
<1>2. CASE v = Null
  <2>1. WriteValue(t, v) = <<"null">>
    BY <1>2 DEF WriteValue
  <2>2. ReadValue(t, WriteValue(t, v)) = Null
    BY <2>1 DEF ReadValue
  <2> QED BY <2>2, <1>2 DEF SetValue
<1>3. CASE v # Null
  <2>1. WriteValue(t, v) # <<"null">>
    BY <1>3 DEF WriteValue
  <2>2. ReadValue(t, WriteValue(t, v)) = v
    <3>1. CASE t = "BOOLEAN"
      <4>1. v \in {0, 1} /\ WriteValue(t, v) = <<"u8", v>>
        BY <1>3, <3>1 DEF WriteValue, Fits
      <4> QED BY <4>1, <2>1, <3>1 DEF ReadValue
    <3>2. CASE t = "TINYINT"
      <4>1. WriteValue(t, v) = <<"u8", v % 256>>
        BY <1>3, <3>2 DEF WriteValue, Unsigned
      <4>2. ReadValue(t, WriteValue(t, v)) = Signed(v % 256, 256)
        BY <4>1, <2>1, <3>2 DEF ReadValue
      <4>3. HasWidth(v, 256) /\ v \in Int
        BY <1>3, <3>2 DEF Fits
      <4> QED BY <4>2, <4>3, SignComesBack
    <3>3. CASE t = "SMALLINT"
      <4>1. WriteValue(t, v) = <<"bytes", v>>
        BY <1>3, <3>3 DEF WriteValue
      <4>2. ReadValue(t, WriteValue(t, v)) = Signed(v, 65536)
        BY <4>1, <2>1, <3>3 DEF ReadValue
      <4>3. HasWidth(v, 65536) /\ v \in Int
        BY <1>3, <3>3 DEF Fits
      <4> QED BY <4>2, <4>3, SignComesBack
    <3>4. CASE t \notin {"BOOLEAN", "TINYINT", "SMALLINT"}
      <4>1. WriteValue(t, v) = <<"bytes", v>>
        BY <1>3, <3>4 DEF WriteValue
      <4> QED BY <4>1, <2>1, <3>4 DEF ReadValue
    <3> QED BY <3>1, <3>2, <3>3, <3>4
  <2> QED BY <2>2, <1>1, <1>3 DEF SetValue
<1> QED BY <1>2, <1>3

(* u is t put after s.                                                     *)
IsJoin(u, s, t) ==
  /\ IsSequence(u) /\ Len(s) \in Nat /\ Len(t) \in Nat /\ Len(u) = Len(s) + Len(t)
  /\ \A i \in 1 .. Len(s) : u[i] = s[i]
  /\ \A i \in 1 .. Len(t) : u[Len(s) + i] = t[i]

LEMMA Joined ==
  ASSUME NEW s, NEW t, IsSequence(s), IsSequence(t)
  PROVE  IsJoin(s \o t, s, t)
<1> DEFINE S == {s[i] : i \in DOMAIN s} \cup {t[i] : i \in DOMAIN t}
           u == s \o t
<1>1. s \in Seq(S) /\ t \in Seq(S)
  <2>1. s \in Seq({s[i] : i \in DOMAIN s}) /\ t \in Seq({t[i] : i \in DOMAIN t})
    BY DEF IsSequence
  <2> QED BY <2>1
<1> HIDE DEF S
<1>2. /\ u \in Seq(S) /\ Len(u) = Len(s) + Len(t) /\ Len(s) \in Nat /\ Len(t) \in Nat
      /\ \A i \in 1 .. Len(s) : u[i] = s[i]
      /\ \A i \in 1 .. Len(t) : u[Len(s) + i] = t[i]
  BY <1>1
<1> HIDE DEF u
<1>3. u \in Seq({u[i] : i \in DOMAIN u})
  BY <1>2
<1>4. IsSequence(u)
  BY <1>3 DEF IsSequence
<1>5. IsJoin(u, s, t)
  BY <1>2, <1>4 DEF IsJoin
<1> QED BY <1>5 DEF u

(* So is what is left of one, and one with an element more.                *)
LEMMA Cut ==
  ASSUME NEW s, IsSequence(s), NEW k \in 0 .. Len(s)
  PROVE  /\ IsSequence(SubSeq(s, 1, k)) /\ Len(SubSeq(s, 1, k)) = k
         /\ \A i \in 1 .. k : SubSeq(s, 1, k)[i] = s[i]
<1> DEFINE S == {s[i] : i \in DOMAIN s}
           u == SubSeq(s, 1, k)
<1>1. s \in Seq(S)
  BY DEF IsSequence
<1>2. u \in Seq(S) /\ Len(u) = k /\ \A i \in 1 .. k : u[i] = s[i]
  <2> HIDE DEF S
  <2> QED BY <1>1
<1> HIDE DEF u, S
<1>3. u \in Seq({u[i] : i \in DOMAIN u})
  BY <1>2
<1>4. IsSequence(u)
  BY <1>3 DEF IsSequence
<1> QED BY <1>2, <1>4 DEF u

LEMMA Longer ==
  ASSUME NEW s, IsSequence(s), NEW e
  PROVE  /\ IsSequence(Append(s, e)) /\ Len(s) \in Nat /\ Len(Append(s, e)) = Len(s) + 1
         /\ \A i \in 1 .. Len(s) : Append(s, e)[i] = s[i]
         /\ Append(s, e)[Len(s) + 1] = e
<1> DEFINE S == {s[i] : i \in DOMAIN s} \cup {e}
           u == Append(s, e)
<1>1. s \in Seq(S) /\ e \in S
  <2>1. s \in Seq({s[i] : i \in DOMAIN s})
    BY DEF IsSequence
  <2> QED BY <2>1
<1>2. u \in Seq(S) /\ Len(u) = Len(s) + 1 /\ (\A i \in 1 .. Len(s) : u[i] = s[i]) /\ u[Len(s) + 1] = e
  <2> HIDE DEF S
  <2> QED BY <1>1
<1>3. Len(s) \in Nat
  BY <1>1
<1> HIDE DEF u, S
<1>4. u \in Seq({u[i] : i \in DOMAIN u})
  BY <1>2
<1>5. IsSequence(u)
  BY <1>4 DEF IsSequence
<1> QED BY <1>2, <1>3, <1>5 DEF u

(* A table that may be saved.                                              *)
LEMMA SourceType ==
  ASSUME source \in Catalogs
  PROVE  /\ IsFiniteSet(DOMAIN source)
         /\ \A n \in DOMAIN source :
              IsTable(source[n]) /\ Size(n) \in Nat /\ IsSequence(source[n].rows)
<1>1. IsFiniteSet(DOMAIN source) /\ \A n \in DOMAIN source : IsTable(source[n])
  BY CheckpointAssumption
<1>2. ASSUME NEW n \in DOMAIN source
      PROVE  Size(n) \in Nat /\ IsSequence(source[n].rows)
  <2> DEFINE rows == source[n].rows
             S == Seq(Int \cup {Null})
  <2>1. rows \in Seq(S)
    BY <1>1, <1>2 DEF IsTable
  <2>2. Len(rows) \in Nat /\ IsSequence(rows)
    <3> HIDE DEF rows, S
    <3> QED BY <2>1 DEF IsSequence
  <2> QED BY <2>2 DEF Size
<1> QED BY <1>1, <1>2

(* What SaveTable adds to the file.                                        *)
LEMMA FieldsOf ==
  ASSUME source \in Catalogs, NEW n \in DOMAIN source
  PROVE  /\ IsSequence(Fields(n)) /\ Len(Fields(n)) = Size(n) + 2
         /\ Fields(n)[1] = TableField(n) /\ Fields(n)[2] = RowsField(n)
         /\ \A r \in 1 .. Size(n) : Fields(n)[r + 2] = RowField(n, r)
<1> DEFINE s == <<TableField(n), RowsField(n)>>
           t == [r \in DOMAIN source[n].rows |-> RowField(n, r)]
<1>1. Size(n) \in Nat /\ DOMAIN source[n].rows = 1 .. Size(n)
  <2> DEFINE rows == source[n].rows
  <2>1. IsSequence(rows) /\ Size(n) = Len(rows)
    BY SourceType DEF Size
  <2> HIDE DEF rows
  <2>2. Len(rows) \in Nat /\ DOMAIN rows = 1 .. Len(rows)
    BY <2>1 DEF IsSequence
  <2> QED BY <2>1, <2>2 DEF rows
<1>2. IsSequence(s) /\ Len(s) = 2 /\ s[1] = TableField(n) /\ s[2] = RowsField(n)
  BY DEF IsSequence
<1>3. IsSequence(t) /\ Len(t) = Size(n)
  <2>1. t = [r \in 1 .. Size(n) |-> RowField(n, r)]
    BY <1>1
  <2> QED BY <1>1, <2>1 DEF IsSequence
<1>4. \A r \in 1 .. Size(n) : t[r] = RowField(n, r)
  BY <1>1
<1>5. Fields(n) = s \o t
  BY DEF Fields, Size, TableField, RowsField, RowField
<1> HIDE DEF s, t
<1>6. IsJoin(s \o t, s, t)
  BY <1>2, <1>3, Joined
<1>7. IsJoin(Fields(n), s, t)
  BY <1>5, <1>6
<1>8. /\ IsSequence(Fields(n)) /\ Len(Fields(n)) = Size(n) + 2
      /\ Fields(n)[1] = s[1] /\ Fields(n)[2] = s[2]
  BY <1>1, <1>2, <1>3, <1>7 DEF IsJoin
<1>9. ASSUME NEW r \in 1 .. Size(n) PROVE Fields(n)[r + 2] = RowField(n, r)
  <2>1. r + 2 = 2 + r
    BY <1>1
  <2>2. Fields(n)[2 + r] = t[r]
    BY <1>2, <1>3, <1>7 DEF IsJoin
  <2> QED BY <2>1, <2>2, <1>4
<1> QED BY <1>2, <1>8, <1>9

(* At first the file holds the number of tables.                           *)
LEMMA InitImage == CheckpointInit => ImageInv
<1> SUFFICES ASSUME CheckpointInit PROVE ImageInv
  OBVIOUS
<1> USE DEF CheckpointInit
<1>1. Saved = {} /\ Len(file) = 1 /\ IsSequence(file) /\ DOMAIN loaded = {}
  BY DEF Saved, IsSequence
<1> DEFINE at == [n \in Saved |-> 2]
<1>2. at \in Places
  BY DEF Places
<1>3. Laid(at) /\ Written(at) /\ Lacks(at) /\ Passed(at)
  <2> HIDE DEF at
  <2>1. Laid(at)
    BY <1>1 DEF Laid
  <2>2. Written(at)
    BY <1>1 DEF Written
  <2>3. Lacks(at)
    BY <1>1 DEF Lacks, IsWhole
  <2>4. Passed(at)
    BY <1>1 DEF Passed
  <2> QED BY <2>1, <2>2, <2>3, <2>4
<1>4. Phases
  BY DEF Phases
<1>5. \E p \in Places : Laid(p) /\ Written(p) /\ Lacks(p) /\ Passed(p)
  <2> HIDE DEF at
  <2> QED BY <1>2, <1>3
<1> QED BY <1>1, <1>4, <1>5 DEF ImageInv

(* SaveTable adds the fields of one more table at the end.                 *)
LEMMA SaveTableImage ==
  ASSUME ImageInv, NEW n \in left, SaveTable(n)
  PROVE  ImageInv'
<1> USE DEF SaveTable
<1>0. /\ source \in Catalogs /\ left \subseteq DOMAIN source /\ lost \in BOOLEAN
      /\ Phases /\ \A m \in DOMAIN loaded : Copied(m)
  BY DEF ImageInv
<1>1. PICK at \in Places : Laid(at) /\ Written(at) /\ Lacks(at) /\ Passed(at)
  BY DEF ImageInv
<1>2. ~lost /\ pos = 1 /\ DOMAIN loaded = {} /\ IsWhole(at)
  BY <1>0, <1>1 DEF Lacks, Passed, Phases
<1>3. Saved' = Saved \cup {n} /\ n \notin Saved /\ n \in DOMAIN source
  BY <1>0 DEF Saved
<1> DEFINE N == Len(file)
<1>4. \A m \in DOMAIN source : Size(m) \in Nat /\ Size(m)' = Size(m)
  BY <1>0, SourceType DEF Size
<1>5. /\ IsSequence(file') /\ Len(file') = N + Size(n) + 2 /\ N \in Nat /\ N >= 1
      /\ \A i \in 1 .. N : file'[i] = file[i]
      /\ file'[N + 1] = TableField(n) /\ file'[N + 2] = RowsField(n)
      /\ \A r \in 1 .. Size(n) : file'[N + 2 + r] = RowField(n, r)
  <2> DEFINE t == Fields(n)
  <2>1. /\ IsSequence(t) /\ Len(t) = Size(n) + 2 /\ t[1] = TableField(n) /\ t[2] = RowsField(n)
        /\ \A r \in 1 .. Size(n) : t[r + 2] = RowField(n, r)
    BY <1>0, <1>3, FieldsOf
  <2>2. file' = file \o t /\ IsSequence(file)
    BY <1>1 DEF Written
  <2> HIDE DEF t
  <2>0. IsJoin(file \o t, file, t)
    BY <2>1, <2>2, Joined
  <2>3. /\ IsSequence(file') /\ Len(file') = Len(file) + Len(t)
        /\ Len(file) \in Nat /\ Len(t) \in Nat
        /\ \A i \in 1 .. Len(file) : file'[i] = file[i]
        /\ \A i \in 1 .. Len(t) : file'[Len(file) + i] = t[i]
    <3>1. IsJoin(file', file, t)
      BY <2>0, <2>2
    <3> QED BY <3>1 DEF IsJoin
  <2>4. N >= 1
    BY <1>2 DEF IsWhole
  <2>5. Size(n) \in Nat /\ N \in Nat
    BY <1>3, <1>4, <2>3
  <2>6. file'[N + 1] = t[1] /\ file'[N + 2] = t[2]
    <3>1. 1 \in 1 .. Len(t) /\ 2 \in 1 .. Len(t)
      BY <2>1, <2>5
    <3> QED BY <2>2, <2>3, <3>1
  <2>7. ASSUME NEW r \in 1 .. Size(n) PROVE file'[N + 2 + r] = RowField(n, r)
    <3>1. r + 2 \in 1 .. Len(t) /\ N + (r + 2) = N + 2 + r
      BY <2>1, <2>5
    <3>2. file'[N + (r + 2)] = t[r + 2]
      BY <2>3, <3>1
    <3> QED BY <2>1, <2>2, <3>1, <3>2
  <2>8. Len(file') = N + Size(n) + 2
    BY <2>1, <2>2, <2>3, <2>5
  <2> QED BY <2>1, <2>2, <2>3, <2>4, <2>5, <2>6, <2>7, <2>8
<1>6. PICK place \in [Saved' -> Nat] :
        place[n] = N + 1 /\ \A m \in Saved : place[m] = at[m] /\ at[m] \in Nat
  <2> DEFINE f == [m \in Saved' |-> IF m = n THEN N + 1 ELSE at[m]]
  <2>1. f \in [Saved' -> Nat] /\ f[n] = N + 1 /\ \A m \in Saved : f[m] = at[m] /\ at[m] \in Nat
    BY <1>1, <1>3, <1>5 DEF Places
  <2> HIDE DEF f
  <2> QED BY <2>1
<1>7. /\ LastField(place, n)' = N + Size(n) + 2
      /\ \A m \in Saved : LastField(place, m)' = LastField(at, m) /\ LastField(at, m) \in Nat /\ LastField(at, m) <= N
                         /\ at[m] >= 2 /\ at[m] < LastField(at, m)
  <2>1. ASSUME NEW m \in Saved
        PROVE  LastField(place, m)' = LastField(at, m) /\ LastField(at, m) \in Nat /\ LastField(at, m) <= N
               /\ at[m] >= 2 /\ at[m] < LastField(at, m)
    <3>1. Size(m)' = Size(m) /\ Size(m) \in Nat /\ place[m] = at[m] /\ at[m] \in Nat
      BY <1>4, <1>6 DEF Saved
    <3>2. LastField(at, m) <= N /\ at[m] >= 2
      BY <1>1, <1>2 DEF IsWhole, Laid
    <3> QED BY <3>1, <3>2 DEF LastField
  <2>2. LastField(place, n)' = N + Size(n) + 2
    BY <1>3, <1>4, <1>5, <1>6 DEF LastField
  <2> QED BY <2>1, <2>2
<1>8. Laid(place)'
  <2>1. \A m \in Saved' : place[m] >= 2
    BY SMTT(40), <1>3, <1>5, <1>6, <1>7
  <2>2. ASSUME NEW l \in Saved', NEW m \in Saved'
        PROVE  l = m \/ LastField(place, l)' < place[m] \/ LastField(place, m)' < place[l]
    <3>1. CASE l = n /\ m = n
      BY <3>1
    <3>2. CASE l \in Saved /\ m = n
      BY <3>2, <1>5, <1>6, <1>7
    <3>3. CASE l = n /\ m \in Saved
      BY <3>3, <1>5, <1>6, <1>7
    <3>4. CASE l \in Saved /\ m \in Saved
      <4>1. l = m \/ LastField(at, l) < at[m] \/ LastField(at, m) < at[l]
        BY <1>1, <3>4 DEF Laid
      <4> QED BY <4>1, <3>4, <1>6, <1>7
    <3> QED BY <1>3, <3>1, <3>2, <3>3, <3>4
  <2>3. ASSUME NEW i \in 2 .. Len(file')
        PROVE  \E m \in Saved' : place[m] <= i /\ i <= LastField(place, m)'
    <3>1. CASE i <= N
      <4>1. PICK m \in Saved : at[m] <= i /\ i <= LastField(at, m)
        BY <1>1, <1>5, <3>1 DEF Laid
      <4> QED BY <4>1, <1>3, <1>6, <1>7
    <3>2. CASE i > N
      <4>1. Size(n) \in Nat
        BY <1>3, <1>4
      <4>2. place[n] <= i /\ i <= LastField(place, n)'
        BY <1>5, <1>6, <1>7, <3>2, <4>1
      <4> QED BY <4>2, <1>3
    <3> QED BY <3>1, <3>2, <1>5
  <2> QED BY <2>1, <2>2, <2>3 DEF Laid
<1>9. /\ \A m \in DOMAIN source : TableField(m)' = TableField(m) /\ RowsField(m)' = RowsField(m)
      /\ \A m \in DOMAIN source : \A r : RowField(m, r)' = RowField(m, r)
  BY <1>4 DEF TableField, RowsField, RowField, Size
<1>10. Written(place)'
  <2>1. file'[1] = [is |-> "tables", n |-> Cardinality(DOMAIN source)]
    BY <1>1, <1>5 DEF Written
  <2>2. ASSUME NEW m \in Saved'
        PROVE  /\ file'[place[m]] = TableField(m)'
               /\ file'[place[m] + 1] = RowsField(m)'
               /\ \A r \in 1 .. Size(m)' : file'[place[m] + 1 + r] = RowField(m, r)'
    <3>1. CASE m = n
      <4>1. place[m] = N + 1 /\ Size(m)' = Size(n) /\ N \in Nat
        BY <3>1, <1>3, <1>4, <1>5, <1>6
      <4>2. place[m] + 1 = N + 2 /\ \A r \in 1 .. Size(n) : place[m] + 1 + r = N + 2 + r
        BY <4>1
      <4>3. TableField(m)' = TableField(n) /\ RowsField(m)' = RowsField(n)
            /\ \A r : RowField(m, r)' = RowField(n, r)
        BY <3>1, <1>3, <1>9
      <4>4. file'[place[m]] = TableField(n) /\ file'[place[m] + 1] = RowsField(n)
        BY <4>1, <4>2, <1>5
      <4>5. ASSUME NEW r \in 1 .. Size(n) PROVE file'[place[m] + 1 + r] = RowField(n, r)
        BY <4>2, <1>5
      <4> QED BY <4>1, <4>3, <4>4, <4>5
    <3>2. CASE m \in Saved
      <4>0. m \in DOMAIN source
        BY <3>2 DEF Saved
      <4>1. place[m] = at[m] /\ at[m] \in Nat /\ at[m] >= 2 /\ Size(m) \in Nat /\ Size(m)' = Size(m)
            /\ at[m] + 1 + Size(m) <= N
        BY <3>2, <4>0, <1>4, <1>6, <1>7 DEF LastField
      <4>2. /\ file[at[m]] = TableField(m) /\ file[at[m] + 1] = RowsField(m)
            /\ \A r \in 1 .. Size(m) : file[at[m] + 1 + r] = RowField(m, r)
        <5>1. at[m] <= Len(file) /\ at[m] + 1 <= Len(file)
              /\ \A r \in 1 .. Size(m) : at[m] + 1 + r <= Len(file)
          BY <4>1, <1>5
        <5> QED BY <5>1, <3>2, <1>1 DEF Written
      <4>3. at[m] \in 1 .. N /\ at[m] + 1 \in 1 .. N
            /\ \A r \in 1 .. Size(m) : at[m] + 1 + r \in 1 .. N
        <5>1. N \in Nat
          BY <1>5
        <5> HIDE DEF N
        <5>2. ASSUME NEW r \in 1 .. Size(m) PROVE at[m] + 1 + r \in 1 .. N
          BY <4>1, <5>1
        <5>3. at[m] \in 1 .. N /\ at[m] + 1 \in 1 .. N
          BY <4>1, <5>1
        <5> QED BY <5>2, <5>3
      <4> QED BY <4>0, <4>1, <4>2, <4>3, <1>5, <1>9
    <3> QED BY <3>1, <3>2, <1>3
  <2> QED BY <1>5, <2>1, <2>2 DEF Written
<1>11. Lacks(place)'
  <2>1. Len(file') >= 1 /\ \A m \in Saved' : LastField(place, m)' <= Len(file')
    <3>1. Size(n) \in Nat
      BY <1>3, <1>4
    <3> QED BY <3>1, <1>3, <1>5, <1>7
  <2> QED BY <2>1, <1>2 DEF Lacks, IsWhole
<1>12. Passed(place)'
  <2>1. pos' = 1 /\ DOMAIN loaded' = {} /\ counts' = counts
    BY <1>2
  <2>2. \A m \in Saved' : place[m] >= 1
    BY <1>8, <1>6, <1>3, <1>5 DEF Laid
  <2>3. counts \in [tables : Int, rows : Nat] /\ counts.rows = 0
    BY <1>1, <1>2 DEF Passed
  <2>4. Len(file') >= 0 /\ Len(file') \in Nat
    BY <1>3, <1>4, <1>5
  <2> QED BY <2>1, <2>2, <2>3, <2>4 DEF Passed
<1>13. Phases' /\ \A m \in DOMAIN loaded' : Copied(m)'
  BY <1>0, <1>2 DEF Phases
<1> QED
  <2>1. \E p \in [Saved' -> Nat] : Laid(p)' /\ Written(p)' /\ Lacks(p)' /\ Passed(p)'
    BY <1>8, <1>10, <1>11, <1>12
  <2>2. (\E p \in Places : Laid(p) /\ Written(p) /\ Lacks(p) /\ Passed(p))'
    BY <2>1 DEF Places
  <2>3. source' \in Catalogs /\ left' \subseteq DOMAIN source' /\ lost' \in BOOLEAN
    BY <1>0
  <2> QED BY <1>13, <2>2, <2>3 DEF ImageInv

(* Load leaves the file and the layout alone.                              *)
LEMMA LoadKeepsFile ==
  ASSUME UNCHANGED <<source, left, file, lost>>, phase # "save", phase' # "save",
         NEW at \in Places, Laid(at), Written(at), Lacks(at)
  PROVE  at \in Places' /\ Laid(at)' /\ Written(at)' /\ Lacks(at)'
<1>1. Saved' = Saved /\ Places' = Places
  BY DEF Saved, Places
<1>2. \A n : Size(n)' = Size(n) /\ LastField(at, n)' = LastField(at, n)
  BY DEF Size, LastField
<1>3. \A n, r : TableField(n)' = TableField(n) /\ RowsField(n)' = RowsField(n)
                /\ RowField(n, r)' = RowField(n, r)
  BY DEF TableField, RowsField, RowField, Size
<1>4. Laid(at)'
  BY <1>1, <1>2 DEF Laid
<1>5. Written(at)'
  BY <1>1, <1>2, <1>3 DEF Written
<1>6. Lacks(at)'
  BY <1>1, <1>2 DEF Lacks, IsWhole
<1> QED BY <1>1, <1>4, <1>5, <1>6

(* The places as numbers.                                                  *)
LEMMA PlaceType ==
  ASSUME source \in Catalogs, NEW at \in Places, Laid(at), Written(at)
  PROVE  /\ Len(file) \in Nat /\ DOMAIN file = 1 .. Len(file)
         /\ Saved \subseteq DOMAIN source
         /\ \A n \in Saved : /\ at[n] \in Nat /\ at[n] >= 2 /\ Size(n) \in Nat
                             /\ LastField(at, n) = at[n] + 1 + Size(n) /\ LastField(at, n) \in Nat
<1>1. Len(file) \in Nat /\ DOMAIN file = 1 .. Len(file)
  BY DEF Written, IsSequence
<1>2. Saved \subseteq DOMAIN source
  BY DEF Saved
<1>3. ASSUME NEW n \in Saved
      PROVE  /\ at[n] \in Nat /\ at[n] >= 2 /\ Size(n) \in Nat
             /\ LastField(at, n) = at[n] + 1 + Size(n) /\ LastField(at, n) \in Nat
  <2>1. Size(n) \in Nat
    BY <1>2, SourceType
  <2>2. at[n] \in Nat /\ at[n] >= 2
    BY DEF Places, Laid
  <2> QED BY <2>1, <2>2 DEF LastField
<1> QED BY <1>1, <1>2, <1>3

(* Between two tables the next field, if there is one, begins a table that *)
(* has not been read.                                                      *)
LEMMA NextTable ==
  ASSUME source \in Catalogs, NEW at \in Places, Laid(at), Written(at), Passed(at),
         pos > 1, counts.rows = 0
  PROVE  /\ \A n \in DOMAIN loaded : LastField(at, n) < pos
         /\ pos \in DOMAIN file => \E n \in Saved \ DOMAIN loaded : at[n] = pos
<1> USE PlaceType
<1>1. pos \in Nat /\ pos <= Len(file) + 1 /\ DOMAIN loaded \subseteq Saved
      /\ \A n \in Saved \ DOMAIN loaded : at[n] >= pos
  BY DEF Passed
<1>2. ASSUME NEW n \in DOMAIN loaded PROVE LastField(at, n) < pos
  <2>1. LastField(at, n) \in Nat
    BY <1>1
  <2>2. LastField(at, n) < pos \/ counts.rows = LastField(at, n) + 1 - pos
    BY DEF Passed, Begun
  <2> QED BY <2>1, <2>2, <1>1
<1>3. ASSUME pos \in DOMAIN file PROVE \E n \in Saved \ DOMAIN loaded : at[n] = pos
  <2>1. pos \in 2 .. Len(file)
    BY <1>1, <1>3
  <2>2. PICK n \in Saved : at[n] <= pos /\ pos <= LastField(at, n)
    BY <2>1 DEF Laid
  <2>3. n \notin DOMAIN loaded
    <3>1. LastField(at, n) \in Nat
      OBVIOUS
    <3> QED BY <2>2, <3>1, <1>1, <1>2
  <2>4. at[n] >= pos /\ at[n] \in Nat
    BY <1>1, <2>3
  <2> QED BY <1>1, <2>2, <2>3, <2>4
<1> QED BY <1>2, <1>3

(* Save returns, or the file loses its tail.                               *)
LEMMA ReopenImage ==
  ASSUME ImageInv, Reopen
  PROVE  ImageInv'
<1> USE DEF Reopen
<1>0. /\ source \in Catalogs /\ left \subseteq DOMAIN source /\ lost \in BOOLEAN
      /\ Phases /\ \A m \in DOMAIN loaded : Copied(m)
  BY DEF ImageInv
<1>1. PICK at \in Places : Laid(at) /\ Written(at) /\ Lacks(at) /\ Passed(at)
  BY DEF ImageInv
<1>2. ~lost /\ pos = 1 /\ DOMAIN loaded = {} /\ IsWhole(at) /\ counts.rows = 0
  BY <1>0, <1>1 DEF Lacks, Passed, Phases
<1>3. Saved' = Saved /\ Places' = Places
  BY DEF Saved, Places
<1>4. \A n : Size(n)' = Size(n) /\ LastField(at, n)' = LastField(at, n)
  BY DEF Size, LastField
<1>5. \A n, r : TableField(n)' = TableField(n) /\ RowsField(n)' = RowsField(n)
                /\ RowField(n, r)' = RowField(n, r)
  BY DEF TableField, RowsField, RowField, Size
<1>6. /\ IsSequence(file') /\ Len(file) \in Nat /\ Len(file') \in Nat /\ Len(file') <= Len(file)
      /\ \A i \in 1 .. Len(file') : file'[i] = file[i]
      /\ IF lost' THEN left # {} \/ Len(file') < Len(file) ELSE left = {} /\ file' = file
      /\ lost' \in BOOLEAN
  <2>0. IsSequence(file) /\ Len(file) \in Nat
    BY <1>0, <1>1, PlaceType DEF Written
  <2>1. CASE left = {} /\ UNCHANGED <<file, lost>>
    <3>1. file' = file /\ left = {} /\ lost' = lost
      BY <2>1
    <3>2. ~lost' /\ lost' \in BOOLEAN
      BY <3>1, <1>0, <1>2
    <3> QED BY <3>1, <3>2, <2>0
  <2>2. ASSUME NEW k \in 0 .. Len(file), k < Len(file) \/ left # {},
               file' = SubSeq(file, 1, k), lost' = TRUE
        PROVE  /\ IsSequence(file') /\ Len(file) \in Nat /\ Len(file') \in Nat /\ Len(file') <= Len(file)
               /\ \A i \in 1 .. Len(file') : file'[i] = file[i]
               /\ IF lost' THEN left # {} \/ Len(file') < Len(file) ELSE left = {} /\ file' = file
               /\ lost' \in BOOLEAN
    BY <2>0, <2>2, Cut
  <2> QED BY <2>1, <2>2
<1>7. Laid(at)'
  BY <1>1, <1>3, <1>4, <1>6 DEF Laid
<1>8. Written(at)'
  <2>1. Len(file') >= 1 => file'[1] = [is |-> "tables", n |-> Cardinality(DOMAIN source)]
    BY <1>1, <1>6 DEF Written
  <2>2. ASSUME NEW n \in Saved
        PROVE  /\ at[n] <= Len(file') => file'[at[n]] = TableField(n)
               /\ at[n] + 1 <= Len(file') => file'[at[n] + 1] = RowsField(n)
               /\ \A r \in 1 .. Size(n) :
                    at[n] + 1 + r <= Len(file') => file'[at[n] + 1 + r] = RowField(n, r)
    <3>1. at[n] \in Nat /\ at[n] >= 2 /\ Size(n) \in Nat
      BY <1>0, <1>1, PlaceType
    <3>2. ASSUME at[n] <= Len(file') PROVE file'[at[n]] = TableField(n)
      BY <3>1, <3>2, <1>1, <1>6 DEF Written
    <3>3. ASSUME at[n] + 1 <= Len(file') PROVE file'[at[n] + 1] = RowsField(n)
      BY <3>1, <3>3, <1>1, <1>6 DEF Written
    <3>4. ASSUME NEW r \in 1 .. Size(n), at[n] + 1 + r <= Len(file')
          PROVE  file'[at[n] + 1 + r] = RowField(n, r)
      <4>1. at[n] + 1 + r \in 1 .. Len(file') /\ at[n] + 1 + r <= Len(file)
        BY <3>1, <3>4, <1>6
      <4>2. file[at[n] + 1 + r] = RowField(n, r)
        BY <4>1, <1>1 DEF Written
      <4> QED BY <4>1, <4>2, <1>6
    <3> QED BY <3>2, <3>3, <3>4
  <2> QED BY <1>3, <1>4, <1>5, <1>6, <2>1, <2>2 DEF Written
<1>9. Lacks(at)'
  <2>1. CASE ~lost'
    BY <2>1, <1>2, <1>3, <1>4, <1>6 DEF Lacks, IsWhole
  <2>2. CASE lost' /\ left # {}
    BY <2>2, <1>6 DEF Lacks
  <2>3. CASE lost' /\ Len(file') < Len(file)
    <3>1. CASE Len(file') = 0
      BY <2>3, <3>1 DEF Lacks, IsWhole
    <3>2. CASE Len(file') >= 1
      <4>1. Len(file) \in 2 .. Len(file)
        BY <1>6, <2>3, <3>2
      <4>2. PICK n \in Saved : Len(file) <= LastField(at, n)
        BY <1>1, <4>1 DEF Laid
      <4>3. LastField(at, n) \in Nat
        BY <1>0, <1>1, PlaceType
      <4>4. ~(LastField(at, n)' <= Len(file'))
        BY <4>2, <4>3, <1>4, <1>6, <2>3
      <4> QED BY <4>4, <2>3, <1>3 DEF Lacks, IsWhole
    <3> QED BY <3>1, <3>2, <1>6
  <2> QED BY <2>1, <2>2, <2>3, <1>6
<1>10. Passed(at)'
  <2>1. \A n \in Saved : at[n] \in Nat /\ at[n] >= 1
    BY <1>0, <1>1, PlaceType
  <2>2. counts \in [tables : Int, rows : Nat]
    BY <1>1 DEF Passed
  <2> QED BY <1>2, <1>3, <1>6, <2>1, <2>2 DEF Passed
<1>11. Phases' /\ \A m \in DOMAIN loaded' : Copied(m)'
  BY <1>2 DEF Phases
<1> QED
  <2>1. \E p \in Places' : Laid(p)' /\ Written(p)' /\ Lacks(p)' /\ Passed(p)'
    BY <1>1, <1>3, <1>7, <1>8, <1>9, <1>10
  <2>2. source' \in Catalogs /\ left' \subseteq DOMAIN source' /\ lost' \in BOOLEAN
    BY <1>0, <1>6
  <2> QED BY <1>11, <2>1, <2>2 DEF ImageInv

(* The file begins with the number of tables.                              *)
LEMMA LoadTableCountImage ==
  ASSUME ImageInv, LoadTableCount
  PROVE  ImageInv'
<1> USE DEF LoadTableCount, Has, Field, Step
<1>0. /\ source \in Catalogs /\ left \subseteq DOMAIN source /\ lost \in BOOLEAN
      /\ Phases /\ \A m \in DOMAIN loaded : Copied(m)
  BY DEF ImageInv
<1>1. PICK at \in Places : Laid(at) /\ Written(at) /\ Lacks(at) /\ Passed(at)
  BY DEF ImageInv
<1>2. at \in Places' /\ Laid(at)' /\ Written(at)' /\ Lacks(at)'
  BY <1>1, LoadKeepsFile
<1>3. Saved' = Saved /\ \A n : Size(n)' = Size(n) /\ LastField(at, n)' = LastField(at, n)
  BY DEF Saved, Size, LastField
<1>4. /\ DOMAIN loaded = {} /\ counts.rows = 0 /\ pos' = 2 /\ 1 <= Len(file)
      /\ \A n \in Saved : at[n] \in Nat /\ at[n] >= 2
      /\ counts \in [tables : Int, rows : Nat]
  BY <1>0, <1>1, PlaceType DEF Passed
<1>5. Field.n = Cardinality(DOMAIN source) /\ Cardinality(DOMAIN source) \in Nat
  <2>1. file[1] = [is |-> "tables", n |-> Cardinality(DOMAIN source)]
    BY <1>1, <1>4 DEF Written
  <2> QED BY <2>1, <1>0, SourceType, FS_CardinalityType
<1>6. Passed(at)'
  <2>1. counts' = [counts EXCEPT !.tables = Cardinality(DOMAIN source)]
    BY <1>5
  <2>2. counts' \in [tables : Int, rows : Nat] /\ counts'.rows = 0
        /\ counts'.tables = Cardinality(DOMAIN source)
    BY <2>1, <1>4, <1>5
  <2>3. Cardinality({}) = 0
    BY FS_EmptySet
  <2>4. loaded' = loaded /\ file' = file /\ Len(file) \in Nat
    BY <1>0, <1>1, PlaceType
  <2> QED BY <1>3, <1>4, <1>5, <2>2, <2>3, <2>4 DEF Passed
<1>7. Phases' /\ \A m \in DOMAIN loaded' : Copied(m)'
  BY <1>4 DEF Phases
<1> QED BY <1>0, <1>2, <1>6, <1>7 DEF ImageInv

(* The name, the columns and the number of rows of the next table.         *)
LEMMA LoadTableImage ==
  ASSUME ImageInv, LoadTable
  PROVE  ImageInv'
<1> USE DEF LoadTable, Between
<1>0. /\ source \in Catalogs /\ left \subseteq DOMAIN source /\ lost \in BOOLEAN
      /\ Phases /\ \A m \in DOMAIN loaded : Copied(m)
  BY DEF ImageInv
<1>1. PICK at \in Places : Laid(at) /\ Written(at) /\ Lacks(at) /\ Passed(at)
  BY DEF ImageInv
<1>2. at \in Places' /\ Laid(at)' /\ Written(at)' /\ Lacks(at)'
  BY <1>1, LoadKeepsFile
<1>3. Saved' = Saved /\ \A n : Size(n)' = Size(n) /\ LastField(at, n)' = LastField(at, n)
  BY DEF Saved, Size, LastField
<1>4. /\ Len(file) \in Nat /\ DOMAIN file = 1 .. Len(file) /\ Saved \subseteq DOMAIN source
      /\ \A n \in Saved : /\ at[n] \in Nat /\ at[n] >= 2 /\ Size(n) \in Nat
                          /\ LastField(at, n) = at[n] + 1 + Size(n) /\ LastField(at, n) \in Nat
  BY <1>0, <1>1, PlaceType
<1>5. /\ pos \in DOMAIN file /\ pos + 1 \in DOMAIN file /\ pos > 1 /\ pos \in Nat
      /\ counts \in [tables : Int, rows : Nat] /\ counts.rows = 0 /\ counts.tables > 0
      /\ DOMAIN loaded \subseteq Saved
      /\ counts.tables = Cardinality(DOMAIN source) - Cardinality(DOMAIN loaded)
      /\ \A n \in Saved \ DOMAIN loaded : at[n] >= pos
  BY <1>1 DEF Has, Passed
<1>6. /\ \A n \in DOMAIN loaded : LastField(at, n) < pos
      /\ \E n \in Saved \ DOMAIN loaded : at[n] = pos
  BY <1>0, <1>1, <1>5, NextTable
<1>7. PICK n \in Saved \ DOMAIN loaded : at[n] = pos
  BY <1>6
<1>8. Field = TableField(n) /\ file[pos + 1] = RowsField(n)
  BY <1>1, <1>4, <1>5, <1>7 DEF Written, Field
<1>9. /\ loaded' = [m \in DOMAIN loaded \cup {n} |->
                      IF m = n THEN NewTable(ColumnTypes(source[n])) ELSE loaded[m]]
      /\ counts' = [tables |-> counts.tables - 1, rows |-> Size(n)]
      /\ pos' = pos + 2
  BY <1>8 DEF TableField, RowsField
<1>10. /\ DOMAIN loaded' = DOMAIN loaded \cup {n} /\ loaded'[n] = NewTable(ColumnTypes(source[n]))
       /\ \A m \in DOMAIN loaded : m # n /\ loaded'[m] = loaded[m]
  BY <1>7, <1>9
<1>11. Cardinality(DOMAIN loaded \cup {n}) = Cardinality(DOMAIN loaded) + 1
       /\ Cardinality(DOMAIN loaded) \in Nat /\ Cardinality(DOMAIN source) \in Nat
  <2>1. IsFiniteSet(DOMAIN loaded) /\ IsFiniteSet(DOMAIN source)
    <3>1. IsFiniteSet(DOMAIN source)
      BY <1>0, SourceType
    <3>2. DOMAIN loaded \subseteq DOMAIN source
      BY <1>4, <1>5
    <3> QED BY <3>1, <3>2, FS_Subset
  <2> QED BY <2>1, <1>7, FS_AddElement, FS_CardinalityType
<1>12. Len(NewTable(ColumnTypes(source[n])).rows) = 0
  BY DEF NewTable
<1>13. Passed(at)'
  <2>1. /\ pos' \in Nat \ {0} /\ pos' <= Len(file') + 1 /\ pos' > 1
        /\ counts' \in [tables : Int, rows : Nat] /\ counts'.rows = Size(n)
        /\ DOMAIN loaded' \subseteq Saved'
    <3>1. file' = file /\ Size(n) \in Nat
      BY <1>4, <1>7
    <3> QED BY <3>1, <1>3, <1>4, <1>5, <1>7, <1>9, <1>10
  <2>2. counts'.tables = Cardinality(DOMAIN source') - Cardinality(DOMAIN loaded')
    BY <1>5, <1>9, <1>10, <1>11
  <2>3. ASSUME NEW m \in Saved \ DOMAIN loaded' PROVE at[m] >= pos'
    <3>1. m \in Saved \ DOMAIN loaded /\ m # n
      BY <2>3, <1>10
    <3>2. LastField(at, m) < at[n] \/ LastField(at, n) < at[m]
      BY <3>1, <1>1, <1>7 DEF Laid
    <3>3. at[m] >= pos
      BY <3>1, <1>5
    <3> QED BY SMTT(40), <3>1, <3>2, <3>3, <1>4, <1>5, <1>7, <1>9
  <2>4. ASSUME NEW m \in DOMAIN loaded'
        PROVE  Begun(at, m)'
    <3>1. CASE m = n
      <4>1. LastField(at, n) = pos + 1 + Size(n) /\ Size(n) \in Nat
        BY <1>4, <1>7
      <4>2. Len(loaded'[n].rows) = 0
        BY <1>10, <1>12
      <4> QED BY <3>1, <4>1, <4>2, <1>3, <1>5, <1>7, <1>9 DEF Begun
    <3>2. CASE m \in DOMAIN loaded
      <4>1. LastField(at, m) < pos /\ LastField(at, m) \in Nat /\ at[m] + 1 < pos /\ Len(loaded[m].rows) = Size(m)
        BY <3>2, <1>1, <1>4, <1>5, <1>6 DEF Passed, Begun
      <4>2. at[m] \in Nat
        BY <3>2, <1>4, <1>5
      <4> QED BY <3>2, <4>1, <4>2, <1>3, <1>5, <1>9, <1>10 DEF Begun
    <3> QED BY <3>1, <3>2, <1>10
  <2>5. counts'.rows > 0 => \E m \in DOMAIN loaded' : LastField(at, m) + 1 = pos' + counts'.rows
    <3>1. n \in DOMAIN loaded' /\ LastField(at, n) = pos + 1 + Size(n) /\ Size(n) \in Nat
      BY <1>4, <1>7, <1>10
    <3> QED BY <3>1, <2>1, <1>5, <1>9
  <2> QED BY <1>3, <2>1, <2>2, <2>3, <2>4, <2>5 DEF Passed
<1>14. ASSUME NEW m \in DOMAIN loaded' PROVE Copied(m)'
  <2>1. CASE m = n
    <3>1. loaded'[n] = [NewTable(ColumnTypes(source[n])) EXCEPT !.rows = loaded'[n].rows]
          /\ loaded'[n].rows = <<>>
      BY <1>10 DEF NewTable
    <3>2. IsSequence(<<>>)
      BY DEF IsSequence
    <3> QED BY <2>1, <3>1, <3>2 DEF Copied
  <2>2. CASE m \in DOMAIN loaded
    <3>1. Copied(m) /\ loaded'[m] = loaded[m]
      BY <2>2, <1>0, <1>10
    <3> QED BY <3>1 DEF Copied
  <2> QED BY <2>1, <2>2, <1>10
<1>15. Phases'
  BY <1>0 DEF Phases
<1> QED BY <1>0, <1>2, <1>13, <1>14, <1>15 DEF ImageInv

(* The number of a row from its position.                                  *)
LEMMA RowNumber ==
  ASSUME NEW p \in Nat, NEW a \in Nat, NEW s \in Nat, NEW c \in Nat, NEW k,
         k = s - c, a + 1 + s + 1 = p + c, a + 1 < p, p <= a + 1 + s
  PROVE  k + 1 = p - a - 1 /\ p - a - 1 \in 1 .. s /\ a + 1 + (p - a - 1) = p
OBVIOUS

(* While rows are read, pos is in the table whose name was read last.      *)
LEMMA RowPlace ==
  ASSUME source \in Catalogs, NEW at \in Places, Laid(at), Written(at), Passed(at),
         counts.rows > 0, pos \in DOMAIN file
  PROVE  \E n \in DOMAIN loaded :
           /\ LastTable = n /\ LastField(at, n) + 1 = pos + counts.rows
           /\ Len(loaded[n].rows) + 1 = pos - at[n] - 1
           /\ pos - at[n] - 1 \in 1 .. Size(n)
           /\ file[pos] = RowField(n, pos - at[n] - 1)
<1>1. /\ Len(file) \in Nat /\ DOMAIN file = 1 .. Len(file) /\ Saved \subseteq DOMAIN source
      /\ \A n \in Saved : /\ at[n] \in Nat /\ at[n] >= 2 /\ Size(n) \in Nat
                          /\ LastField(at, n) = at[n] + 1 + Size(n) /\ LastField(at, n) \in Nat
  BY PlaceType
<1>2. pos \in Nat /\ counts.rows \in Nat /\ DOMAIN loaded \subseteq Saved /\ pos <= Len(file)
  BY <1>1 DEF Passed
<1>3. PICK n \in DOMAIN loaded : LastField(at, n) + 1 = pos + counts.rows
  BY DEF Passed
<1>4. n \in Saved /\ at[n] + 1 < pos /\ pos <= LastField(at, n) /\ Len(loaded[n].rows) = Size(n) - counts.rows
  BY <1>1, <1>2, <1>3 DEF Passed, Begun
<1> DEFINE a == at[n]
           s == Size(n)
<1>0. a \in Nat /\ s \in Nat /\ LastField(at, n) = a + 1 + s
  BY <1>1, <1>4
<1>5. /\ Len(loaded[n].rows) + 1 = pos - at[n] - 1
      /\ pos - at[n] - 1 \in 1 .. Size(n) /\ at[n] + 1 + (pos - at[n] - 1) = pos
  <2>1. /\ Len(loaded[n].rows) = s - counts.rows /\ a + 1 + s + 1 = pos + counts.rows
        /\ a + 1 < pos /\ pos <= a + 1 + s
    BY <1>0, <1>3, <1>4
  <2> DEFINE k == Len(loaded[n].rows)
             c == counts.rows
  <2> HIDE DEF a, s, k, c
  <2>2. /\ pos \in Nat /\ a \in Nat /\ s \in Nat /\ c \in Nat
        /\ k = s - c /\ a + 1 + s + 1 = pos + c /\ a + 1 < pos /\ pos <= a + 1 + s
    BY <1>0, <1>2, <2>1 DEF k, c
  <2>3. k + 1 = pos - a - 1 /\ pos - a - 1 \in 1 .. s /\ a + 1 + (pos - a - 1) = pos
    BY <2>2, RowNumber
  <2> QED BY <2>3 DEF a, s, k
<1>6. file[pos] = RowField(n, pos - at[n] - 1)
  BY <1>2, <1>4, <1>5, <1>1 DEF Written
<1>7. LastTable = n
  <2> DEFINE P(i) == /\ file[i].is = "table"
                     /\ \A j \in i + 1 .. pos - 1 : file[j].is # "table"
  <2>1. at[n] \in 1 .. pos - 1 /\ file[at[n]] = TableField(n)
    <3>1. at[n] <= Len(file) /\ at[n] \in 1 .. pos - 1
      BY <1>1, <1>2, <1>4
    <3> QED BY <3>1, <1>4 DEF Written
  <2>2. ASSUME NEW j \in at[n] + 1 .. pos - 1 PROVE file[j].is # "table"
    <3>1. CASE j = at[n] + 1
      <4>1. file[at[n] + 1] = RowsField(n)
        BY <1>1, <1>2, <1>4 DEF Written
      <4> QED BY <3>1, <4>1 DEF RowsField
    <3>2. CASE j # at[n] + 1
      <4>1. j - at[n] - 1 \in 1 .. Size(n) /\ at[n] + 1 + (j - at[n] - 1) = j /\ j <= Len(file)
        <5>1. j \in a + 1 .. pos - 1 /\ j # a + 1 /\ pos <= a + 1 + s
          BY <1>0, <1>4, <3>2
        <5> HIDE DEF a, s
        <5>2. j - a - 1 \in 1 .. s /\ a + 1 + (j - a - 1) = j /\ j <= Len(file)
          BY <1>0, <1>1, <1>2, <5>1
        <5> QED BY <5>2 DEF a, s
      <4>2. file[j] = RowField(n, j - at[n] - 1)
        BY <4>1, <1>4 DEF Written
      <4> QED BY <4>2 DEF RowField
    <3> QED BY <3>1, <3>2
  <2>3. P(at[n])
    BY <2>1, <2>2 DEF TableField
  <2>4. ASSUME NEW i \in 1 .. pos - 1, P(i) PROVE i = at[n]
    <3>1. ~(i \in at[n] + 1 .. pos - 1)
      BY <2>2, <2>4
    <3>2. ~(at[n] \in i + 1 .. pos - 1)
      BY <2>1, <2>4 DEF TableField
    <3> QED BY <3>1, <3>2, <2>1, <1>1, <1>2, <1>4
  <2> DEFINE c == CHOOSE i \in 1 .. pos - 1 : P(i)
  <2>5. c \in 1 .. pos - 1 /\ P(c)
    <3>1. \E i \in 1 .. pos - 1 : P(i)
      BY <2>1, <2>3
    <3> HIDE DEF P
    <3> QED BY <3>1
  <2>6. c = at[n]
    <3> HIDE DEF c, P
    <3> QED BY <2>4, <2>5
  <2>7. LastTable = file[c].name
    BY DEF LastTable
  <2> HIDE DEF c, P
  <2> QED BY <2>1, <2>6, <2>7 DEF TableField
<1> QED BY <1>3, <1>5, <1>6, <1>7

(* A row that is read is the row that was saved, if its table is plain.    *)
LEMMA RowComesBack ==
  ASSUME source \in Catalogs, NEW n \in DOMAIN source, Plain(source[n]),
         NEW r \in 1 .. Size(n), NEW cells, cells = RowField(n, r).cells,
         NEW row, DOMAIN row = DOMAIN cells, row = [i \in DOMAIN row |-> row[i]],
         \A i \in DOMAIN row :
           row[i] \in SetValue(source[n].cols[i].type, ReadValue(source[n].cols[i].type, cells[i]))
  PROVE  row = source[n].rows[r]
<1> DEFINE s == source[n].rows[r]
           D == DOMAIN source[n].cols
<1>1. IsTable(source[n]) /\ r \in DOMAIN source[n].rows
  <2>1. IsSequence(source[n].rows) /\ IsTable(source[n])
    BY SourceType
  <2>2. DOMAIN source[n].rows = 1 .. Size(n)
    BY <2>1 DEF IsSequence, Size
  <2> QED BY <2>1, <2>2
<1>2. /\ s \in Seq(Int \cup {Null}) /\ DOMAIN s = D
      /\ \A i \in D : Fits(source[n].cols[i].type, s[i])
  <2>1. source[n].rows \in Seq(Seq(Int \cup {Null}))
    BY <1>1 DEF IsTable
  <2>2. s \in Seq(Int \cup {Null})
    BY <1>1, <2>1
  <2> QED BY <2>2, <1>1 DEF IsTable
<1>3. cells = [i \in D |-> WriteValue(source[n].cols[i].type, s[i])]
  BY DEF RowField
<1>4. ASSUME NEW i \in D PROVE row[i] = s[i]
  <2>1. source[n].cols[i].type \in Encoded
    BY DEF Plain
  <2>2. s[i] \in Int \cup {Null}
    BY <1>2
  <2>3. Fits(source[n].cols[i].type, s[i])
    BY <1>2
  <2>4. cells[i] = WriteValue(source[n].cols[i].type, s[i]) /\ i \in DOMAIN row
    BY <1>3
  <2> DEFINE t == source[n].cols[i].type
             v == s[i]
  <2>5. SetValue(t, ReadValue(t, WriteValue(t, v))) = {v}
    <3> HIDE DEF t, v
    <3>1. t \in Encoded /\ v \in Int \cup {Null} /\ Fits(t, v)
      BY <2>1, <2>2, <2>3 DEF t, v
    <3> QED BY <3>1, ValueComesBack DEF Restored
  <2>6. row[i] \in SetValue(t, ReadValue(t, cells[i]))
    BY <2>4
  <2> HIDE DEF t, v
  <2>7. row[i] = v
    BY <2>4, <2>5, <2>6 DEF t, v
  <2> QED BY <2>7 DEF v
<1>5. DOMAIN row = D /\ s = [i \in D |-> s[i]]
  <2>1. DOMAIN row = D
    BY <1>3
  <2> HIDE DEF D
  <2>2. s = [i \in DOMAIN s |-> s[i]]
    <3> HIDE DEF s
    <3> QED BY <1>2
  <2> QED BY <2>1, <2>2, <1>2
<1> HIDE DEF s, D
<1>6. row = s
  BY <1>4, <1>5
<1> QED BY <1>6 DEF s

(* A row is added to the table whose name was read last.                   *)
LEMMA LoadRowImage ==
  ASSUME ImageInv, LoadRow
  PROVE  ImageInv'
<1>0. /\ source \in Catalogs /\ left \subseteq DOMAIN source /\ lost \in BOOLEAN
      /\ Phases /\ \A m \in DOMAIN loaded : Copied(m)
  BY DEF ImageInv
<1>1. PICK at \in Places : Laid(at) /\ Written(at) /\ Lacks(at) /\ Passed(at)
  BY DEF ImageInv
<1>2. at \in Places' /\ Laid(at)' /\ Written(at)' /\ Lacks(at)'
  BY <1>1, LoadKeepsFile DEF LoadRow
<1>3. Saved' = Saved /\ \A n : Size(n)' = Size(n) /\ LastField(at, n)' = LastField(at, n)
  BY DEF Saved, Size, LastField, LoadRow
<1>4. /\ Len(file) \in Nat /\ DOMAIN file = 1 .. Len(file) /\ Saved \subseteq DOMAIN source
      /\ \A n \in Saved : /\ at[n] \in Nat /\ at[n] >= 2 /\ Size(n) \in Nat
                          /\ LastField(at, n) = at[n] + 1 + Size(n) /\ LastField(at, n) \in Nat
  BY <1>0, <1>1, PlaceType
<1>5. /\ pos \in DOMAIN file /\ pos > 1 /\ pos \in Nat /\ counts.rows > 0
      /\ counts \in [tables : Int, rows : Nat] /\ DOMAIN loaded \subseteq Saved
      /\ counts.tables = Cardinality(DOMAIN source) - Cardinality(DOMAIN loaded)
      /\ \A n \in Saved \ DOMAIN loaded : at[n] >= pos
      /\ phase = "load" /\ pos' = pos + 1 /\ counts' = [counts EXCEPT !.rows = @ - 1]
      /\ UNCHANGED <<phase, source, left, file, lost>>
  <2>1. counts.rows > 0 /\ counts.rows \in Nat /\ pos \in Nat \ {0} /\ pos # 1
    BY <1>1 DEF LoadRow, Passed
  <2> QED BY <1>1, <2>1 DEF LoadRow, Has, Passed, Step
<1>6. PICK n \in DOMAIN loaded :
           /\ LastTable = n /\ LastField(at, n) + 1 = pos + counts.rows
           /\ Len(loaded[n].rows) + 1 = pos - at[n] - 1
           /\ pos - at[n] - 1 \in 1 .. Size(n)
           /\ file[pos] = RowField(n, pos - at[n] - 1)
  BY <1>0, <1>1, <1>5, RowPlace
<1> DEFINE r == pos - at[n] - 1
           cells == RowField(n, r).cells
           type(i) == loaded[n].cols[i].type
<1>7. PICK row : /\ DOMAIN row = DOMAIN cells /\ row = [i \in DOMAIN row |-> row[i]]
                 /\ \A i \in DOMAIN row : row[i] \in SetValue(type(i), ReadValue(type(i), cells[i]))
                 /\ loaded' = [loaded EXCEPT ![n].rows = Append(@, row)]
  <2> DEFINE t == LastTable
             read(i) == loaded[t].cols[i].type
             received == Field.cells
  <2>1. received = cells /\ t = n
    BY <1>6 DEF Field
  <2>2. PICK row \in [DOMAIN received -> UNION {SetValue(read(i), ReadValue(read(i), received[i])) : i \in DOMAIN received}] :
          /\ \A i \in DOMAIN row : row[i] \in SetValue(read(i), ReadValue(read(i), received[i]))
          /\ loaded' = [loaded EXCEPT ![t].rows = Append(@, row)]
    BY DEF LoadRow
  <2> HIDE DEF cells, received, t
  <2>3. DOMAIN row = DOMAIN cells /\ row = [i \in DOMAIN row |-> row[i]]
    BY <2>1, <2>2
  <2>4. ASSUME NEW i \in DOMAIN row
        PROVE  row[i] \in SetValue(type(i), ReadValue(type(i), cells[i]))
    <3>1. row[i] \in SetValue(read(i), ReadValue(read(i), received[i]))
      BY <2>2
    <3> QED BY <2>1, <3>1
  <2>5. loaded' = [loaded EXCEPT ![n].rows = Append(@, row)]
    BY <2>1, <2>2
  <2> QED BY <2>3, <2>4, <2>5
<1>8. /\ DOMAIN loaded' = DOMAIN loaded
      /\ loaded'[n] = [loaded[n] EXCEPT !.rows = Append(@, row)]
      /\ \A m \in DOMAIN loaded : m # n => loaded'[m] = loaded[m]
  BY <1>7
<1>9. /\ loaded[n] = [NewTable(ColumnTypes(source[n])) EXCEPT !.rows = loaded[n].rows]
      /\ IsSequence(loaded[n].rows)
      /\ Plain(source[n]) => \A i \in 1 .. Len(loaded[n].rows) : loaded[n].rows[i] = source[n].rows[i]
  BY <1>0 DEF Copied
<1> DEFINE before == loaded[n].rows
           after  == loaded'[n].rows
<1>10. /\ after = Append(before, row)
       /\ loaded'[n] = [NewTable(ColumnTypes(source[n])) EXCEPT !.rows = after]
  <2> DEFINE base == NewTable(ColumnTypes(source[n]))
  <2>1. DOMAIN base = {"cols", "rows", "live"}
    BY DEF NewTable
  <2>2. base = [x \in {"cols", "rows", "live"} |-> base[x]]
    BY DEF NewTable
  <2>3. loaded[n] = [base EXCEPT !.rows = loaded[n].rows] /\ loaded'[n] = [loaded[n] EXCEPT !.rows = Append(@, row)]
    BY <1>8, <1>9
  <2> DEFINE old == loaded[n]
             new == loaded'[n]
  <2> HIDE DEF base, old, new
  <2>4. old = [base EXCEPT !.rows = old.rows] /\ new = [old EXCEPT !.rows = Append(old.rows, row)]
    BY <2>3 DEF old, new
  <2>5. DOMAIN old = {"cols", "rows", "live"} /\ old.cols = base.cols /\ old.live = base.live
    BY <2>1, <2>4
  <2>6. new.rows = Append(old.rows, row) /\ new = [base EXCEPT !.rows = new.rows]
    BY <2>1, <2>2, <2>4, <2>5
  <2> QED BY <2>6 DEF old, new, base
<1>11. /\ IsSequence(after) /\ Len(before) \in Nat /\ Len(after) = Len(before) + 1
       /\ \A i \in 1 .. Len(before) : after[i] = before[i]
       /\ after[Len(before) + 1] = row
  <2> HIDE DEF before, after
  <2>1. IsSequence(before)
    BY <1>9 DEF before
  <2> QED BY <1>10, <2>1, Longer
<1>12. Len(before) + 1 = r /\ r \in 1 .. Size(n) /\ Len(after) = r
  BY <1>6, <1>11
<1> HIDE DEF before, after
<1>13. Copied(n)'
  <2>1. ASSUME Plain(source[n]), NEW i \in 1 .. r PROVE after[i] = source[n].rows[i]
    <3>1. CASE i <= Len(before)
      <4>1. i \in 1 .. Len(before)
        BY <3>1, <1>11, <1>12
      <4>2. before[i] = source[n].rows[i]
        BY <2>1, <4>1, <1>9 DEF before
      <4> QED BY <4>1, <4>2, <1>11
    <3>2. CASE i = r
      <4>1. n \in DOMAIN source
        BY <1>4, <1>5
      <4>2. \A j \in DOMAIN cells : type(j) = source[n].cols[j].type
        <5>1. DOMAIN cells = DOMAIN source[n].cols
          BY DEF RowField
        <5>2. \A j \in DOMAIN source[n].cols : type(j) = source[n].cols[j].type
          <6> DEFINE base == NewTable(ColumnTypes(source[n]))
          <6>1. DOMAIN base = {"cols", "rows", "live"}
                /\ \A j \in DOMAIN source[n].cols : base.cols[j].type = source[n].cols[j].type
            BY DEF NewTable, ColumnTypes
          <6>2. loaded[n] = [base EXCEPT !.rows = loaded[n].rows]
            BY <1>9
          <6> HIDE DEF base
          <6>3. loaded[n].cols = base.cols
            BY <6>1, <6>2
          <6> QED BY <6>1, <6>3
        <5> QED BY <5>1, <5>2
      <4>3. /\ DOMAIN row = DOMAIN cells /\ row = [j \in DOMAIN row |-> row[j]]
            /\ \A j \in DOMAIN row : row[j] \in SetValue(source[n].cols[j].type,
                                                         ReadValue(source[n].cols[j].type, cells[j]))
        <5> HIDE DEF cells
        <5>1. DOMAIN row = DOMAIN cells /\ row = [j \in DOMAIN row |-> row[j]]
          BY <1>7
        <5> QED BY <5>1, <4>2, <1>7
      <4>4. r \in 1 .. Size(n) /\ cells = RowField(n, r).cells
        BY <1>12
      <4> HIDE DEF cells, r, type
      <4>5. row = source[n].rows[r]
        BY <1>0, <2>1, <4>1, <4>3, <4>4, RowComesBack
      <4> QED BY <4>5, <3>2, <1>11, <1>12
    <3> QED BY <3>1, <3>2, <1>11, <1>12
  <2>2. Len(loaded'[n].rows) = r /\ IsSequence(loaded'[n].rows)
    BY <1>11, <1>12 DEF after
  <2>3. Plain(source[n]) => \A i \in 1 .. r : loaded'[n].rows[i] = source[n].rows[i]
    BY <2>1 DEF after
  <2>4. loaded'[n] = [NewTable(ColumnTypes(source[n])) EXCEPT !.rows = loaded'[n].rows]
    BY <1>10 DEF after
  <2>5. source' = source
    BY <1>5
  <2> HIDE DEF r
  <2> QED BY <2>2, <2>3, <2>4, <2>5 DEF Copied
<1>14. \A m \in DOMAIN loaded' : Copied(m)'
  <2>1. ASSUME NEW m \in DOMAIN loaded, m # n PROVE Copied(m)'
    <3>1. Copied(m) /\ loaded'[m] = loaded[m] /\ source' = source
      BY <2>1, <1>0, <1>5, <1>8
    <3> QED BY <3>1 DEF Copied
  <2> QED BY <2>1, <1>8, <1>13
<1> DEFINE a == at[n]
           s == Size(n)
<1>15. a \in Nat /\ s \in Nat /\ LastField(at, n) = a + 1 + s /\ n \in Saved
       /\ a + 1 < pos /\ pos <= LastField(at, n) /\ counts.rows \in Nat
  <2>1. n \in Saved
    BY <1>5
  <2>2. a \in Nat /\ s \in Nat /\ LastField(at, n) = a + 1 + s /\ counts.rows \in Nat
    BY <2>1, <1>4, <1>5
  <2>3. a + 1 < pos
    BY <1>1 DEF Passed, Begun
  <2> HIDE DEF a, s
  <2> QED BY <2>1, <2>2, <2>3, <1>5, <1>6
<1>16. ASSUME NEW m \in Saved, m # n PROVE LastField(at, m) < at[n] \/ LastField(at, n) < at[m]
  BY <1>1, <1>15, <1>16 DEF Laid
<1>17. Passed(at)'
  <2>1. /\ pos' \in Nat \ {0} /\ pos' <= Len(file') + 1 /\ pos' # 1
        /\ DOMAIN loaded' \subseteq Saved'
    BY <1>3, <1>4, <1>5, <1>8
  <2>2. /\ counts'.rows = counts.rows - 1 /\ counts'.tables = counts.tables
        /\ counts' \in [tables : Int, rows : Nat]
    BY <1>5, <1>15
  <2>3. counts'.tables = Cardinality(DOMAIN source') - Cardinality(DOMAIN loaded')
    BY <1>5, <1>8, <2>2
  <2>4. ASSUME NEW m \in Saved \ DOMAIN loaded PROVE at[m] >= pos'
    <3>1. m # n /\ at[m] >= pos /\ at[m] \in Nat /\ LastField(at, m) = at[m] + 1 + Size(m) /\ Size(m) \in Nat
      BY <1>4, <1>5
    <3>2. LastField(at, n) < at[m]
      <4>1. ~(LastField(at, m) < a)
        BY <3>1, <1>5, <1>15
      <4> QED BY <4>1, <3>1, <1>16
    <3> QED BY <3>1, <3>2, <1>5, <1>15
  <2>5. ASSUME NEW m \in DOMAIN loaded PROVE Begun(at, m)'
    <3>1. CASE m = n
      <4>1. Len(loaded'[n].rows) = pos - a - 1 /\ LastField(at, n) = a + 1 + s
            /\ a + 1 + s + 1 = pos + counts.rows
        BY <1>6, <1>12, <1>15 DEF after
      <4> HIDE DEF a, s
      <4> DEFINE c == counts.rows
      <4>3. counts'.rows = c - 1 /\ c \in Nat /\ a + 1 + s + 1 = pos + c /\ c > 0
        BY <4>1, <1>5, <1>15, <2>2
      <4> HIDE DEF c
      <4>4. pos' = pos + 1 /\ pos \in Nat /\ a + 1 < pos /\ a \in Nat /\ s \in Nat
        BY <1>5, <1>15
      <4>2. a + 1 < pos' /\ IF LastField(at, n) < pos' THEN Len(loaded'[n].rows) = s
                            ELSE /\ counts'.rows = LastField(at, n) + 1 - pos'
                                 /\ Len(loaded'[n].rows) = s - counts'.rows
        BY <4>1, <4>3, <4>4
      <4> QED BY <4>2, <3>1, <1>3 DEF Begun, a, s
    <3>2. CASE m # n
      <4>1. m \in Saved /\ at[m] \in Nat /\ LastField(at, m) \in Nat /\ at[m] + 1 < pos
        BY <1>1, <1>4, <1>5 DEF Passed, Begun
      <4>2. LastField(at, m) < pos
        <5>1. ~(LastField(at, n) < at[m])
          BY <4>1, <1>5, <1>15
        <5>2. LastField(at, m) < a
          BY <4>1, <5>1, <3>2, <1>16
        <5> QED BY <5>2, <4>1, <1>5, <1>15
      <4>3. Len(loaded'[m].rows) = Size(m)
        BY <1>1, <1>8, <3>2, <4>2 DEF Passed, Begun
      <4> QED BY <4>1, <4>2, <4>3, <1>3, <1>5 DEF Begun
    <3> QED BY <3>1, <3>2
  <2>6. counts'.rows > 0 => \E m \in DOMAIN loaded' : LastField(at, m)' + 1 = pos' + counts'.rows
    BY <1>3, <1>5, <1>6, <1>8, <1>15, <2>2
  <2> QED BY <1>3, <1>8, <2>1, <2>2, <2>3, <2>4, <2>5, <2>6 DEF Passed
<1>18. Phases'
  BY <1>0, <1>5 DEF Phases
<1> QED BY <1>0, <1>2, <1>5, <1>14, <1>17, <1>18 DEF ImageInv

(* A load that has read all the tables the header counts has read a whole  *)
(* file.                                                                   *)
LEMMA AllTablesRead ==
  ASSUME ImageInv, pos > 1, counts.rows = 0, counts.tables = 0, phase # "save"
  PROVE  /\ ~lost /\ DOMAIN loaded = DOMAIN source
         /\ \A n \in DOMAIN source : Len(loaded[n].rows) = Size(n)
<1>0. source \in Catalogs /\ left \subseteq DOMAIN source
  BY DEF ImageInv
<1>1. PICK at \in Places : Laid(at) /\ Written(at) /\ Lacks(at) /\ Passed(at)
  BY DEF ImageInv
<1>2. DOMAIN loaded \subseteq Saved /\ Saved \subseteq DOMAIN source /\ IsFiniteSet(DOMAIN source)
  BY <1>0, <1>1, SourceType DEF Passed, Saved
<1>3. Cardinality(DOMAIN loaded) = Cardinality(DOMAIN source)
  <2>1. DOMAIN loaded \subseteq DOMAIN source
    BY <1>2
  <2>2. IsFiniteSet(DOMAIN loaded)
    BY <1>2, <2>1, FS_Subset
  <2>3. Cardinality(DOMAIN loaded) \in Nat /\ Cardinality(DOMAIN source) \in Nat
    BY <1>2, <2>2, FS_CardinalityType
  <2>4. counts.tables = Cardinality(DOMAIN source) - Cardinality(DOMAIN loaded)
    BY <1>1 DEF Passed
  <2> QED BY <2>3, <2>4
<1>4. DOMAIN loaded = DOMAIN source
  <2>1. DOMAIN loaded \subseteq DOMAIN source
    BY <1>2
  <2> QED BY <1>2, <1>3, <2>1, FS_Subset
<1>5. Saved = DOMAIN source /\ left = {}
  BY <1>0, <1>2, <1>4 DEF Saved
<1>6. \A n \in DOMAIN loaded : LastField(at, n) < pos
  BY <1>0, <1>1, NextTable
<1>7. /\ Len(file) \in Nat /\ pos \in Nat /\ pos <= Len(file) + 1
      /\ \A n \in Saved : LastField(at, n) \in Nat
  BY <1>0, <1>1, PlaceType DEF Passed
<1>8. IsWhole(at)
  BY <1>4, <1>5, <1>6, <1>7 DEF IsWhole
<1>9. ~lost
  BY <1>1, <1>5, <1>8 DEF Lacks
<1>10. \A n \in DOMAIN source : Len(loaded[n].rows) = Size(n)
  BY <1>1, <1>4, <1>6 DEF Passed, Begun
<1> QED BY <1>4, <1>9, <1>10

LEMMA FinishImage ==
  ASSUME ImageInv, Finish
  PROVE  ImageInv'
<1>0. /\ source \in Catalogs /\ left \subseteq DOMAIN source /\ lost \in BOOLEAN
      /\ Phases /\ \A m \in DOMAIN loaded : Copied(m)
  BY DEF ImageInv
<1>1. PICK at \in Places : Laid(at) /\ Written(at) /\ Lacks(at) /\ Passed(at)
  BY DEF ImageInv
<1>2. at \in Places' /\ Laid(at)' /\ Written(at)' /\ Lacks(at)'
  BY <1>1, LoadKeepsFile DEF Finish, Between
<1>3. Passed(at)'
  BY <1>1 DEF Finish, Passed, Begun, Saved, Size, LastField
<1>4. Phases'
  BY <1>0 DEF Phases, Finish, Between
<1>5. \A m \in DOMAIN loaded' : Copied(m)'
  BY <1>0 DEF Copied, Finish
<1>6. source' \in Catalogs /\ left' \subseteq DOMAIN source' /\ lost' \in BOOLEAN
  BY <1>0 DEF Finish
<1> QED BY <1>2, <1>3, <1>4, <1>5, <1>6 DEF ImageInv

(* A complete file is refused for a count over its limit only.             *)
LEMMA ThrowImage ==
  ASSUME ImageInv, Throw
  PROVE  ImageInv'
<1>0. /\ source \in Catalogs /\ left \subseteq DOMAIN source /\ lost \in BOOLEAN
      /\ Phases /\ \A m \in DOMAIN loaded : Copied(m)
  BY DEF ImageInv
<1>1. PICK at \in Places : Laid(at) /\ Written(at) /\ Lacks(at) /\ Passed(at)
  BY DEF ImageInv
<1>2. at \in Places' /\ Laid(at)' /\ Written(at)' /\ Lacks(at)'
  BY <1>1, LoadKeepsFile DEF Throw
<1>3. Passed(at)'
  BY <1>1 DEF Throw, Passed, Begun, Saved, Size, LastField
<1>4. /\ Len(file) \in Nat /\ DOMAIN file = 1 .. Len(file) /\ Saved \subseteq DOMAIN source
      /\ \A n \in Saved : /\ at[n] \in Nat /\ at[n] >= 2 /\ Size(n) \in Nat
                          /\ LastField(at, n) = at[n] + 1 + Size(n) /\ LastField(at, n) \in Nat
  BY <1>0, <1>1, PlaceType
<1>5. ASSUME ~lost PROVE TooLarge
  <2>1. IsWhole(at) /\ left = {} /\ Saved = DOMAIN source
    BY <1>1, <1>5 DEF Lacks, Throw, Saved
  <2>2. /\ pos \in Nat \ {0} /\ pos <= Len(file) + 1 /\ Len(file) >= 1
        /\ counts \in [tables : Int, rows : Nat]
    BY <1>1, <2>1 DEF Passed, IsWhole
  <2>3. file[1] = [is |-> "tables", n |-> Cardinality(DOMAIN source)]
    BY <1>1, <2>2 DEF Written
  <2>4. ASSUME pos > 1, counts.rows = 0, counts.tables # 0 PROVE pos \in DOMAIN file
    <3>1. \E n \in Saved : n \notin DOMAIN loaded
      <4>1. SUFFICES ASSUME DOMAIN loaded = DOMAIN source PROVE FALSE
        BY <1>1, <2>1 DEF Passed
      <4>2. IsFiniteSet(DOMAIN source)
        BY <1>0, SourceType
      <4>3. Cardinality(DOMAIN source) \in Nat
        BY <4>2, FS_CardinalityType
      <4>4. counts.tables = Cardinality(DOMAIN source) - Cardinality(DOMAIN loaded)
        BY <1>1, <2>4 DEF Passed
      <4> QED BY <4>1, <4>3, <4>4, <2>4
    <3>2. PICK n \in Saved : n \notin DOMAIN loaded
      BY <3>1
    <3>3. at[n] >= pos /\ LastField(at, n) <= Len(file)
      BY <1>1, <2>1, <3>2 DEF Passed, IsWhole
    <3>4. at[n] \in Nat /\ Size(n) \in Nat /\ LastField(at, n) = at[n] + 1 + Size(n)
      BY <1>4
    <3> QED BY <1>4, <2>2, <3>3, <3>4
  <2>5. ASSUME counts.rows > 0 PROVE pos \in DOMAIN file
    <3>1. PICK n \in DOMAIN loaded : LastField(at, n) + 1 = pos + counts.rows
      BY <1>1, <2>5 DEF Passed
    <3>2. n \in Saved
      BY <1>1, <3>1 DEF Passed
    <3>3. LastField(at, n) <= Len(file) /\ LastField(at, n) \in Nat
      BY <3>2, <1>4, <2>1 DEF IsWhole
    <3> QED BY <1>4, <2>2, <2>5, <3>1, <3>3
  <2>6. pos \in DOMAIN file
    <3>1. CASE pos = 1
      BY <1>4, <2>2, <3>1
    <3>2. CASE pos > 1 /\ counts.rows > 0
      BY <3>2, <2>5
    <3>3. CASE pos > 1 /\ counts.rows = 0
      <4>1. counts.tables # 0
        BY <3>3 DEF Throw, Between
      <4> QED BY <4>1, <3>3, <2>4
    <3> QED BY <3>1, <3>2, <3>3, <2>2
  <2>7. CASE Has("tables") /\ Field.n > MaxTables
    <3>1. pos = 1
      <4>1. SUFFICES ASSUME pos # 1 PROVE FALSE
        OBVIOUS
      <4>2. pos \in 2 .. Len(file)
        BY <4>1, <2>2, <2>6, <1>4
      <4>3. PICK n \in Saved : at[n] <= pos /\ pos <= LastField(at, n)
        BY <4>2, <1>1 DEF Laid
      <4> DEFINE a == at[n]
                 s == Size(n)
      <4>4. a \in Nat /\ s \in Nat /\ LastField(at, n) = a + 1 + s
        BY <1>4
      <4>5. file[pos].is # "tables"
        <5>1. CASE pos = a
          <6>1. file[a] = TableField(n)
            BY <5>1, <4>2, <1>1, <1>4 DEF Written
          <6> QED BY <6>1, <5>1 DEF TableField
        <5>2. CASE pos = a + 1
          <6>1. file[a + 1] = RowsField(n)
            BY <5>2, <4>2, <1>1, <1>4 DEF Written
          <6> QED BY <6>1, <5>2 DEF RowsField
        <5>3. CASE pos # a /\ pos # a + 1
          <6>1. pos - a - 1 \in 1 .. s /\ a + 1 + (pos - a - 1) = pos /\ pos <= Len(file)
            <7>1. a <= pos /\ pos <= a + 1 + s
              BY <4>3, <4>4
            <7> HIDE DEF a, s
            <7> QED BY <4>2, <4>4, <5>3, <7>1, <1>4
          <6>2. file[pos] = RowField(n, pos - a - 1)
            BY <6>1, <1>1 DEF Written
          <6> QED BY <6>2 DEF RowField
        <5> QED BY <5>1, <5>2, <5>3
      <4> QED BY <4>5, <2>7 DEF Has, Field
    <3> QED BY <3>1, <2>3, <2>7 DEF Field, TooLarge
  <2>8. CASE Between /\ (pos + 1 \in DOMAIN file => file[pos + 1].n > MaxRows)
    <3>1. pos > 1 /\ counts.rows = 0
      BY <2>8 DEF Between
    <3>2. PICK n \in Saved \ DOMAIN loaded : at[n] = pos
      BY <1>0, <1>1, <2>6, <3>1, NextTable
    <3>3. pos + 1 <= Len(file)
      <4>1. LastField(at, n) <= Len(file) /\ LastField(at, n) = at[n] + 1 + Size(n) /\ Size(n) \in Nat
        BY <1>4, <2>1, <3>2 DEF IsWhole
      <4> QED BY <4>1, <3>2, <1>4, <2>2
    <3>4. file[pos + 1] = RowsField(n)
      BY <1>1, <3>2, <3>3 DEF Written
    <3>5. pos + 1 \in DOMAIN file
      BY <1>4, <2>2, <3>3
    <3>6. Size(n) > MaxRows /\ n \in DOMAIN source
      BY <2>8, <3>2, <3>4, <3>5, <1>4 DEF RowsField
    <3> QED BY <3>6 DEF TooLarge, Size
  <2> QED BY <2>6, <2>7, <2>8 DEF Throw
<1>6. Phases'
  <2>1. phase' = "thrown" /\ lost' = lost /\ source' = source
    BY DEF Throw
  <2>2. TooLarge' = TooLarge
    BY <2>1 DEF TooLarge
  <2>3. phase' = "thrown" => lost' \/ TooLarge'
    BY <1>5, <2>1, <2>2
  <2> QED BY <2>1, <2>3 DEF Phases
<1>7. \A m \in DOMAIN loaded' : Copied(m)'
  BY <1>0 DEF Copied, Throw
<1>8. source' \in Catalogs /\ left' \subseteq DOMAIN source' /\ lost' \in BOOLEAN
  BY <1>0 DEF Throw
<1> QED BY <1>2, <1>3, <1>6, <1>7, <1>8 DEF ImageInv

(* The layout of the file and what has been read of it, in every state.    *)
THEOREM ImageInvariant == CheckpointSpec => []ImageInv
<1>1. ImageInv /\ [CheckpointNext]_imageVars => ImageInv'
  <2> SUFFICES ASSUME ImageInv, [CheckpointNext]_imageVars PROVE ImageInv'
    OBVIOUS
  <2>1. ASSUME NEW n \in left, SaveTable(n) PROVE ImageInv'
    BY <2>1, SaveTableImage
  <2>2. CASE Reopen
    BY <2>2, ReopenImage
  <2>3. CASE LoadTableCount
    BY <2>3, LoadTableCountImage
  <2>4. CASE LoadTable
    BY <2>4, LoadTableImage
  <2>5. CASE LoadRow
    BY <2>5, LoadRowImage
  <2>6. CASE Finish
    BY <2>6, FinishImage
  <2>7. CASE Throw
    BY <2>7, ThrowImage
  <2>8. CASE UNCHANGED imageVars
    <3>1. PICK at \in Places : Laid(at) /\ Written(at) /\ Lacks(at) /\ Passed(at)
      BY DEF ImageInv
    <3>2. Saved' = Saved /\ Places' = Places
          /\ \A n : Size(n)' = Size(n) /\ LastField(at, n)' = LastField(at, n)
      BY <2>8 DEF imageVars, Saved, Places, Size, LastField
    <3>3. Laid(at)' /\ Written(at)' /\ Lacks(at)' /\ Passed(at)'
      BY <2>8, <3>1, <3>2 DEF imageVars, Laid, Written, Lacks, IsWhole, Passed, Begun,
         TableField, RowsField, RowField, ColumnTypes
    <3>4. Phases' /\ \A m \in DOMAIN loaded' : Copied(m)'
      BY <2>8 DEF imageVars, ImageInv, Phases, TooLarge, Copied
    <3>5. source' \in Catalogs /\ left' \subseteq DOMAIN source' /\ lost' \in BOOLEAN
      BY <2>8 DEF imageVars, ImageInv
    <3> QED BY <3>1, <3>2, <3>3, <3>4, <3>5 DEF ImageInv
  <2> QED BY <2>1, <2>2, <2>3, <2>4, <2>5, <2>6, <2>7, <2>8 DEF CheckpointNext
<1> QED BY InitImage, <1>1, PTL DEF CheckpointSpec

(* A file that lost its tail is never taken for a smaller database,        *)
(* wherever it was cut.                                                    *)
THEOREM TornFileIsRejected == CheckpointSpec => []TornIsRejected
<1>1. ImageInv => TornIsRejected
  <2> SUFFICES ASSUME ImageInv, phase = "loaded" PROVE ~lost
    BY DEF TornIsRejected
  <2>1. pos > 1 /\ counts.rows = 0 /\ counts.tables = 0
    BY DEF ImageInv, Phases
  <2> QED BY <2>1, AllTablesRead
<1> QED BY <1>1, ImageInvariant, PTL

(* What is loaded is what was saved: all the tables, with their columns'   *)
(* types and their rows, and a plain table in every respect.  A complete   *)
(* file is refused only if it is over a limit.                             *)
THEOREM LoadAfterSave == CheckpointSpec => []RoundTrip
<1>1. ImageInv => RoundTrip
  <2> SUFFICES ASSUME ImageInv PROVE RoundTrip
    OBVIOUS
  <2>1. phase = "thrown" => lost \/ TooLarge
    BY DEF ImageInv, Phases
  <2>2. ASSUME phase = "loaded"
        PROVE  /\ DOMAIN loaded = DOMAIN source
               /\ \A n \in DOMAIN source :
                    /\ ColumnTypes(loaded[n]) = ColumnTypes(source[n])
                    /\ Len(loaded[n].rows) = Len(source[n].rows)
                    /\ Plain(source[n]) => loaded[n] = source[n]
    <3>1. pos > 1 /\ counts.rows = 0 /\ counts.tables = 0
      BY <2>2 DEF ImageInv, Phases
    <3>2. DOMAIN loaded = DOMAIN source /\ \A n \in DOMAIN source : Len(loaded[n].rows) = Size(n)
      BY <2>2, <3>1, AllTablesRead
    <3>3. ASSUME NEW n \in DOMAIN source
          PROVE  /\ ColumnTypes(loaded[n]) = ColumnTypes(source[n])
                 /\ Plain(source[n]) => loaded[n] = source[n]
      <4> DEFINE types == ColumnTypes(source[n])
                 back  == loaded[n].rows
                 rows  == source[n].rows
      <4>1. /\ loaded[n] = [NewTable(types) EXCEPT !.rows = back] /\ IsSequence(back)
            /\ Plain(source[n]) => \A r \in 1 .. Len(back) : back[r] = rows[r]
        BY <3>2 DEF ImageInv, Copied
      <4>2. /\ loaded[n] = [cols |-> NewTable(types).cols, rows |-> back, live |-> FALSE]
        <5> HIDE DEF back
        <5> QED BY <4>1 DEF NewTable
      <4>3. loaded[n].cols = [i \in DOMAIN source[n].cols |->
                                [type |-> source[n].cols[i].type, notNull |-> FALSE, pk |-> FALSE]]
        <5>1. NewTable(types).cols = [i \in DOMAIN source[n].cols |->
                [type |-> source[n].cols[i].type, notNull |-> FALSE, pk |-> FALSE]]
          BY DEF NewTable, ColumnTypes
        <5>2. loaded[n].cols = NewTable(types).cols
          <6> HIDE DEF types, back
          <6> QED BY <4>2
        <5> QED BY <5>1, <5>2
      <4>4. ColumnTypes(loaded[n]) = types
        BY <4>3 DEF ColumnTypes
      <4>5. ASSUME Plain(source[n]) PROVE loaded[n] = source[n]
        <5>1. source[n] \in [cols : Seq([type : Types, notNull : BOOLEAN, pk : BOOLEAN]),
                             rows : Seq(Seq(Int \cup {Null})), live : BOOLEAN]
              /\ IsSequence(rows)
          BY SourceType DEF ImageInv, IsTable
        <5>2. source[n] = [cols |-> source[n].cols, rows |-> rows, live |-> source[n].live]
              /\ source[n].live = FALSE
          BY <4>5, <5>1 DEF Plain
        <5>3. back = rows
          <6>1. Len(back) = Len(rows) /\ \A r \in 1 .. Len(back) : back[r] = rows[r]
            BY <3>2, <4>1, <4>5 DEF Size
          <6>2. IsSequence(back) /\ IsSequence(rows)
            BY <4>1, <5>1
          <6> HIDE DEF back, rows
          <6> DEFINE S == {back[i] : i \in DOMAIN back} \cup {rows[i] : i \in DOMAIN rows}
          <6>3. back \in Seq(S) /\ rows \in Seq(S)
            <7>1. back \in Seq({back[i] : i \in DOMAIN back}) /\ rows \in Seq({rows[i] : i \in DOMAIN rows})
              BY <6>2 DEF IsSequence
            <7> QED BY <7>1
          <6> HIDE DEF S
          <6> QED BY <6>1, <6>3
        <5>4. loaded[n].cols = source[n].cols
          <6> DEFINE cols == source[n].cols
                     C == [type : Types, notNull : BOOLEAN, pk : BOOLEAN]
          <6>1. cols \in Seq(C)
            BY <5>1
          <6>2. \A i \in DOMAIN cols : cols[i] = [type |-> cols[i].type, notNull |-> FALSE, pk |-> FALSE]
            <7>1. ASSUME NEW i \in DOMAIN cols
                  PROVE  cols[i] = [type |-> cols[i].type, notNull |-> FALSE, pk |-> FALSE]
              <8>1. cols[i] \in C
                <9> HIDE DEF cols, C
                <9> QED BY <6>1, <7>1
              <8>2. cols[i].notNull = FALSE /\ cols[i].pk = FALSE
                BY <4>5, <8>1 DEF Plain
              <8> QED BY <8>1, <8>2
            <7> QED BY <7>1
          <6>3. cols = [i \in DOMAIN cols |-> cols[i]]
            <7> HIDE DEF cols, C
            <7> QED BY <6>1
          <6>4. loaded[n].cols = [i \in DOMAIN cols |-> [type |-> cols[i].type, notNull |-> FALSE, pk |-> FALSE]]
            BY <4>3
          <6> HIDE DEF cols
          <6>5. loaded[n].cols = cols
            BY <6>2, <6>3, <6>4
          <6> QED BY <6>5 DEF cols
        <5>5. loaded[n].cols = NewTable(types).cols
          BY <4>2
        <5> HIDE DEF back, rows, types
        <5> QED BY <4>2, <5>2, <5>3, <5>4, <5>5
      <4> QED BY <4>4, <4>5
    <3> QED BY <3>2, <3>3 DEF Size
  <2> QED BY <2>1, <2>2 DEF RoundTrip
<1> QED BY <1>1, ImageInvariant, PTL

-----------------------------------------------------------------------------
(* The file                                                                *)

(* While sessions follow one another, path and path.tmp name different      *)
(* files, and only a process that is writing has a file open, the one      *)
(* path.tmp names.                                                         *)
NamesInv ==
  ~overlap =>
    /\ \A p, q \in Procs : p # q => st[p] = "closed" \/ st[q] = "closed"
    /\ main # NoFile => main # tmp
    /\ \A p \in Procs : IF st[p] = "writing" THEN handle[p] = tmp /\ tmp # NoFile
                                             ELSE handle[p] = NoFile
    /\ \A p \in Procs : st[p] = "removed" => main = NoFile

(* A finished path.tmp holds the catalog of the session that wrote it, and *)
(* a session's catalog has everything saved before.                        *)
SessionInv ==
  Undisturbed => \A p \in Procs :
    /\ st[p] \in {"ready", "removed"} => tmp # NoFile /\ content[tmp] = Image(cat[p])
    /\ ~cut /\ st[p] # "closed" => saved \subseteq cat[p]

FileInv == TypeOK /\ NamesInv /\ SessionInv /\ MainIsWhole /\ SavedIsKept

USE DatabaseFileAssumption
    DEF files, history, Goto, Content, Blank, Image, Holds, Undisturbed
-----------------------------------------------------------------------------
(* The state of the file and of the sessions is well typed.                *)
LEMMA NextTypeOK == TypeOK /\ [Next]_vars => TypeOK'
<1> SUFFICES ASSUME TypeOK, [Next]_vars PROVE TypeOK'
  OBVIOUS
<1> USE DEF TypeOK
<1>1. ASSUME NEW p \in Procs, Open(p) PROVE TypeOK'
  <2>1. main # NoFile => content[main].image \subseteq Changes
    OBVIOUS
  <2>2. st' \in [Procs -> {"closed", "open", "writing", "ready", "removed"}]
    BY <1>1 DEF Open
  <2>3. cat' \in [Procs -> SUBSET Changes]
    BY <1>1, <2>1 DEF Open
  <2>4. UNCHANGED <<files, diskFull, crashes, saved, cut>> /\ overlap' \in BOOLEAN
    BY <1>1 DEF Open
  <2>5. diskFull' \in BOOLEAN /\ cut' \in BOOLEAN /\ overlap' \in BOOLEAN
    BY <2>4
  <2>6. content' \in [Files -> Content]
    BY <2>4
  <2>7. \A q \in Procs : handle'[q] # NoFile <=> st'[q] = "writing"
    BY <1>1 DEF Open
  <2> QED BY <2>2, <2>3, <2>4, <2>5, <2>6, <2>7
<1>2. ASSUME NEW p \in Procs, NEW c \in Changes, Change(p, c) PROVE TypeOK'
  BY <1>2 DEF Change
<1>3. ASSUME NEW p \in Procs, CreateTmp(p) PROVE TypeOK'
  BY <1>3 DEF CreateTmp
<1>4. ASSUME NEW p \in Procs, FinishTmp(p) PROVE TypeOK'
  <2>1. PICK c \in {Image(cat[p]), Blank} : content' = [content EXCEPT ![handle[p]] = c]
    BY <1>4 DEF FinishTmp
  <2>2. c \in Content
    OBVIOUS
  <2>3. content' \in [Files -> Content]
    BY <2>1, <2>2
  <2>4. /\ handle' \in [Procs -> Files \cup {NoFile}]
        /\ st' \in [Procs -> {"closed", "open", "writing", "ready", "removed"}]
        /\ UNCHANGED <<main, tmp, cat, diskFull, history>>
    BY <1>4 DEF FinishTmp
  <2>5. \A q \in Procs : handle'[q] # NoFile <=> st'[q] = "writing"
    BY <1>4 DEF FinishTmp
  <2> QED BY <2>3, <2>4, <2>5
<1>5. ASSUME NEW p \in Procs, SaveThrows(p) PROVE TypeOK'
  BY <1>5 DEF SaveThrows
<1>6. ASSUME NEW p \in Procs, RemoveMain(p) PROVE TypeOK'
  BY <1>6 DEF RemoveMain
<1>7. ASSUME NEW p \in Procs, RenameTmp(p) PROVE TypeOK'
  BY <1>7 DEF RenameTmp
<1>8. ASSUME NEW p \in Procs, Crash(p) PROVE TypeOK'
  <2>1. cut' \in BOOLEAN
    BY <1>8 DEF Crash
  <2> QED BY <1>8, <2>1 DEF Crash
<1>9. CASE FillDisk
  BY <1>9 DEF FillDisk
<1>10. CASE UNCHANGED vars
  BY <1>10 DEF vars
<1> QED
  BY <1>1, <1>2, <1>3, <1>4, <1>5, <1>6, <1>7, <1>8, <1>9, <1>10 DEF Next, Close

LEMMA InitTypeOK == Init => TypeOK
<1> SUFFICES ASSUME Init PROVE TypeOK
  OBVIOUS
<1>1. diskFull \in BOOLEAN /\ cut \in BOOLEAN /\ overlap \in BOOLEAN
  BY DEF Init
<1>2. content \in [Files -> Content]
  BY DEF Init
<1> QED BY <1>1, <1>2 DEF Init, TypeOK

(* ... whatever the processes do.                                          *)
THEOREM FileTypeCorrect == Spec => []TypeOK
  BY InitTypeOK, NextTypeOK, PTL DEF Spec
-----------------------------------------------------------------------------
(* A step of one process, while all the others have the database closed,   *)
(* keeps the names apart, the saved changes in reach and path complete.    *)
LEMMA StepIInv ==
  ASSUME NEW p \in Procs, FileInv, TypeOK', ~overlap',
         Open(p) \/ Close(p) \/ Crash(p) \/ \E c \in Changes : Change(p, c)
  PROVE  NamesInv' /\ SessionInv' /\ MainIsWhole' /\ SavedIsKept'
<1> USE DEF FileInv, NamesInv, SessionInv, MainIsWhole, SavedIsKept
<1>a. ~overlap
  BY DEF Open, Close, Change, CreateTmp, FinishTmp, SaveThrows, RemoveMain, RenameTmp, Crash, TypeOK
<1>b. \A q \in Procs : q # p => st[q] = "closed" /\ handle[q] = NoFile
  BY <1>a DEF Open, Close, Change, CreateTmp, FinishTmp, SaveThrows, RemoveMain, RenameTmp, Crash, TypeOK
<1>1. CASE Open(p)
  <2>1. /\ st[p] = "closed" /\ st' = [st EXCEPT ![p] = "open"]
        /\ UNCHANGED <<main, tmp, content, handle, diskFull, crashes, saved, cut>>
        /\ main # NoFile => content[main].is = "whole"
        /\ cat' = [cat EXCEPT ![p] = IF main = NoFile THEN {} ELSE content[main].image]
    BY <1>1 DEF Open
  <2>2. ~diskFull /\ ~cut => saved \subseteq cat'[p]
    BY <2>1, <1>a, <1>b DEF TypeOK
  <2> QED BY <1>a, <1>b, <2>1, <2>2 DEF TypeOK
<1>2. ASSUME NEW c \in Changes, Change(p, c)
      PROVE  NamesInv' /\ SessionInv' /\ MainIsWhole' /\ SavedIsKept'
  <2>1. /\ st[p] = "open" /\ UNCHANGED <<main, tmp, content, handle, st, diskFull, saved, cut, overlap>>
        /\ cat' = [cat EXCEPT ![p] = @ \cup {c}]
    BY <1>2 DEF Change
  <2>2. NamesInv'
    BY <1>a, <2>1
  <2>3. SessionInv'
    BY ZenonT(60), <1>a, <1>b, <2>1 DEF TypeOK
  <2> QED BY <1>a, <2>1, <2>2, <2>3
<1>3. CASE CreateTmp(p)
  BY <1>a, <1>b, <1>3 DEF CreateTmp, TypeOK
<1>4. CASE FinishTmp(p)
  <2>1. handle[p] = tmp /\ tmp # NoFile /\ main # tmp /\ st[p] = "writing"
    BY <1>a, <1>4 DEF FinishTmp
  <2>2. ~Shared(p)
    BY <1>b, <2>1 DEF Shared
  <2>3. /\ st' = [st EXCEPT ![p] = "ready"] /\ handle' = [handle EXCEPT ![p] = NoFile]
        /\ UNCHANGED <<main, tmp, cat, diskFull, saved, cut, overlap>>
        /\ ~diskFull => content' = [content EXCEPT ![tmp] = Image(cat[p])]
    <3>1. PICK c \in {Image(cat[p])} \cup (IF diskFull \/ Shared(p) THEN {Blank} ELSE {}) :
             content' = [content EXCEPT ![handle[p]] = c]
      BY <1>4 DEF FinishTmp
    <3>2. ~diskFull => c = Image(cat[p])
      BY <2>2
    <3>3. ~diskFull => content' = [content EXCEPT ![tmp] = Image(cat[p])]
      BY <3>1, <3>2, <2>1
    <3> QED BY <1>4, <3>3 DEF FinishTmp
  <2>4. NamesInv'
    BY <1>a, <1>b, <2>1, <2>3 DEF TypeOK
  <2>5. SessionInv'
    BY <1>a, <1>b, <2>1, <2>3 DEF TypeOK
  <2>6. MainIsWhole'
    BY <1>a, <2>1, <2>3 DEF TypeOK
  <2>7. SavedIsKept'
    BY <1>a, <1>b, <2>1, <2>3 DEF TypeOK
  <2> QED BY <2>4, <2>5, <2>6, <2>7
<1>5. CASE SaveThrows(p)
  <2>1. /\ diskFull' /\ ~overlap' /\ st' = [st EXCEPT ![p] = "closed"]
        /\ handle' = [handle EXCEPT ![p] = NoFile] /\ UNCHANGED <<main, tmp>>
    BY <1>a, <1>5 DEF SaveThrows
  <2>2. NamesInv'
    BY <1>a, <1>b, <2>1 DEF TypeOK
  <2> QED BY <2>1, <2>2
<1>6. CASE RemoveMain(p)
  <2>1. /\ st[p] = "ready" /\ main' = NoFile /\ st' = [st EXCEPT ![p] = "removed"]
        /\ UNCHANGED <<tmp, content, handle, cat, diskFull, saved, cut, overlap>>
    BY <1>6 DEF RemoveMain
  <2>2. NamesInv'
    BY <1>a, <1>b, <2>1 DEF TypeOK
  <2>3. SessionInv'
    BY <1>a, <1>b, <2>1 DEF TypeOK
  <2>4. ASSUME ~diskFull, ~cut PROVE Holds(tmp, saved)
    <3>1. tmp # NoFile /\ content[tmp] = Image(cat[p])
      BY <1>a, <2>1, <2>4
    <3>2. saved \subseteq cat[p]
      BY <1>a, <2>1, <2>4
    <3> QED BY <3>1, <3>2
  <2>5. st'[p] = "removed"
    BY <2>1 DEF TypeOK
  <2>6. SavedIsKept'
    BY <2>1, <2>4, <2>5
  <2> QED BY <2>1, <2>2, <2>3, <2>6
<1>7. CASE RenameTmp(p)
  <2>1. /\ st[p] = "removed" /\ tmp' = NoFile /\ st' = [st EXCEPT ![p] = "closed"]
        /\ main' = IF tmp # NoFile THEN tmp ELSE main
        /\ saved' = saved \cup cat[p]
        /\ UNCHANGED <<content, handle, cat, diskFull, cut, overlap>>
    BY <1>7 DEF RenameTmp
  <2>2. ~diskFull => tmp # NoFile /\ content[tmp] = Image(cat[p])
    BY <1>a, <2>1
  <2>3. \A q \in Procs : st'[q] = "closed" /\ handle'[q] = NoFile
    BY <1>a, <1>b, <2>1 DEF TypeOK
  <2>4. main' # NoFile => main' # tmp'
    BY <2>1
  <2>5. NamesInv' /\ SessionInv'
    BY <2>3, <2>4
  <2>6. MainIsWhole'
    BY <1>a, <2>1, <2>2
  <2>7. ~diskFull /\ ~cut => saved' \subseteq cat[p]
    BY <1>a, <2>1
  <2>8. ASSUME ~diskFull, ~cut PROVE Holds(tmp, saved')
    <3>1. tmp # NoFile /\ content[tmp] = Image(cat[p])
      BY <2>2, <2>8
    <3>2. saved' \subseteq cat[p]
      BY <2>7, <2>8
    <3> QED BY <3>1, <3>2
  <2>9. SavedIsKept'
    BY <1>a, <2>1, <2>2, <2>3, <2>8
  <2> QED BY <2>5, <2>6, <2>9
<1>8. CASE Crash(p)
  BY ZenonT(60), <1>a, <1>b, <1>8 DEF Crash, TypeOK
<1> QED
  BY <1>1, <1>2, <1>3, <1>4, <1>5, <1>6, <1>7, <1>8 DEF Close

LEMMA NextIInv == FileInv /\ [Next]_vars => FileInv'
<1> SUFFICES ASSUME FileInv, [Next]_vars PROVE FileInv'
  OBVIOUS
<1>1. TypeOK'
  BY NextTypeOK DEF FileInv
<1>2. CASE overlap'
  BY <1>1, <1>2 DEF FileInv, NamesInv, SessionInv, MainIsWhole, SavedIsKept
<1>3. ASSUME ~overlap', NEW p \in Procs,
             Open(p) \/ Close(p) \/ Crash(p) \/ \E c \in Changes : Change(p, c)
      PROVE  FileInv'
  BY <1>1, <1>3, StepIInv DEF FileInv
<1>4. CASE FillDisk
  BY <1>1, <1>4 DEF FillDisk, FileInv, NamesInv, SessionInv, MainIsWhole, SavedIsKept, TypeOK
<1>5. CASE UNCHANGED vars
  BY <1>1, <1>5 DEF vars, FileInv, NamesInv, SessionInv, MainIsWhole, SavedIsKept, TypeOK
<1> QED
  BY <1>2, <1>3, <1>4, <1>5 DEF Next

LEMMA InitIInv == Init => FileInv
  BY InitTypeOK DEF Init, FileInv, NamesInv, SessionInv, MainIsWhole, SavedIsKept

(* Sessions that follow one another, wherever they crash: path never names *)
(* a partial file ...                                                      *)
THEOREM FileIsWhole == Spec => []MainIsWhole
<1>1. FileInv => MainIsWhole
  BY DEF FileInv
<1> QED BY InitIInv, NextIInv, <1>1, PTL DEF Spec

(* ... and what they saved is lost only to a crash between the two calls.  *)
THEOREM NothingSavedIsLost == Spec => []SavedIsKept
<1>1. FileInv => SavedIsKept
  BY DEF FileInv
<1> QED BY InitIInv, NextIInv, <1>1, PTL DEF Spec

(* path is given up only for a complete path.tmp that has everything path  *)
(* has: the catalog of an open session has all that path holds.            *)
KeepsSaved == Undisturbed /\ main # NoFile =>
                \A p \in Procs : st[p] # "closed" => content[main].image \subseteq cat[p]

LEMMA NextKeepsSaved == FileInv /\ KeepsSaved /\ [Next]_vars => KeepsSaved'
<1> SUFFICES ASSUME FileInv, KeepsSaved, [Next]_vars, Undisturbed', main' # NoFile,
                    NEW q \in Procs, st'[q] # "closed"
             PROVE  content'[main'].image \subseteq cat'[q]
  BY DEF KeepsSaved
<1> USE DEF FileInv, NamesInv, SessionInv, MainIsWhole, TypeOK, KeepsSaved
<1>1. ASSUME NEW p \in Procs, Open(p) PROVE content'[main'].image \subseteq cat'[q]
  BY <1>1 DEF Open
<1>2. ASSUME NEW p \in Procs, NEW c \in Changes, Change(p, c)
      PROVE  content'[main'].image \subseteq cat'[q]
  BY <1>2 DEF Change
<1>3. ASSUME NEW p \in Procs, CreateTmp(p) PROVE content'[main'].image \subseteq cat'[q]
  BY <1>3 DEF CreateTmp
<1>4. ASSUME NEW p \in Procs, FinishTmp(p) PROVE content'[main'].image \subseteq cat'[q]
  BY <1>4 DEF FinishTmp, Shared
<1>5. ASSUME NEW p \in Procs, SaveThrows(p) \/ RemoveMain(p)
      PROVE  content'[main'].image \subseteq cat'[q]
  BY <1>5 DEF SaveThrows, RemoveMain
<1>6. ASSUME NEW p \in Procs, RenameTmp(p) PROVE content'[main'].image \subseteq cat'[q]
  BY <1>6 DEF RenameTmp
<1>7. ASSUME NEW p \in Procs, Crash(p) PROVE content'[main'].image \subseteq cat'[q]
  BY <1>7 DEF Crash
<1>8. CASE FillDisk \/ UNCHANGED vars
  BY <1>8 DEF FillDisk, vars
<1> QED
  BY <1>1, <1>2, <1>3, <1>4, <1>5, <1>6, <1>7, <1>8 DEF Next, Close

THEOREM ReplacesWhenReady == Spec => ReplacedOnlyWhenReady
<1>1. Init => KeepsSaved
  BY DEF Init, KeepsSaved
<1>2. FileInv /\ KeepsSaved /\ [Next]_vars
        => [main # NoFile /\ main' = NoFile /\ Undisturbed
              => Holds(tmp, content[main].image)]_vars
  <2> SUFFICES ASSUME FileInv, KeepsSaved, [Next]_vars,
                      main # NoFile, main' = NoFile, Undisturbed
               PROVE  Holds(tmp, content[main].image)
    OBVIOUS
  <2>1. PICK p \in Procs : RemoveMain(p)
    BY DEF Next, Close, Open, Change, CreateTmp, FinishTmp, SaveThrows,
           RenameTmp, Crash, FillDisk, vars, FileInv, NamesInv, TypeOK
  <2>2. content[main].image \subseteq cat[p] /\ tmp # NoFile /\ content[tmp] = Image(cat[p])
    BY <2>1 DEF RemoveMain, FileInv, SessionInv, KeepsSaved
  <2> QED BY <2>2
<1> QED BY InitIInv, NextIInv, NextKeepsSaved, <1>1, <1>2, PTL DEF Spec, ReplacedOnlyWhenReady

-----------------------------------------------------------------------------
(* Rows that were made one after another                                   *)

LEMMA NewRowsAre ==
  ASSUME NEW a \in Nat, NEW n \in Nat
  PROVE  /\ NewRows(a, n) \in Seq(Nat) /\ Len(NewRows(a, n)) = n
         /\ \A i \in 1 .. n : NewRows(a, n)[i] = a + i
         /\ NewRows(a, n) = <<>> <=> n = 0
<1>1. NewRows(a, n) \in Seq(Nat) /\ Len(NewRows(a, n)) = n
  <2>1. \A i \in 1 .. n : a + i \in Nat
    OBVIOUS
  <2> QED BY <2>1 DEF NewRows
<1>2. \A i \in 1 .. n : NewRows(a, n)[i] = a + i
  BY DEF NewRows
<1> QED BY <1>1, <1>2

LEMMA NewRowsJoin ==
  ASSUME NEW a \in Nat, NEW m \in Nat, NEW n \in Nat
  PROVE  NewRows(a, m) \o NewRows(a + m, n) = NewRows(a, m + n)
<1> DEFINE s == NewRows(a, m)
           t == NewRows(a + m, n)
           u == NewRows(a, m + n)
<1>1. s \in Seq(Nat) /\ Len(s) = m /\ \A i \in 1 .. m : s[i] = a + i
  BY NewRowsAre
<1>2. t \in Seq(Nat) /\ Len(t) = n /\ \A i \in 1 .. n : t[i] = a + m + i
  <2>1. a + m \in Nat
    OBVIOUS
  <2> QED BY <2>1, NewRowsAre
<1>3. u \in Seq(Nat) /\ Len(u) = m + n /\ \A i \in 1 .. m + n : u[i] = a + i
  <2>1. m + n \in Nat
    OBVIOUS
  <2> QED BY <2>1, NewRowsAre
<1> HIDE DEF s, t, u
<1>4. /\ s \o t \in Seq(Nat) /\ Len(s \o t) = m + n
      /\ \A i \in 1 .. m + n : (s \o t)[i] = IF i <= m THEN s[i] ELSE t[i - m]
  BY ZenonT(60), <1>1, <1>2, ConcatProperties
<1>5. ASSUME NEW i \in 1 .. m + n PROVE (s \o t)[i] = u[i]
  <2>0. i \in Int /\ (i <= m \/ i > m)
    OBVIOUS
  <2>1. CASE i <= m
    BY <1>1, <1>3, <1>4, <2>1
  <2>2. CASE i > m
    <3>1. i - m \in 1 .. n /\ a + m + (i - m) = a + i
      BY <2>0, <2>2
    <3>2. (s \o t)[i] = t[i - m]
      BY <1>4, <2>0, <2>2
    <3>3. t[i - m] = a + i
      BY <1>2, <3>1
    <3> QED BY <1>3, <3>2, <3>3
  <2> QED BY <2>0, <2>1, <2>2
<1>6. s \o t = u
  BY <1>3, <1>4, <1>5, SeqEqual
<1> QED BY <1>6 DEF s, t, u

LEMMA NewRowsPart ==
  ASSUME NEW a \in Nat, NEW n \in Nat, NEW i \in 0 .. n, NEW j \in i .. n
  PROVE  SubSeq(NewRows(a, n), i + 1, j) = NewRows(a + i, j - i)
<1> DEFINE s == NewRows(a, n)
           t == NewRows(a + i, j - i)
           u == SubSeq(s, i + 1, j)
<1>0. i \in Nat /\ j \in Nat /\ i <= j /\ j <= n /\ j - i \in Nat /\ a + i \in Nat
  OBVIOUS
<1>1. s \in Seq(Nat) /\ Len(s) = n /\ \A k \in 1 .. n : s[k] = a + k
  BY NewRowsAre
<1>2. t \in Seq(Nat) /\ Len(t) = j - i /\ \A k \in 1 .. j - i : t[k] = a + i + k
  BY <1>0, NewRowsAre
<1> HIDE DEF s, t
<1>3. u \in Seq(Nat) /\ Len(u) = j - i /\ \A k \in 1 .. j - i : u[k] = s[i + k]
  <2>1. \A k \in i + 1 .. j : s[k] \in Nat
    BY <1>0, <1>1
  <2>2. /\ u \in Seq(Nat)
        /\ Len(u) = IF i + 1 <= j THEN j - (i + 1) + 1 ELSE 0
        /\ \A k \in 1 .. j - (i + 1) + 1 : u[k] = s[i + 1 + k - 1]
    <3>1. i + 1 \in Int /\ j \in Int
      BY <1>0
    <3> QED BY <2>1, <3>1, SubSeqProperties
  <2>3. \A k \in 1 .. j - i : k \in 1 .. j - (i + 1) + 1 /\ i + 1 + k - 1 = i + k
    BY <1>0
  <2>4. (IF i + 1 <= j THEN j - (i + 1) + 1 ELSE 0) = j - i
    BY <1>0
  <2> HIDE DEF u
  <2> QED BY <2>2, <2>3, <2>4
<1> HIDE DEF u
<1>4. ASSUME NEW k \in 1 .. j - i PROVE u[k] = t[k]
  <2>1. i + k \in 1 .. n /\ a + (i + k) = a + i + k
    BY <1>0
  <2> QED BY <1>1, <1>2, <1>3, <2>1
<1>5. u = t
  BY <1>2, <1>3, <1>4, SeqEqual
<1> QED BY <1>5 DEF s, t, u

-----------------------------------------------------------------------------
(* A table is a run of groups, each of which begins where another ends      *)

Group == [start_row : Nat, rows : Seq(Nat)]

StartOf(r, total, g) == IF g <= Len(r) THEN r[g].start_row ELSE total
SizeOf(r, total, g)  == StartOf(r, total, g + 1) - StartOf(r, total, g)

Complete(r, total) ==
  /\ r \in Seq(Group) /\ total \in Nat
  /\ StartOf(r, total, 1) = 0
  /\ \A g \in 1 .. Len(r) :
       /\ SizeOf(r, total, g) \in 1 .. ROW_GROUP_SIZE
       /\ r[g].rows = NewRows(r[g].start_row, SizeOf(r, total, g))

(* Groups stay where they are, and the last one may grow.                  *)
Grown(r, total, q, more) ==
  /\ Complete(q, more)
  /\ Len(r) <= Len(q) /\ total <= more
  /\ \A g \in 1 .. Len(r) :
       /\ StartOf(q, more, g) = StartOf(r, total, g)
       /\ StartOf(r, total, g + 1) <= StartOf(q, more, g + 1)

LEMMA StartsAre ==
  ASSUME NEW r, NEW total, Complete(r, total)
  PROVE  /\ Len(r) \in Nat /\ total \in Nat
         /\ \A g \in 1 .. Len(r) + 1 : StartOf(r, total, g) \in Nat
         /\ \A g \in 1 .. Len(r) :
              /\ g + 1 \in 1 .. Len(r) + 1
              /\ SizeOf(r, total, g) \in Nat \ {0} /\ SizeOf(r, total, g) <= ROW_GROUP_SIZE
              /\ StartOf(r, total, g + 1) = StartOf(r, total, g) + SizeOf(r, total, g)
              /\ r[g].rows = NewRows(StartOf(r, total, g), SizeOf(r, total, g))
              /\ Len(r[g].rows) = SizeOf(r, total, g)
<1>1. r \in Seq(Group) /\ total \in Nat /\ Len(r) \in Nat
  BY DEF Complete
<1>2. ASSUME NEW g \in 1 .. Len(r) + 1 PROVE StartOf(r, total, g) \in Nat
  <2>1. CASE g <= Len(r)
    <3>1. r[g] \in Group
      BY <1>1, <2>1
    <3> QED BY <2>1, <3>1 DEF StartOf, Group
  <2> QED BY <1>1, <2>1 DEF StartOf
<1>3. ASSUME NEW g \in 1 .. Len(r)
      PROVE  /\ g + 1 \in 1 .. Len(r) + 1
             /\ SizeOf(r, total, g) \in Nat \ {0} /\ SizeOf(r, total, g) <= ROW_GROUP_SIZE
             /\ StartOf(r, total, g + 1) = StartOf(r, total, g) + SizeOf(r, total, g)
             /\ r[g].rows = NewRows(StartOf(r, total, g), SizeOf(r, total, g))
             /\ Len(r[g].rows) = SizeOf(r, total, g)
  <2>1. g + 1 \in 1 .. Len(r) + 1 /\ g \in 1 .. Len(r) + 1 /\ g <= Len(r)
    BY <1>1
  <2>2. StartOf(r, total, g + 1) \in Nat /\ StartOf(r, total, g) \in Nat
    BY <1>2, <2>1
  <2>3. SizeOf(r, total, g) \in Nat \ {0} /\ SizeOf(r, total, g) <= ROW_GROUP_SIZE
    BY DataTableAssumption DEF Complete
  <2>4. StartOf(r, total, g + 1) = StartOf(r, total, g) + SizeOf(r, total, g)
    BY <2>2 DEF SizeOf
  <2>5. r[g].rows = NewRows(StartOf(r, total, g), SizeOf(r, total, g))
    BY <2>1 DEF Complete, StartOf
  <2>6. Len(r[g].rows) = SizeOf(r, total, g)
    BY <2>2, <2>3, <2>5, NewRowsAre
  <2> QED BY <2>1, <2>3, <2>4, <2>5, <2>6
<1> QED BY <1>1, <1>2, <1>3

(* What a table contains is its rows, numbered from 1.                     *)
RowsIn(r) == FlattenSeq([g \in DOMAIN r |-> r[g].rows])

LEMMA ContentsAre ==
  ASSUME NEW r, NEW total, Complete(r, total)
  PROVE  RowsIn(r) = NewRows(0, total)
<1> DEFINE parts(k) == [g \in 1 .. k |-> r[g].rows]
           R == Seq(Nat)
           N == Len(r)
           Right(k) == FlattenSeq(parts(k)) = NewRows(0, StartOf(r, total, k + 1))
           G == {k \in Nat : k <= N => Right(k)}
<1>1. r \in Seq(Group) /\ N \in Nat /\ DOMAIN r = 1 .. N
  BY DEF Complete
<1>2. ASSUME NEW k \in 0 .. N PROVE parts(k) \in Seq(R)
  <2>1. \A g \in 1 .. k : r[g].rows \in R
    <3>1. \A g \in 1 .. k : r[g] \in Group
      BY <1>1
    <3> QED BY <3>1 DEF Group
  <2>2. k \in Nat
    BY <1>1
  <2> HIDE DEF R
  <2> QED BY <2>1, <2>2
<1>3. 0 \in G
  <2>1. parts(0) = <<>>
    OBVIOUS
  <2>2. StartOf(r, total, 0 + 1) = 0
    BY DEF Complete
  <2>3. NewRows(0, 0) = <<>>
    BY NewRowsAre
  <2>4. Right(0)
    BY <2>1, <2>2, <2>3, FlattenEmpty
  <2> QED BY <2>4
<1>4. ASSUME NEW k \in Nat, k \in G PROVE k + 1 \in G
  <2> SUFFICES ASSUME k + 1 <= N PROVE Right(k + 1)
    <3> HIDE DEF Right
    <3> QED OBVIOUS
  <2>1. k \in 0 .. N /\ k + 1 \in 1 .. N /\ k + 1 \in 0 .. N
    BY <1>1
  <2> DEFINE e == r[k + 1].rows
             a == StartOf(r, total, k + 1)
             n == SizeOf(r, total, k + 1)
  <2>2. /\ a \in Nat /\ n \in Nat /\ e = NewRows(a, n) /\ e \in R
        /\ StartOf(r, total, (k + 1) + 1) = a + n
    <3>1. k + 1 \in 1 .. N + 1
      BY <1>1, <2>1
    <3>2. r[k + 1] \in Group
      BY <1>1, <2>1
    <3> QED BY <2>1, <3>1, <3>2, StartsAre DEF Group
  <2>3. parts(k + 1) = Append(parts(k), e)
    <3> DEFINE s == parts(k) t == parts(k + 1)
    <3>1. s \in Seq(R) /\ t \in Seq(R) /\ e \in R
      BY <1>2, <2>1, <2>2
    <3>2. Len(s) = k /\ Len(t) = k + 1 /\ \A i \in 1 .. k : t[i] = s[i]
      OBVIOUS
    <3>3. t[k + 1] = e
      OBVIOUS
    <3> HIDE DEF s, t, e, R
    <3>4. Append(s, e) \in Seq(R) /\ Len(Append(s, e)) = k + 1
      BY <3>1, <3>2
    <3>5. \A i \in 1 .. k + 1 : t[i] = Append(s, e)[i]
      BY <3>1, <3>2, <3>3
    <3>6. t = Append(s, e)
      BY <3>1, <3>2, <3>4, <3>5, SeqEqual
    <3> QED BY <3>6 DEF s, t, e
  <2>4. FlattenSeq(Append(parts(k), e)) = FlattenSeq(parts(k)) \o e
    <3>1. parts(k) \in Seq(R)
      BY <1>2, <2>1
    <3> HIDE DEF parts
    <3> QED BY <2>2, <3>1, FlattenAppend
  <2>5. FlattenSeq(parts(k)) = NewRows(0, a)
    BY <1>1, <1>4, <2>1
  <2>6. NewRows(0, a) \o NewRows(0 + a, n) = NewRows(0, a + n)
    <3> HIDE DEF a, n
    <3> QED BY <2>2, NewRowsJoin
  <2>7. 0 + a = a
    BY <2>2
  <2> HIDE DEF a, n, e, parts
  <2>8. FlattenSeq(parts(k + 1)) = NewRows(0, a + n)
    BY <2>2, <2>3, <2>4, <2>5, <2>6, <2>7
  <2> QED BY <2>2, <2>8
<1>5. \A k \in Nat : k \in G
  <2> HIDE DEF G
  <2> QED BY <1>3, <1>4, Induction
<1>6. N \in G
  BY <1>1, <1>5
<1>7. StartOf(r, total, N + 1) = total
  BY <1>1 DEF StartOf
<1> QED BY <1>1, <1>6, <1>7 DEF RowsIn

LEMMA GrownSame == ASSUME NEW r, NEW total, Complete(r, total) PROVE Grown(r, total, r, total)
<1>1. Len(r) \in Nat /\ total \in Nat
  BY StartsAre
<1>2. \A g \in 1 .. Len(r) : StartOf(r, total, g + 1) \in Nat
  BY StartsAre
<1> QED BY <1>1, <1>2 DEF Grown

LEMMA GrownTwice ==
  ASSUME NEW r, NEW a, NEW q, NEW b, NEW p, NEW c, Complete(r, a),
         Grown(r, a, q, b), Grown(q, b, p, c)
  PROVE  Grown(r, a, p, c)
<1>1. Complete(q, b) /\ Complete(p, c) /\ Len(r) <= Len(q) /\ Len(q) <= Len(p) /\ a <= b /\ b <= c
  BY DEF Grown
<1>2. Len(r) \in Nat /\ Len(q) \in Nat /\ Len(p) \in Nat /\ a \in Nat /\ b \in Nat /\ c \in Nat
  BY <1>1, StartsAre
<1>3. ASSUME NEW g \in 1 .. Len(r)
      PROVE  /\ StartOf(p, c, g) = StartOf(r, a, g)
             /\ StartOf(r, a, g + 1) <= StartOf(p, c, g + 1)
  <2>1. g \in 1 .. Len(q) /\ g + 1 \in 1 .. Len(r) + 1 /\ g + 1 \in 1 .. Len(q) + 1
        /\ g + 1 \in 1 .. Len(p) + 1
    BY <1>1, <1>2
  <2>2. /\ StartOf(r, a, g + 1) \in Nat /\ StartOf(q, b, g + 1) \in Nat
        /\ StartOf(p, c, g + 1) \in Nat
    BY <1>1, <2>1, StartsAre
  <2>3. /\ StartOf(q, b, g) = StartOf(r, a, g) /\ StartOf(p, c, g) = StartOf(q, b, g)
        /\ StartOf(r, a, g + 1) <= StartOf(q, b, g + 1)
        /\ StartOf(q, b, g + 1) <= StartOf(p, c, g + 1)
    BY <2>1 DEF Grown
  <2> QED BY <2>2, <2>3
<1> QED BY <1>1, <1>2, <1>3 DEF Grown

(* Push puts a run of rows behind a table.                                 *)
LEMMA PushGrows ==
  ASSUME NEW r, NEW total, Complete(r, total), NEW n \in 0 .. ROW_GROUP_SIZE
  PROVE  LET to == Push([groups |-> r, total |-> total], NewRows(total, n))
         IN  Grown(r, total, to.groups, to.total) /\ to.total = total + n
<1> DEFINE e == NewRows(total, n)
           to == Push([groups |-> r, total |-> total], e)
           N == Len(r)
<1>1. ROW_GROUP_SIZE \in Nat /\ n \in Nat /\ n <= ROW_GROUP_SIZE
  BY DataTableAssumption
<1>2. total \in Nat /\ N \in Nat /\ r \in Seq(Group)
  BY StartsAre DEF Complete
<1>3. e \in Seq(Nat) /\ Len(e) = n /\ (e = <<>> <=> n = 0)
  BY <1>1, <1>2, NewRowsAre
<1>4. CASE n = 0
  <2>1. to.groups = r /\ to.total = total
    BY <1>3, <1>4 DEF Push
  <2> QED BY <1>2, <1>4, <2>1, GrownSame
<1>5. CASE n # 0
  <2> DEFINE new == [start_row |-> total, rows |-> e]
             q == Append(r, new)
             more == total + n
  <2>1. to.groups = q /\ to.total = more
    BY <1>3, <1>5 DEF Push
  <2>2. /\ q \in Seq(Group) /\ Len(q) = N + 1 /\ q[N + 1] = new
        /\ \A g \in 1 .. N : q[g] = r[g]
    <3>1. new \in Group
      BY <1>2, <1>3 DEF Group
    <3> HIDE DEF new
    <3> QED BY <1>2, <3>1
  <2>3. new.start_row = total /\ new.rows = e
    OBVIOUS
  <2> HIDE DEF q, new, e
  <2>4. ASSUME NEW g \in 1 .. N + 1 PROVE StartOf(q, more, g) = StartOf(r, total, g)
    <3>1. CASE g = N + 1
      BY <1>2, <2>2, <2>3, <3>1 DEF StartOf
    <3>2. CASE g # N + 1
      BY <1>2, <2>2, <3>2 DEF StartOf
    <3> QED BY <3>1, <3>2
  <2>5. StartOf(q, more, (N + 1) + 1) = more
    BY <1>2, <2>2 DEF StartOf
  <2>6. StartOf(q, more, N + 1) = total
    BY <1>2, <2>2, <2>3 DEF StartOf
  <2>7. Complete(q, more)
    <3>1. more \in Nat /\ StartOf(q, more, 1) = 0
      BY <1>1, <1>2, <2>4 DEF Complete
    <3>2. ASSUME NEW g \in 1 .. N + 1
          PROVE  /\ SizeOf(q, more, g) \in 1 .. ROW_GROUP_SIZE
                 /\ q[g].rows = NewRows(q[g].start_row, SizeOf(q, more, g))
      <4>1. CASE g = N + 1
        <5>1. SizeOf(q, more, g) = n
          BY <1>1, <1>2, <2>5, <2>6, <4>1 DEF SizeOf
        <5> QED BY <1>1, <1>5, <2>2, <2>3, <4>1, <5>1 DEF e
      <4>2. CASE g # N + 1
        <5>1. g \in 1 .. N /\ g + 1 \in 1 .. N + 1
          BY <1>2, <4>2
        <5>2. SizeOf(q, more, g) = SizeOf(r, total, g)
          BY <2>4, <5>1 DEF SizeOf
        <5> QED BY <2>2, <5>1, <5>2 DEF Complete
      <4> QED BY <4>1, <4>2
    <3> QED BY <2>2, <3>1, <3>2 DEF Complete
  <2>8. Grown(r, total, q, more)
    <3>1. \A g \in 1 .. N : g + 1 \in 1 .. N + 1 /\ g \in 1 .. N + 1
      BY <1>2
    <3>2. \A g \in 1 .. N + 1 : StartOf(r, total, g) \in Nat
      BY StartsAre
    <3>3. total <= more /\ N <= N + 1
      BY <1>1, <1>2
    <3> QED BY <2>2, <2>4, <2>7, <3>1, <3>2, <3>3 DEF Grown
  <2> QED BY <2>1, <2>8 DEF e
<1> QED BY <1>4, <1>5

(* The last group takes what it has room for.                              *)
LEMMA LastGrows ==
  ASSUME NEW r, NEW total, Complete(r, total), Len(r) # 0,
         NEW n \in 1 .. ROW_GROUP_SIZE - Len(r[Len(r)].rows)
  PROVE  Grown(r, total, [r EXCEPT ![Len(r)].rows = @ \o NewRows(total, n)], total + n)
<1> DEFINE e == NewRows(total, n)
           N == Len(r)
           q == [r EXCEPT ![N].rows = @ \o e]
           more == total + n
           a == StartOf(r, total, N)
           c == SizeOf(r, total, N)
<1>1. /\ N \in Nat /\ N \in 1 .. N /\ N \in 1 .. N + 1 /\ r \in Seq(Group) /\ total \in Nat
      /\ ROW_GROUP_SIZE \in Nat
  BY DataTableAssumption, StartsAre DEF Complete
<1>2. StartOf(r, total, N + 1) = total
  BY <1>1 DEF StartOf
<1>3. /\ a \in Nat /\ c \in Nat \ {0} /\ total = a + c
      /\ r[N].rows = NewRows(a, c) /\ Len(r[N].rows) = c /\ r[N].start_row = a
  BY <1>1, <1>2, StartsAre DEF StartOf
<1>4. n \in Nat \ {0} /\ c + n <= ROW_GROUP_SIZE
  BY <1>1, <1>3
<1>5. r[N].rows \o e = NewRows(a, c + n)
  <2> HIDE DEF a, c
  <2>1. NewRows(a, c) \o NewRows(a + c, n) = NewRows(a, c + n)
    BY ZenonT(60), <1>3, <1>4, NewRowsJoin
  <2> QED BY <1>3, <2>1
<1> HIDE DEF a, c
<1>6. NewRows(a, c + n) \in Seq(Nat) /\ Len(NewRows(a, c + n)) = c + n
  BY <1>3, <1>4, NewRowsAre
<1> HIDE DEF e
<1>7. /\ q \in Seq(Group) /\ Len(q) = N
      /\ q[N].start_row = a /\ q[N].rows = NewRows(a, c + n)
      /\ \A g \in 1 .. N : g # N => q[g] = r[g]
  <2>1. r[N] \in Group
    BY <1>1
  <2>2. [r[N] EXCEPT !.rows = @ \o e] \in Group
    BY <1>5, <1>6, <2>1 DEF Group
  <2>3. q = [r EXCEPT ![N] = [r[N] EXCEPT !.rows = @ \o e]]
    OBVIOUS
  <2> DEFINE new == [r[N] EXCEPT !.rows = @ \o e]
  <2>4. new.start_row = a /\ new.rows = NewRows(a, c + n)
    BY <1>3, <1>5, <2>1 DEF Group
  <2>5. new \in Group /\ q = [r EXCEPT ![N] = new]
    BY <2>2, <2>3
  <2> HIDE DEF new, q
  <2>6. q \in Seq(Group) /\ Len(q) = N /\ q[N] = new /\ \A g \in 1 .. N : g # N => q[g] = r[g]
    BY <1>1, <2>5
  <2> QED BY <2>4, <2>6
<1> HIDE DEF q, more
<1>8. more = total + n /\ more \in Nat
  BY <1>1, <1>4 DEF more
<1>9. \A g \in 1 .. N : StartOf(q, more, g) = StartOf(r, total, g)
  <2>1. ASSUME NEW g \in 1 .. N PROVE q[g].start_row = r[g].start_row /\ g <= N
    BY <1>1, <1>3, <1>7
  <2> QED BY <1>7, <2>1 DEF StartOf
<1>10. StartOf(q, more, N + 1) = more
  BY <1>1, <1>7 DEF StartOf
<1>11. Complete(q, more)
  <2>1. StartOf(q, more, 1) = 0
    BY <1>1, <1>9 DEF Complete
  <2>2. ASSUME NEW g \in 1 .. N
        PROVE  /\ SizeOf(q, more, g) \in 1 .. ROW_GROUP_SIZE
               /\ q[g].rows = NewRows(q[g].start_row, SizeOf(q, more, g))
    <3>1. CASE g = N
      <4>1. StartOf(q, more, N) = a
        BY <1>1, <1>9 DEF a
      <4>2. SizeOf(q, more, g) = c + n
        BY <1>3, <1>4, <1>8, <1>10, <3>1, <4>1 DEF SizeOf
      <4> QED BY <1>3, <1>4, <1>7, <3>1, <4>2
    <3>2. CASE g # N
      <4>1. g + 1 \in 1 .. N
        BY <1>1, <3>2
      <4>2. SizeOf(q, more, g) = SizeOf(r, total, g)
        BY <1>9, <4>1 DEF SizeOf
      <4> QED BY <1>7, <3>2, <4>2 DEF Complete
    <3> QED BY <3>1, <3>2
  <2> QED BY <1>7, <1>8, <2>1, <2>2 DEF Complete
<1>12. ASSUME NEW g \in 1 .. N PROVE StartOf(r, total, g + 1) <= StartOf(q, more, g + 1)
  <2>1. CASE g = N
    BY <1>1, <1>2, <1>4, <1>8, <1>10, <2>1
  <2>2. CASE g # N
    <3>1. g + 1 \in 1 .. N /\ g + 1 \in 1 .. N + 1
      BY <1>1, <2>2
    <3>2. StartOf(r, total, g + 1) \in Nat
      BY <3>1, StartsAre
    <3> QED BY <1>9, <3>1, <3>2
  <2> QED BY <2>1, <2>2
<1>13. Grown(r, total, q, more)
  <2>1. N <= N /\ total <= more
    BY <1>1, <1>4, <1>8
  <2> QED BY <1>7, <1>9, <1>11, <1>12, <2>1 DEF Grown
<1> QED BY <1>13 DEF q, more, e

-----------------------------------------------------------------------------
(* Append and AppendRowGroups                                              *)

LEMMA AppendGrows ==
  ASSUME Complete(row_groups, total_rows), NEW n \in 1 .. VECTOR_SIZE,
         Append_(NewRows(total_rows, n))
  PROVE  /\ Grown(row_groups, total_rows, row_groups', total_rows')
         /\ total_rows' = total_rows + n
<1> DEFINE r == row_groups
           total == total_rows
           last == Len(r)
           chunk == NewRows(total, n)
           room == IF last = 0 THEN 0 ELSE ROW_GROUP_SIZE - Count(last)
           k == Smaller(room, Len(chunk))
           head == IF k = 0 THEN r ELSE [r EXCEPT ![last].rows = @ \o SubSeq(chunk, 1, k)]
           rest == SubSeq(chunk, k + 1, Len(chunk))
           to == Push([groups |-> head, total |-> total + k], rest)
<1>1. /\ total \in Nat /\ last \in Nat /\ n \in Nat /\ n <= ROW_GROUP_SIZE
      /\ ROW_GROUP_SIZE \in Nat
  BY DataTableAssumption, StartsAre
<1>2. chunk \in Seq(Nat) /\ Len(chunk) = n
  BY <1>1, NewRowsAre
<1>3. row_groups' = to.groups /\ total_rows' = to.total
  BY DEF Append_
<1>4. room \in Nat /\ room <= ROW_GROUP_SIZE
      /\ (last # 0 => room = ROW_GROUP_SIZE - Len(r[last].rows)) /\ (last = 0 => room = 0)
  <2>1. CASE last = 0
    BY <1>1, <2>1
  <2>2. CASE last # 0
    <3>1. last \in 1 .. last
      BY <1>1, <2>2
    <3>2. Len(r[last].rows) = SizeOf(r, total, last) /\ SizeOf(r, total, last) \in Nat \ {0}
          /\ SizeOf(r, total, last) <= ROW_GROUP_SIZE
      BY <3>1, StartsAre
    <3> QED BY <1>1, <2>2, <3>2 DEF Count
  <2> QED BY <2>1, <2>2
<1> HIDE DEF room
<1>5. k \in 0 .. n /\ k <= room
  BY <1>1, <1>2, <1>4 DEF Smaller
<1>6. rest = NewRows(total + k, n - k) /\ SubSeq(chunk, 1, k) = NewRows(total, k)
  <2> HIDE DEF k, total
  <2>1. SubSeq(chunk, k + 1, n) = NewRows(total + k, n - k)
    <3>1. k \in 0 .. n /\ n \in k .. n
      BY <1>1, <1>5
    <3> QED BY <1>1, <3>1, NewRowsPart
  <2>2. SubSeq(chunk, 0 + 1, k) = NewRows(total + 0, k - 0)
    <3>1. 0 \in 0 .. n /\ k \in 0 .. n
      BY <1>1, <1>5
    <3> QED BY <1>1, <3>1, NewRowsPart
  <2>3. 0 + 1 = 1 /\ total + 0 = total /\ k - 0 = k
    BY <1>1, <1>5
  <2> HIDE DEF chunk
  <2> QED BY <1>2, <2>1, <2>2, <2>3
<1> HIDE DEF chunk, k, rest
<1>7. Grown(r, total, head, total + k)
  <2>1. CASE k = 0
    <3>1. head = r /\ total + k = total
      BY <1>1, <2>1
    <3> QED BY <3>1, GrownSame
  <2>2. CASE k # 0
    <3>1. last # 0 /\ k \in 1 .. ROW_GROUP_SIZE - Len(r[last].rows)
      BY <1>1, <1>4, <1>5, <2>2
    <3>2. head = [r EXCEPT ![last].rows = @ \o NewRows(total, k)]
      BY <1>6, <2>2
    <3> HIDE DEF head, total
    <3> QED BY <3>1, <3>2, LastGrows DEF total
  <2> QED BY <2>1, <2>2
<1>8. Complete(head, total + k)
  BY <1>7 DEF Grown
<1>9. Grown(head, total + k, to.groups, to.total) /\ to.total = (total + k) + (n - k)
  <2>1. n - k \in 0 .. ROW_GROUP_SIZE
    BY <1>1, <1>5
  <2> HIDE DEF head
  <2> QED BY <1>6, <1>8, <2>1, PushGrows
<1>10. Grown(r, total, to.groups, to.total)
  <2> HIDE DEF to, head
  <2> QED BY <1>7, <1>9, GrownTwice
<1>11. to.total = total + n
  <2> HIDE DEF to
  <2> QED BY <1>1, <1>5, <1>9
<1> QED BY <1>3, <1>10, <1>11

(* AppendRowGroups follows a recursive definition.                         *)
Pushes(to, groups) ==
  to = [n \in 0 .. Len(groups) |->
          IF n = 0 THEN [groups |-> row_groups, total |-> total_rows]
                   ELSE Push(to[n - 1], groups[n])]

LEMMA GroupsGrow ==
  ASSUME Complete(row_groups, total_rows),
         NEW m \in 0 .. ROW_GROUP_SIZE, NEW n \in 0 .. ROW_GROUP_SIZE,
         AppendRowGroups(<<NewRows(total_rows, m), NewRows(total_rows + m, n)>>)
  PROVE  /\ Grown(row_groups, total_rows, row_groups', total_rows')
         /\ total_rows' = total_rows + (m + n)
<1> DEFINE s == <<NewRows(total_rows, m), NewRows(total_rows + m, n)>>
           t0 == [groups |-> row_groups, total |-> total_rows]
           t1 == Push(t0, NewRows(total_rows, m))
           t2 == Push(t1, NewRows(total_rows + m, n))
           h == CHOOSE to : Pushes(to, s)
<1>1. /\ total_rows \in Nat /\ m \in Nat /\ n \in Nat /\ ROW_GROUP_SIZE \in Nat
  BY DataTableAssumption, StartsAre
<1>2. Len(s) = 2 /\ s[1] = NewRows(total_rows, m) /\ s[2] = NewRows(total_rows + m, n)
  OBVIOUS
<1>3. row_groups' = h[2].groups /\ total_rows' = h[2].total
  BY <1>2 DEF AppendRowGroups, Pushes
<1>4. Pushes(h, s)
  <2> DEFINE f == [i \in 0 .. 2 |-> IF i = 0 THEN t0 ELSE IF i = 1 THEN t1 ELSE t2]
  <2> HIDE DEF s, t0, t1, t2
  <2>1. f[0] = t0 /\ f[1] = t1 /\ f[2] = t2
    OBVIOUS
  <2>2. f[1] = Push(f[0], s[1]) /\ f[2] = Push(f[1], s[2])
    BY <1>2, <2>1 DEF t1, t2
  <2> DEFINE w == [i \in 0 .. 2 |-> IF i = 0 THEN t0 ELSE Push(f[i - 1], s[i])]
  <2>3. \A i \in 0 .. 2 : f[i] = w[i]
    <3>1. w[0] = t0 /\ w[1] = Push(f[0], s[1]) /\ w[2] = Push(f[1], s[2])
      OBVIOUS
    <3>2. \A i \in 0 .. 2 : i = 0 \/ i = 1 \/ i = 2
      OBVIOUS
    <3> HIDE DEF f, w
    <3> QED BY <2>1, <2>2, <3>1, <3>2
  <2>4. f = w
    BY <2>3
  <2>5. Pushes(f, s)
    <3> HIDE DEF f
    <3> QED BY <1>2, <2>4 DEF Pushes, t0
  <2> HIDE DEF f
  <2> QED BY <2>5
<1> HIDE DEF h
<1>5. h[0] = t0 /\ h[1] = t1 /\ h[2] = t2
  <2> HIDE DEF s
  <2>1. h[0] = t0
    BY <1>2, <1>4 DEF Pushes
  <2>2. h[1] = Push(h[0], s[1])
    BY <1>2, <1>4 DEF Pushes
  <2>3. h[2] = Push(h[1], s[2])
    BY <1>2, <1>4 DEF Pushes
  <2> HIDE DEF t0
  <2> QED BY <1>2, <2>1, <2>2, <2>3
<1>6. Grown(row_groups, total_rows, t1.groups, t1.total) /\ t1.total = total_rows + m
  BY PushGrows
<1>7. Complete(t1.groups, t1.total) /\ t1 = [groups |-> t1.groups, total |-> t1.total]
  <2>1. Complete(t1.groups, t1.total)
    BY <1>6 DEF Grown
  <2>2. t1 = [groups |-> t1.groups, total |-> t1.total]
    BY DEF Push
  <2> QED BY <2>1, <2>2
<1> HIDE DEF t1
<1>8. Grown(t1.groups, t1.total, t2.groups, t2.total) /\ t2.total = (total_rows + m) + n
  <2> DEFINE p == Push([groups |-> t1.groups, total |-> t1.total], NewRows(t1.total, n))
  <2>1. Grown(t1.groups, t1.total, p.groups, p.total) /\ p.total = t1.total + n
    BY <1>7, PushGrows
  <2>2. t2 = p
    BY <1>6, <1>7
  <2> HIDE DEF t2, p
  <2> QED BY <1>6, <2>1, <2>2
<1>9. Grown(row_groups, total_rows, t2.groups, t2.total)
  <2> HIDE DEF t2
  <2> QED BY <1>6, <1>8, GrownTwice
<1> HIDE DEF t2
<1> QED BY <1>1, <1>3, <1>5, <1>8, <1>9

-----------------------------------------------------------------------------
(* What grows from one group to the next puts each value in one group.     *)
LEMMA Rises ==
  ASSUME NEW N \in Nat, NEW f \in [1 .. N + 1 -> Nat], \A g \in 1 .. N : f[g] <= f[g + 1]
  PROVE  /\ \A g, h \in 1 .. N + 1 : g <= h => f[g] <= f[h]
         /\ \A x \in Nat : f[1] <= x /\ x < f[N + 1] => \E g \in 1 .. N : f[g] <= x /\ x < f[g + 1]
<1>1. ASSUME NEW g \in 1 .. N + 1 PROVE \A d \in Nat : g + d <= N + 1 => f[g] <= f[g + d]
  <2> DEFINE G == {d \in Nat : g + d <= N + 1 => f[g] <= f[g + d]}
  <2>1. 0 \in G
    OBVIOUS
  <2>2. ASSUME NEW d \in Nat, d \in G PROVE d + 1 \in G
    <3> SUFFICES ASSUME g + (d + 1) <= N + 1 PROVE f[g] <= f[g + (d + 1)]
      OBVIOUS
    <3>1. g + d \in 1 .. N /\ (g + d) + 1 = g + (d + 1) /\ g + d \in 1 .. N + 1
          /\ (g + d) + 1 \in 1 .. N + 1
      OBVIOUS
    <3>2. f[g] <= f[g + d] /\ f[g + d] <= f[(g + d) + 1]
      BY <2>2, <3>1
    <3>3. f[g] \in Nat /\ f[g + d] \in Nat /\ f[(g + d) + 1] \in Nat
      BY <3>1
    <3> QED BY <3>1, <3>2, <3>3
  <2>3. \A d \in Nat : d \in G
    <3> HIDE DEF G
    <3> QED BY <2>1, <2>2, Induction
  <2> QED BY <2>3
<1>2. ASSUME NEW g \in 1 .. N + 1, NEW h \in 1 .. N + 1, g <= h PROVE f[g] <= f[h]
  <2>1. h - g \in Nat /\ g + (h - g) = h /\ h <= N + 1
    BY <1>2
  <2>2. g + (h - g) <= N + 1 => f[g] <= f[g + (h - g)]
    BY <1>1, <2>1
  <2> QED BY <2>1, <2>2
<1>3. ASSUME NEW x \in Nat, f[1] <= x
      PROVE  x < f[N + 1] => \E g \in 1 .. N : f[g] <= x /\ x < f[g + 1]
  <2> DEFINE IsPast == \E g \in 1 .. N : f[g] <= x /\ x < f[g + 1]
             G == {d \in Nat : d <= N => IsPast \/ f[d + 1] <= x}
  <2>1. 0 \in G
    BY <1>3
  <2>2. ASSUME NEW d \in Nat, d \in G PROVE d + 1 \in G
    <3> SUFFICES ASSUME d + 1 <= N, ~IsPast PROVE f[(d + 1) + 1] <= x
      OBVIOUS
    <3>1. d + 1 \in 1 .. N /\ f[d + 1] <= x
      BY <2>2
    <3>2. ~(x < f[(d + 1) + 1])
      BY <3>1
    <3>3. f[(d + 1) + 1] \in Nat
      BY <3>1
    <3> QED BY <3>2, <3>3
  <2>3. \A d \in Nat : d \in G
    <3> HIDE DEF G
    <3> QED BY <2>1, <2>2, Induction
  <2>4. IsPast \/ f[N + 1] <= x
    BY <2>3
  <2>5. f[N + 1] \in Nat
    OBVIOUS
  <2> HIDE DEF IsPast
  <2>6. x < f[N + 1] => IsPast
    BY <2>4, <2>5
  <2> QED BY <2>6 DEF IsPast
<1> QED BY <1>2, <1>3

LEMMA StartsInOrder ==
  ASSUME NEW r, NEW total, Complete(r, total)
  PROVE  \A g, h \in 1 .. Len(r) + 1 : g <= h => StartOf(r, total, g) <= StartOf(r, total, h)
<1> DEFINE N == Len(r)
           f == [g \in 1 .. N + 1 |-> StartOf(r, total, g)]
<1>1. N \in Nat /\ f \in [1 .. N + 1 -> Nat]
  BY StartsAre
<1>2. ASSUME NEW g \in 1 .. N PROVE f[g] <= f[g + 1]
  <2>1. g \in 1 .. N + 1 /\ g + 1 \in 1 .. N + 1
    BY <1>1
  <2>2. /\ StartOf(r, total, g) \in Nat /\ SizeOf(r, total, g) \in Nat
        /\ StartOf(r, total, g + 1) = StartOf(r, total, g) + SizeOf(r, total, g)
    BY <2>1, StartsAre
  <2> QED BY <2>1, <2>2
<1>3. \A g, h \in 1 .. N + 1 : g <= h => f[g] <= f[h]
  <2> HIDE DEF f, N
  <2> QED BY <1>1, <1>2, Rises
<1> QED BY <1>3

-----------------------------------------------------------------------------
(* Sequential scans                                                        *)

Begin(g) == StartOf(row_groups, total_rows, g)

TableTypeOK ==
  /\ row_groups \in Seq(Group) /\ total_rows \in Nat
  /\ state \in [Scans -> [group : Nat, row : Nat]]
  /\ got \in [Scans -> Seq(Nat)] /\ ended \subseteq Scans
  /\ total_morsels \in Nat \cup {None} /\ next_morsel \in Nat
  /\ morsel \in [Tasks -> Nat \cup {None}] /\ finished \subseteq Tasks
  /\ delivered \in Seq(Seq(Nat))

WholeTable == Complete(row_groups, total_rows)

(* A scan that has not ended is in a group, or in front of all of them.    *)
InGroup(at, r) ==
  \/ at.group < Len(r) /\ at.row <= Len(r[at.group + 1].rows)
  \/ at.group = 0 /\ at.row = 0 /\ Len(r) = 0

(* A cursor stands behind the first k rows.                                *)
Follows(at, r, total, k) == InGroup(at, r) /\ k = StartOf(r, total, at.group + 1) + at.row

(* A scan has delivered the rows before its cursor.                        *)
Cursor(s) ==
  /\ got[s] = NewRows(0, Len(got[s])) /\ Len(got[s]) <= total_rows
  /\ s \notin ended => Follows(state[s], row_groups, total_rows, Len(got[s]))

Scanned == TableTypeOK /\ WholeTable /\ \A s \in Scans : Cursor(s)

LEMMA TableIs ==
  ASSUME WholeTable
  PROVE  /\ Contents = NewRows(0, total_rows) /\ total_rows \in Nat /\ Len(row_groups) \in Nat
         /\ \A g \in 1 .. Len(row_groups) + 1 : Begin(g) \in Nat
         /\ \A g \in 1 .. Len(row_groups) :
              /\ Count(g) \in Nat \ {0} /\ Begin(g + 1) = Begin(g) + Count(g)
              /\ row_groups[g].rows = NewRows(Begin(g), Count(g))
         /\ Begin(1) = 0
         /\ \A g \in Nat : g > Len(row_groups) => Begin(g) = total_rows
<1> USE DEF WholeTable, Begin
<1>1. Contents = NewRows(0, total_rows)
  BY ContentsAre DEF Contents, RowsIn
<1>2. /\ total_rows \in Nat /\ Len(row_groups) \in Nat
      /\ \A g \in 1 .. Len(row_groups) + 1 : Begin(g) \in Nat
  BY StartsAre
<1>3. ASSUME NEW g \in 1 .. Len(row_groups)
      PROVE  /\ Count(g) \in Nat \ {0} /\ Begin(g + 1) = Begin(g) + Count(g)
             /\ row_groups[g].rows = NewRows(Begin(g), Count(g))
  BY StartsAre DEF Count
<1>4. Begin(1) = 0
  BY DEF Complete
<1>5. \A g \in Nat : g > Len(row_groups) => Begin(g) = total_rows
  BY <1>2 DEF StartOf
<1> QED BY <1>1, <1>2, <1>3, <1>4, <1>5

(* Appends leave cursors where they were.                                  *)
LEMMA CursorKept ==
  ASSUME Scanned, Grown(row_groups, total_rows, row_groups', total_rows'),
         UNCHANGED seqscan, NEW s \in Scans
  PROVE  Cursor(s)'
<1> DEFINE r == row_groups  q == row_groups'  a == total_rows  b == total_rows'
           at == state[s]
<1>1. Complete(r, a) /\ Complete(q, b) /\ Cursor(s) /\ a <= b /\ Len(r) <= Len(q)
  BY DEF Scanned, WholeTable, Grown
<1>2. a \in Nat /\ b \in Nat /\ Len(r) \in Nat /\ Len(q) \in Nat
  BY <1>1, StartsAre
<1>3. got' = got /\ state' = state /\ ended' = ended
  BY DEF seqscan
<1>4. got'[s] = NewRows(0, Len(got'[s])) /\ Len(got'[s]) <= total_rows'
  <2>1. Len(got[s]) \in Nat
    BY DEF Scanned, TableTypeOK
  <2> QED BY <1>1, <1>2, <1>3, <2>1 DEF Cursor
<1>5. ASSUME s \notin ended PROVE Follows(at, q, b, Len(got[s]))
  <2>1. at.group \in Nat /\ at.row \in Nat
    BY DEF Scanned, TableTypeOK
  <2>2. Len(got[s]) = StartOf(r, a, at.group + 1) + at.row /\ InGroup(at, r)
    BY <1>1, <1>5 DEF Cursor, Follows
  <2> HIDE DEF at
  <2>3. CASE at.group < Len(r) /\ at.row <= Len(r[at.group + 1].rows)
    <3> DEFINE g == at.group + 1
    <3>1. g \in 1 .. Len(r) /\ g \in 1 .. Len(q) /\ at.group < Len(q)
      BY <1>1, <1>2, <2>1, <2>3
    <3>2. /\ Len(r[g].rows) = SizeOf(r, a, g) /\ Len(q[g].rows) = SizeOf(q, b, g)
          /\ SizeOf(r, a, g) \in Nat /\ SizeOf(q, b, g) \in Nat
          /\ StartOf(r, a, g + 1) = StartOf(r, a, g) + SizeOf(r, a, g)
          /\ StartOf(q, b, g + 1) = StartOf(q, b, g) + SizeOf(q, b, g)
      BY <1>1, <3>1, StartsAre
    <3>3. StartOf(q, b, g) = StartOf(r, a, g) /\ StartOf(r, a, g + 1) <= StartOf(q, b, g + 1)
      BY <3>1 DEF Grown
    <3>4. StartOf(r, a, g) \in Nat
      BY SMTT(40), <1>1, <3>1, <1>2, StartsAre
    <3>5. at.row <= Len(q[g].rows)
      BY <2>1, <2>3, <3>2, <3>3, <3>4
    <3>6. InGroup(at, q)
      BY <3>1, <3>5 DEF InGroup
    <3> QED BY <2>2, <3>3, <3>6 DEF Follows
  <2>4. CASE at.group = 0 /\ at.row = 0 /\ Len(r) = 0
    <3>1. StartOf(r, a, 1) = 0 /\ StartOf(q, b, 1) = 0
      BY <1>1 DEF Complete
    <3>2. InGroup(at, q)
      <4>1. CASE Len(q) = 0
        BY <2>4, <4>1 DEF InGroup
      <4>2. CASE Len(q) # 0
        <5>1. 1 \in 1 .. Len(q)
          BY <1>2, <4>2
        <5>2. Len(q[1].rows) \in Nat
          BY <1>1, <5>1, StartsAre
        <5> QED BY <1>2, <2>4, <4>2, <5>2 DEF InGroup
      <4> QED BY <4>1, <4>2
    <3> QED BY <2>2, <2>4, <3>1, <3>2 DEF Follows
  <2> QED BY <2>2, <2>3, <2>4 DEF InGroup
<1> QED BY <1>3, <1>4, <1>5 DEF Cursor

(* A call of Scan begins in a group that has rows left, if there is one.   *)
LEMMA PositionIs ==
  ASSUME Scanned, NEW s \in Scans, s \notin ended
  PROVE  LET at == Position(s)
         IN  /\ at \in [group : Nat, row : Nat]
             /\ Len(got[s]) = Begin(at.group + 1) + at.row
             /\ at.group < Len(row_groups) => at.row < Count(at.group + 1)
             /\ ~(at.group < Len(row_groups)) => Len(got[s]) = total_rows
<1> DEFINE now == state[s]
           at == Position(s)
           g == now.group + 1
           N == Len(row_groups)
<1>1. now \in [group : Nat, row : Nat] /\ now.group \in Nat /\ now.row \in Nat /\ N \in Nat
  BY TableIs DEF Scanned, TableTypeOK
<1>2. InGroup(now, row_groups) /\ Len(got[s]) = Begin(g) + now.row
  BY DEF Scanned, Cursor, Follows, Begin
<1> HIDE DEF now
<1>3. CASE now.group < N /\ now.row = Count(g)
  <2>1. at = [group |-> g, row |-> 0]
    BY <1>3 DEF Position, now
  <2>2. at \in [group : Nat, row : Nat] /\ at.group = g /\ at.row = 0
    BY <1>1, <2>1
  <2>3. g \in 1 .. N /\ g \in 1 .. N + 1 /\ g + 1 \in 1 .. N + 1
    BY <1>1, <1>3
  <2>4. Begin(g + 1) = Begin(g) + Count(g) /\ Begin(g + 1) \in Nat
    BY <2>3, TableIs DEF Scanned
  <2>5. Len(got[s]) = Begin(at.group + 1) + at.row
    BY <1>2, <1>3, <2>2, <2>4
  <2>6. g < N => Count(g + 1) \in Nat \ {0}
    <3>1. g < N => g + 1 \in 1 .. N
      BY <1>1
    <3> QED BY <3>1, TableIs DEF Scanned
  <2>7. ~(g < N) => Begin(g + 1) = total_rows
    <3>1. ~(g < N) => g + 1 \in Nat /\ g + 1 > N
      BY <1>1
    <3> QED BY <3>1, TableIs DEF Scanned
  <2>8. 0 < Count(g + 1) \/ ~(g < N)
    BY <2>6
  <2> HIDE DEF at, g
  <2>9. ~(g < N) => Len(got[s]) = total_rows
    BY <2>2, <2>4, <2>5, <2>7
  <2> QED BY <2>2, <2>5, <2>8, <2>9 DEF at
<1>4. CASE ~(now.group < N /\ now.row = Count(g))
  <2>1. at = now
    BY <1>4 DEF Position, now
  <2>2. ASSUME now.group < N PROVE now.row < Count(g)
    <3>1. g \in 1 .. N /\ Count(g) \in Nat
      <4>1. g \in 1 .. N
        BY <1>1, <2>2
      <4> QED BY <4>1, TableIs DEF Scanned
    <3>2. now.row <= Count(g)
      BY <1>1, <1>2, <2>2 DEF InGroup, Count
    <3> QED BY <1>1, <1>4, <2>2, <3>1, <3>2
  <2>3. ASSUME ~(now.group < N) PROVE Len(got[s]) = total_rows
    <3>1. now.group = 0 /\ now.row = 0 /\ N = 0
      BY <1>2, <2>3 DEF InGroup
    <3>2. Begin(1) = 0 /\ Begin(1) = total_rows
      BY <3>1, TableIs DEF Scanned
    <3> QED BY <1>2, <3>1, <3>2
  <2> QED BY <1>1, <1>2, <2>1, <2>2, <2>3
<1> QED BY <1>3, <1>4

(* A scan delivers the next rows of the table, or has them all.            *)
Delivers(s) ==
  \E n \in 1 .. VECTOR_SIZE :
    /\ Len(got[s]) + n <= total_rows
    /\ got' = [got EXCEPT ![s] = NewRows(0, Len(got[s]) + n)]
    /\ ended' = ended

Ends(s) == got' = got /\ ended' = ended \cup {s} /\ Len(got[s]) = total_rows

(* The next of c rows that begin behind the first b, a of them delivered.  *)
PartFacts(b, c, a, total, n) ==
  /\ n \in 1 .. VECTOR_SIZE /\ n \in Nat /\ a + n \in Nat /\ a + n <= c
  /\ (b + a) + n <= total
  /\ NewRows(0, b + a) \o SubSeq(NewRows(b, c), a + 1, a + n) = NewRows(0, (b + a) + n)

LEMMA NextPart ==
  ASSUME NEW b \in Nat, NEW c \in Nat, NEW a \in Nat, NEW total \in Nat, a < c, b + c <= total
  PROVE  PartFacts(b, c, a, total, Smaller(c - a, VECTOR_SIZE))
<1> DEFINE n == Smaller(c - a, VECTOR_SIZE)
           m == b + a
<1>1. VECTOR_SIZE \in Nat \ {0}
  BY DataTableAssumption
<1>2. n \in 1 .. VECTOR_SIZE /\ n \in Nat /\ a + n <= c
  BY <1>1 DEF Smaller
<1> HIDE DEF n
<1>3. /\ m + n <= total /\ a + n \in Nat /\ a \in 0 .. c /\ a + n \in a .. c /\ (a + n) - a = n
      /\ m \in Nat /\ 0 \in Nat /\ 0 + m = m
  BY <1>2
<1>4. SubSeq(NewRows(b, c), a + 1, a + n) = NewRows(m, n)
  <2> DEFINE j == a + n
  <2>1. j \in a .. c /\ j - a = n
    BY <1>3
  <2> HIDE DEF j
  <2>2. SubSeq(NewRows(b, c), a + 1, j) = NewRows(b + a, j - a)
    BY ZenonT(60), <1>3, <2>1, NewRowsPart
  <2> QED BY <2>1, <2>2 DEF j
<1> HIDE DEF m
<1>5. NewRows(0, m) \o NewRows(m, n) = NewRows(0, m + n)
  <2> DEFINE z == 0
  <2>1. z \in Nat /\ z + m = m
    BY <1>3
  <2> HIDE DEF z
  <2>2. NewRows(z, m) \o NewRows(z + m, n) = NewRows(z, m + n)
    BY ZenonT(60), <1>2, <1>3, <2>1, NewRowsJoin
  <2> QED BY <2>1, <2>2 DEF z
<1>6. NewRows(0, m) \o SubSeq(NewRows(b, c), a + 1, a + n) = NewRows(0, m + n)
  BY <1>3, <1>4, <1>5
<1> QED BY <1>2, <1>3, <1>6 DEF n, m, PartFacts

LEMMA ScanDelivers ==
  ASSUME Scanned, NEW s \in Scans, Scan(s)
  PROVE  /\ Delivers(s) \/ Ends(s)
         /\ state' \in [Scans -> [group : Nat, row : Nat]]
         /\ \A v \in Scans : Cursor(v)'
<1> DEFINE at == Position(s)
           g == at.group + 1
           N == Len(row_groups)
           k == Len(got[s])
<1>0. s \notin ended /\ UNCHANGED <<table, parallel>>
  BY DEF Scan
<1>1. row_groups' = row_groups /\ total_rows' = total_rows
  BY <1>0 DEF table
<1>2. /\ at \in [group : Nat, row : Nat] /\ k = Begin(g) + at.row
      /\ at.group < N => at.row < Count(g)
      /\ ~(at.group < N) => k = total_rows
  BY <1>0, PositionIs
<1>3. /\ at.group \in Nat /\ at.row \in Nat /\ N \in Nat /\ k \in Nat
      /\ VECTOR_SIZE \in Nat \ {0}
      /\ state \in [Scans -> [group : Nat, row : Nat]] /\ got \in [Scans -> Seq(Nat)]
      /\ \A v \in Scans : Cursor(v)
  BY <1>2, TableIs, DataTableAssumption DEF Scanned, TableTypeOK
<1>4. CASE ~(at.group < N)
  <2>1. state' = [state EXCEPT ![s] = at] /\ ended' = ended \cup {s} /\ got' = got
    BY <1>4 DEF Scan
  <2> HIDE DEF at
  <2>2. Ends(s)
    BY <1>2, <1>4, <2>1 DEF Ends
  <2>3. ASSUME NEW v \in Scans PROVE Cursor(v)'
    BY <1>1, <1>3, <2>1 DEF Cursor
  <2>4. state' \in [Scans -> [group : Nat, row : Nat]]
    BY <1>2, <1>3, <2>1
  <2> QED BY <2>2, <2>3, <2>4
<1>5. CASE at.group < N
  <2> DEFINE n == Smaller(Count(g) - at.row, VECTOR_SIZE)
             part == SubSeq(row_groups[g].rows, at.row + 1, at.row + n)
             new == [at EXCEPT !.row = @ + n]
  <2>1. got' = [got EXCEPT ![s] = @ \o part] /\ state' = [state EXCEPT ![s] = new]
        /\ ended' = ended
    BY <1>5 DEF Scan
  <2>2. g \in 1 .. N /\ g + 1 \in 1 .. N + 1 /\ g \in 1 .. N + 1
    BY <1>3, <1>5
  <2>3. /\ Count(g) \in Nat \ {0} /\ Begin(g + 1) = Begin(g) + Count(g) /\ Begin(g) \in Nat
        /\ row_groups[g].rows = NewRows(Begin(g), Count(g)) /\ Begin(g + 1) \in Nat
        /\ total_rows \in Nat
    BY <2>2, TableIs DEF Scanned
  <2>4. Begin(g + 1) <= total_rows
    <3>1. N + 1 \in 1 .. N + 1 /\ g + 1 <= N + 1 /\ N + 1 \in Nat /\ N + 1 > N
      BY <1>3, <2>2
    <3>2. Begin(N + 1) = total_rows
      BY <3>1, TableIs DEF Scanned
    <3> QED BY <2>2, <3>1, <3>2, StartsInOrder DEF Scanned, WholeTable, Begin
  <2> DEFINE b == Begin(g)
             c == Count(g)
             a == at.row
  <2>5. b \in Nat /\ c \in Nat /\ a \in Nat /\ a < c /\ b + c <= total_rows /\ k = b + a
    BY <1>2, <1>3, <1>5, <2>3, <2>4
  <2> HIDE DEF at, g, k
  <2>6. PartFacts(b, c, a, total_rows, n)
    <3>1. n = Smaller(c - a, VECTOR_SIZE)
      OBVIOUS
    <3> HIDE DEF a, b, c, n
    <3> QED BY <2>3, <2>5, <3>1, NextPart
  <2>7. got[s] \o part = NewRows(0, k + n)
    <3>1. part = SubSeq(NewRows(b, c), a + 1, a + n)
      BY <2>3
    <3>2. got[s] = NewRows(0, k)
      BY <1>3 DEF Cursor, k
    <3> HIDE DEF a, b, c, n, part
    <3> QED BY <2>5, <2>6, <3>1, <3>2 DEF PartFacts
  <2>8. k + n <= total_rows /\ k + n \in Nat
    <3> HIDE DEF a, b, c, n
    <3> QED BY <1>3, <2>5, <2>6 DEF PartFacts
  <2> HIDE DEF part
  <2>9. got' = [got EXCEPT ![s] = NewRows(0, k + n)]
    BY <2>1, <2>7
  <2>10. Delivers(s)
    <3> HIDE DEF n
    <3> QED BY <2>1, <2>6, <2>8, <2>9 DEF Delivers, k, PartFacts
  <2>11. new \in [group : Nat, row : Nat] /\ new.group = at.group /\ new.row = a + n
    <3>1. a + n \in Nat /\ at \in [group : Nat, row : Nat] /\ new = [at EXCEPT !.row = a + n]
      BY <1>2, <2>6 DEF PartFacts
    <3> HIDE DEF a, n, new
    <3> QED BY <3>1
  <2> HIDE DEF new, n
  <2>12. state' \in [Scans -> [group : Nat, row : Nat]] /\ state'[s] = new
         /\ \A v \in Scans : v # s => state'[v] = state[v]
    BY <1>3, <2>1, <2>11
  <2>13. Cursor(s)'
    <3>1. got'[s] = NewRows(0, k + n) /\ Len(got'[s]) = k + n
      BY <1>3, <2>8, <2>9, NewRowsAre
    <3>2. new.group < Len(row_groups) /\ new.row <= Count(new.group + 1)
      BY <1>5, <2>6, <2>11 DEF g, PartFacts
    <3>3. k + n = b + new.row
      <4> HIDE DEF a, b, c
      <4> QED BY <1>3, <2>5, <2>6, <2>11 DEF PartFacts
    <3>4. Follows(new, row_groups, total_rows, k + n)
      BY <2>11, <3>2, <3>3 DEF Follows, InGroup, Begin, Count, g
    <3>5. k + n <= total_rows'
      BY <1>1, <2>8
    <3> HIDE DEF b
    <3> QED BY <1>1, <2>12, <3>1, <3>4, <3>5 DEF Cursor
  <2>14. ASSUME NEW v \in Scans, v # s PROVE Cursor(v)'
    <3>1. got'[v] = got[v] /\ state'[v] = state[v] /\ ended' = ended
      BY <1>3, <2>1, <2>9, <2>12, <2>14
    <3> QED BY <1>1, <1>3, <3>1 DEF Cursor
  <2> QED BY <2>10, <2>12, <2>13, <2>14
<1> QED BY <1>4, <1>5

LEMMA RestartsAtTheStart ==
  ASSUME Scanned, NEW s \in Scans, InitScan(s)
  PROVE  /\ state' \in [Scans -> [group : Nat, row : Nat]] /\ got' \in [Scans -> Seq(Nat)]
         /\ \A v \in Scans : Cursor(v)'
<1> DEFINE start == [group |-> 0, row |-> 0]
           N == Len(row_groups)
<1>1. /\ row_groups' = row_groups /\ total_rows' = total_rows
      /\ state' = [state EXCEPT ![s] = start] /\ got' = [got EXCEPT ![s] = <<>>]
      /\ ended' = ended \ {s}
  BY DEF InitScan, table
<1>2. /\ state \in [Scans -> [group : Nat, row : Nat]] /\ got \in [Scans -> Seq(Nat)]
      /\ \A v \in Scans : Cursor(v)
  BY DEF Scanned, TableTypeOK
<1>3. start \in [group : Nat, row : Nat] /\ start.group = 0 /\ start.row = 0
  OBVIOUS
<1> HIDE DEF start
<1>4. state' \in [Scans -> [group : Nat, row : Nat]] /\ got' \in [Scans -> Seq(Nat)]
  BY <1>1, <1>2, <1>3
<1>5. Follows(start, row_groups, total_rows, 0)
  <2>1. StartOf(row_groups, total_rows, 1) = 0 /\ N \in Nat
    BY TableIs DEF Scanned, Begin
  <2>2. CASE N = 0
    BY <1>3, <2>1, <2>2 DEF Follows, InGroup
  <2>3. CASE N # 0
    <3>1. 1 \in 1 .. N /\ 0 < N
      BY <2>1, <2>3
    <3>2. 0 <= Count(1)
      BY <3>1, TableIs DEF Scanned
    <3>3. InGroup(start, row_groups)
      BY <1>3, <3>1, <3>2 DEF InGroup, Count
    <3> QED BY <1>3, <2>1, <3>3 DEF Follows
  <2> QED BY <2>2, <2>3
<1>6. Cursor(s)'
  <2>1. got'[s] = <<>> /\ Len(got'[s]) = 0 /\ state'[s] = start
    BY <1>1, <1>2
  <2>2. NewRows(0, 0) = <<>>
    BY NewRowsAre
  <2>3. 0 <= total_rows'
    BY <1>1, TableIs DEF Scanned
  <2> QED BY <1>1, <1>5, <2>1, <2>2, <2>3 DEF Cursor
<1>7. ASSUME NEW v \in Scans, v # s PROVE Cursor(v)'
  <2>1. got'[v] = got[v] /\ state'[v] = state[v] /\ (v \in ended' <=> v \in ended)
    BY <1>1, <1>2, <1>7
  <2> QED BY <1>1, <1>2, <2>1 DEF Cursor
<1> QED BY <1>4, <1>6, <1>7

-----------------------------------------------------------------------------
(* Morsels                                                                 *)

LEMMA CeilDivIs ==
  ASSUME NEW c \in Nat \ {0}
  PROVE  /\ CeilDiv(c, VECTOR_SIZE) \in Nat \ {0}
         /\ c <= CeilDiv(c, VECTOR_SIZE) * VECTOR_SIZE
         /\ CeilDiv(c, VECTOR_SIZE) * VECTOR_SIZE < c + VECTOR_SIZE
<1> DEFINE V == VECTOR_SIZE
           x == c + V - 1
           k == x \div V
<1>1. V \in Nat \ {0}
  BY DataTableAssumption
<1>2. x \in Nat /\ x + 1 = c + V
  BY <1>1
<1> HIDE DEF V, x
<1>3. k \in Nat /\ k * V <= x /\ x < k * V + V
  BY <1>1, <1>2
<1>4. k * V \in Nat
  BY <1>1, <1>3
<1> HIDE DEF k
<1>5. c <= k * V /\ k * V < c + V
  BY <1>1, <1>2, <1>3, <1>4
<1>6. k # 0
  BY <1>1, <1>5
<1> QED BY <1>3, <1>5, <1>6 DEF CeilDiv, k, x, V

(* The morsels of the groups before one.                                   *)
SumOf(r, sum) == sum = [h \in 0 .. Len(r) |-> IF h = 0 THEN 0
                                              ELSE sum[h - 1] + CeilDiv(Len(r[h].rows), VECTOR_SIZE)]
Before(r, g) ==
  LET sum[h \in 0 .. Len(r)] == IF h = 0 THEN 0
                                ELSE sum[h - 1] + CeilDiv(Len(r[h].rows), VECTOR_SIZE)
  IN  sum[g - 1]

LEMMA MorselsAre == /\ \A g : MorselsBefore(g) = Before(row_groups, g)
                    /\ \A g : Morsels(g) = CeilDiv(Len(row_groups[g].rows), VECTOR_SIZE)
BY DEF MorselsBefore, Before, Morsels, Count

LEMMA BeforeSteps ==
  ASSUME NEW r, NEW total, Complete(r, total)
  PROVE  /\ Before(r, 1) = 0
         /\ \A g \in 1 .. Len(r) :
              Before(r, g + 1) = Before(r, g) + CeilDiv(Len(r[g].rows), VECTOR_SIZE)
<1> DEFINE N == Len(r)
           M(n) == CeilDiv(Len(r[n].rows), VECTOR_SIZE)
           step == [n \in Nat |-> [s \in Nat |-> IF n \in 1 .. N THEN s + M(n) ELSE s]]
<1>1. N \in Nat
  BY StartsAre
<1>2. \A n \in 1 .. N : M(n) \in Nat
  <2>1. \A n \in 1 .. N : Len(r[n].rows) \in Nat \ {0}
    BY StartsAre
  <2> QED BY <2>1, CeilDivIs
<1>3. step \in [Nat -> [Nat -> Nat]] /\ 0 \in Nat
  <2> HIDE DEF N, M
  <2> QED BY <1>2
<1>4. PICK f : Computes(f, 0, step, Nat, N)
  <2> HIDE DEF step, N
  <2> QED BY <1>1, <1>3, Recursion
<1>5. SumOf(r, f)
  <2>1. f \in [0 .. N -> Nat] /\ f[0] = 0
    BY <1>4 DEF Computes
  <2>2. ASSUME NEW n \in 0 .. N, n # 0 PROVE f[n] = f[n - 1] + M(n)
    <3>1. n \in 1 .. N /\ n \in Nat /\ n - 1 \in 0 .. N
      BY <1>1, <2>2
    <3>2. f[n] = step[n][f[n - 1]] /\ f[n - 1] \in Nat
      BY <1>4, <2>1, <3>1 DEF Computes
    <3> HIDE DEF M
    <3> QED BY <3>1, <3>2
  <2> QED BY <2>1, <2>2 DEF SumOf
<1> DEFINE h == CHOOSE sum : SumOf(r, sum)
<1>6. SumOf(r, h)
  BY <1>5
<1>7. \A g : Before(r, g) = h[g - 1]
  BY DEF Before, SumOf
<1> HIDE DEF h
<1>8. h[0] = 0 /\ \A n \in 0 .. N : n # 0 => h[n] = h[n - 1] + M(n)
  BY <1>1, <1>6 DEF SumOf
<1>9. ASSUME NEW g \in 1 .. N PROVE h[(g + 1) - 1] = h[g - 1] + M(g)
  <2>1. g \in 0 .. N /\ g # 0 /\ (g + 1) - 1 = g
    BY <1>1
  <2> HIDE DEF M
  <2> QED BY <1>8, <2>1
<1>10. Before(r, 1) = 0
  <2>1. 1 - 1 = 0
    OBVIOUS
  <2> QED BY <1>7, <1>8, <2>1
<1> QED BY <1>7, <1>9, <1>10

LEMMA BeforeIs ==
  ASSUME NEW r, NEW total, Complete(r, total)
  PROVE  /\ \A g \in 1 .. Len(r) + 1 : Before(r, g) \in Nat
         /\ \A g, h \in 1 .. Len(r) + 1 : g <= h => Before(r, g) <= Before(r, h)
<1> DEFINE N == Len(r)
           f == [g \in 1 .. N + 1 |-> Before(r, g)]
           G == {g \in Nat : g <= N => Before(r, g + 1) \in Nat}
<1>1. N \in Nat /\ \A g \in 1 .. N : CeilDiv(Len(r[g].rows), VECTOR_SIZE) \in Nat
  <2>1. N \in Nat /\ \A n \in 1 .. N : Len(r[n].rows) \in Nat \ {0}
    BY StartsAre
  <2> QED BY <2>1, CeilDivIs
<1>2. 0 \in G
  BY BeforeSteps
<1>3. ASSUME NEW g \in Nat, g \in G PROVE g + 1 \in G
  <2> SUFFICES ASSUME g + 1 <= N PROVE Before(r, (g + 1) + 1) \in Nat
    OBVIOUS
  <2>1. g + 1 \in 1 .. N /\ Before(r, g + 1) \in Nat
    BY <1>1, <1>3
  <2>2. Before(r, (g + 1) + 1) = Before(r, g + 1) + CeilDiv(Len(r[g + 1].rows), VECTOR_SIZE)
    BY <2>1, BeforeSteps
  <2> QED BY <1>1, <2>1, <2>2
<1>4. \A g \in Nat : g \in G
  <2> HIDE DEF G
  <2> QED BY <1>2, <1>3, Induction
<1>5. ASSUME NEW g \in 1 .. N + 1 PROVE Before(r, g) \in Nat
  <2>1. g - 1 \in Nat /\ g - 1 <= N /\ (g - 1) + 1 = g
    BY <1>1
  <2>2. Before(r, (g - 1) + 1) \in Nat
    BY <1>4, <2>1
  <2> QED BY <2>1, <2>2
<1>6. f \in [1 .. N + 1 -> Nat]
  BY <1>5
<1>7. \A g \in 1 .. N : f[g] <= f[g + 1]
  <2> SUFFICES ASSUME NEW g \in 1 .. N PROVE f[g] <= f[g + 1]
    OBVIOUS
  <2>1. g \in 1 .. N + 1 /\ g + 1 \in 1 .. N + 1
    BY <1>1
  <2>2. Before(r, g + 1) = Before(r, g) + CeilDiv(Len(r[g].rows), VECTOR_SIZE)
    BY BeforeSteps
  <2> QED BY <1>1, <1>5, <2>1, <2>2
<1>8. \A g, h \in 1 .. N + 1 : g <= h => f[g] <= f[h]
  <2> HIDE DEF f, N
  <2> QED BY <1>1, <1>6, <1>7, Rises
<1> QED BY <1>5, <1>8

(* Morsel m, of group g, is the n rows behind the first a.                 *)
PieceAt(r, total, g, m, a, n) ==
  /\ g \in 1 .. Len(r) /\ m \in Nat
  /\ Before(r, g) <= m /\ m < Before(r, g + 1)
  /\ LET skip == (m - Before(r, g)) * VECTOR_SIZE
     IN  /\ a = StartOf(r, total, g) + skip
         /\ n = Smaller(VECTOR_SIZE, Len(r[g].rows) - skip)

LEMMA PieceIs ==
  ASSUME NEW r, NEW total, Complete(r, total), NEW g, NEW m, NEW a, NEW n, PieceAt(r, total, g, m, a, n)
  PROVE  /\ a \in Nat /\ n \in Nat \ {0} /\ n <= VECTOR_SIZE
         /\ StartOf(r, total, g) <= a /\ a + n <= StartOf(r, total, g + 1)
         /\ LET skip == (m - Before(r, g)) * VECTOR_SIZE
            IN  SubSeq(r[g].rows, skip + 1, skip + n) = NewRows(a, n)
<1> DEFINE V == VECTOR_SIZE
           b == StartOf(r, total, g)
           c == Len(r[g].rows)
           p == Before(r, g)
           k == CeilDiv(c, V)
           j == m - p
           skip == j * V
<1>1. /\ g \in 1 .. Len(r) /\ g \in 1 .. Len(r) + 1 /\ g + 1 \in 1 .. Len(r) + 1
      /\ m \in Nat /\ p <= m /\ m < Before(r, g + 1)
  BY StartsAre DEF PieceAt
<1>2. /\ b \in Nat /\ c \in Nat \ {0} /\ StartOf(r, total, g + 1) = b + c
      /\ r[g].rows = NewRows(b, c) /\ p \in Nat /\ V \in Nat \ {0}
  BY <1>1, StartsAre, BeforeIs, DataTableAssumption
<1>3. a = b + skip /\ n = Smaller(V, c - skip)
  BY DEF PieceAt
<1>4. Before(r, g + 1) = p + k
  BY <1>1, BeforeSteps
<1>5. k \in Nat \ {0} /\ k * V < c + V
  BY <1>2, CeilDivIs
<1> HIDE DEF V, b, c, p, k
<1>6. j \in Nat /\ j < k
  BY <1>1, <1>2, <1>4, <1>5
<1> HIDE DEF j
<1>7. j * V + V <= k * V /\ j * V \in Nat /\ k * V \in Nat
  BY <1>2, <1>5, <1>6
<1> HIDE DEF skip
<1>8. skip \in Nat /\ skip < c
  BY <1>2, <1>5, <1>7 DEF skip
<1>9. n \in Nat \ {0} /\ n <= V /\ skip + n <= c
  BY <1>2, <1>3, <1>8 DEF Smaller
<1>10. a \in Nat /\ b <= a /\ a + n <= b + c
  BY <1>2, <1>3, <1>8, <1>9
<1>11. SubSeq(NewRows(b, c), skip + 1, skip + n) = NewRows(a, n)
  <2> DEFINE z == skip + n
  <2>1. skip \in 0 .. c /\ z \in skip .. c /\ z - skip = n /\ c \in Nat
    BY <1>2, <1>8, <1>9
  <2> HIDE DEF z
  <2>2. SubSeq(NewRows(b, c), skip + 1, z) = NewRows(b + skip, z - skip)
    BY <1>2, <2>1, NewRowsPart
  <2> QED BY <1>3, <2>1, <2>2 DEF z
<1> QED BY <1>2, <1>9, <1>10, <1>11 DEF V, b, c, p, j, skip

LEMMA PiecesInOrder ==
  ASSUME NEW r, NEW total, Complete(r, total),
         NEW g, NEW m, NEW a, NEW n, PieceAt(r, total, g, m, a, n),
         NEW h, NEW k, NEW b, NEW l, PieceAt(r, total, h, k, b, l), m <= k
  PROVE  g <= h
<1> DEFINE N == Len(r)
<1>1. /\ N \in Nat /\ g \in 1 .. N /\ h \in 1 .. N /\ m \in Nat /\ k \in Nat
      /\ Before(r, g) <= m /\ k < Before(r, h + 1)
  BY StartsAre DEF PieceAt
<1> SUFFICES ASSUME h + 1 <= g PROVE FALSE
  BY <1>1
<1>2. g \in 1 .. N + 1 /\ h + 1 \in 1 .. N + 1
  BY <1>1
<1>3. Before(r, h + 1) <= Before(r, g) /\ Before(r, g) \in Nat /\ Before(r, h + 1) \in Nat
  BY <1>2, BeforeIs
<1> QED BY <1>1, <1>3

LEMMA PieceIsOne ==
  ASSUME NEW r, NEW total, Complete(r, total), NEW m,
         NEW g, NEW a, NEW n, PieceAt(r, total, g, m, a, n),
         NEW h, NEW b, NEW l, PieceAt(r, total, h, m, b, l)
  PROVE  a = b /\ n = l
<1>1. m \in Nat /\ g \in Nat /\ h \in Nat /\ m <= m
  BY StartsAre DEF PieceAt
<1>2. g <= h /\ h <= g
  BY <1>1, PiecesInOrder
<1>3. g = h
  BY <1>1, <1>2
<1> QED BY <1>3 DEF PieceAt

LEMMA PiecesApart ==
  ASSUME NEW r, NEW total, Complete(r, total),
         NEW g, NEW m, NEW a, NEW n, PieceAt(r, total, g, m, a, n),
         NEW h, NEW k, NEW b, NEW l, PieceAt(r, total, h, k, b, l), m < k
  PROVE  a + n <= b
<1> DEFINE N == Len(r)
           S(i) == StartOf(r, total, i)
<1>1. /\ N \in Nat /\ g \in 1 .. N /\ h \in 1 .. N /\ m \in Nat /\ k \in Nat
      /\ Before(r, g) <= m /\ m < Before(r, g + 1) /\ Before(r, h) <= k /\ k < Before(r, h + 1)
  BY StartsAre DEF PieceAt
<1>2. /\ a \in Nat /\ n \in Nat /\ n <= VECTOR_SIZE /\ a + n <= S(g + 1)
      /\ b \in Nat /\ S(h) <= b
  BY PieceIs
<1>3. /\ g + 1 \in 1 .. N + 1 /\ h + 1 \in 1 .. N + 1
      /\ g \in 1 .. N + 1 /\ h \in 1 .. N + 1
  BY <1>1
<1>4. /\ Before(r, g) \in Nat /\ Before(r, g + 1) \in Nat
      /\ Before(r, h) \in Nat /\ Before(r, h + 1) \in Nat
  BY <1>3, BeforeIs
<1>5. g <= h
  BY <1>1, PiecesInOrder
<1>6. CASE g < h
  <2>1. g + 1 <= h
    BY <1>1, <1>6
  <2>2. S(g + 1) <= S(h)
    BY <1>3, <2>1, StartsInOrder
  <2>3. S(g + 1) \in Nat /\ S(h) \in Nat
    BY <1>3, StartsAre
  <2> HIDE DEF S
  <2> QED BY <1>2, <2>2, <2>3
<1>7. CASE g = h
  <2> DEFINE V == VECTOR_SIZE
             i == m - Before(r, g)
             j == k - Before(r, g)
  <2>1. i \in Nat /\ j \in Nat /\ i < j
    BY <1>1, <1>4, <1>7
  <2>2. a = S(g) + i * V /\ b = S(g) + j * V
    BY <1>7 DEF PieceAt
  <2>3. V \in Nat \ {0} /\ S(g) \in Nat
    BY <1>3, StartsAre, DataTableAssumption
  <2> HIDE DEF i, j, V, S
  <2>4. i * V + V <= j * V /\ i * V \in Nat /\ j * V \in Nat
    BY <2>1, <2>3
  <2>5. n <= V
    BY <1>2 DEF V
  <2> QED BY <1>2, <2>2, <2>3, <2>4, <2>5
<1> QED BY <1>1, <1>5, <1>6, <1>7

(* Every row is in a morsel.                                               *)
LEMMA RowHasPiece ==
  ASSUME NEW r, NEW total, Complete(r, total), NEW x \in 1 .. total
  PROVE  \E g, m, a, n : /\ PieceAt(r, total, g, m, a, n)
                         /\ m < Before(r, Len(r) + 1) /\ a < x /\ x <= a + n
<1> DEFINE N == Len(r)
           f == [g \in 1 .. N + 1 |-> StartOf(r, total, g)]
           y == x - 1
<1>1. N \in Nat /\ total \in Nat /\ f \in [1 .. N + 1 -> Nat]
  BY StartsAre
<1>2. \A g \in 1 .. N : f[g] <= f[g + 1]
  <2> SUFFICES ASSUME NEW g \in 1 .. N PROVE f[g] <= f[g + 1]
    OBVIOUS
  <2>1. g \in 1 .. N + 1 /\ g + 1 \in 1 .. N + 1
    BY <1>1
  <2> QED BY <2>1, StartsInOrder, <1>1
<1>3. f[1] = 0 /\ f[N + 1] = total
  <2>1. StartOf(r, total, 1) = 0 /\ 1 \in 1 .. N + 1 /\ N + 1 \in 1 .. N + 1 /\ ~(N + 1 <= N)
    BY <1>1 DEF Complete
  <2>2. StartOf(r, total, N + 1) = total
    BY <2>1 DEF StartOf
  <2> QED BY <2>1, <2>2
<1>4. y \in Nat /\ f[1] <= y /\ y < f[N + 1]
  BY <1>1, <1>3
<1>5. PICK g \in 1 .. N : f[g] <= y /\ y < f[g + 1]
  <2> HIDE DEF f, N, y
  <2> QED BY <1>1, <1>2, <1>4, Rises
<1> DEFINE b == StartOf(r, total, g)
           c == Len(r[g].rows)
           V == VECTOR_SIZE
           k == CeilDiv(c, V)
           p == Before(r, g)
           q == y - b
           j == q \div V
           m == p + j
           skip == j * V
           n == Smaller(V, c - skip)
<1>6. g \in 1 .. N + 1 /\ g + 1 \in 1 .. N + 1
  BY <1>1
<1>7. /\ b \in Nat /\ c \in Nat \ {0} /\ V \in Nat \ {0} /\ p \in Nat
      /\ StartOf(r, total, g + 1) = b + c
      /\ k \in Nat \ {0} /\ c <= k * V /\ Before(r, g + 1) = p + k
  <2>1. /\ b \in Nat /\ c \in Nat \ {0} /\ StartOf(r, total, g + 1) = b + c
    BY <1>6, StartsAre
  <2>2. V \in Nat \ {0}
    BY DataTableAssumption
  <2>3. p \in Nat
    BY <1>6, BeforeIs
  <2>4. k \in Nat \ {0} /\ c <= k * V
    BY <2>1, CeilDivIs
  <2>5. Before(r, g + 1) = p + k
    BY BeforeSteps
  <2> QED BY <2>1, <2>2, <2>3, <2>4, <2>5
<1>8. b <= y /\ y < b + c
  BY <1>5, <1>6, <1>7
<1>9. q \in Nat /\ q < c
  BY SMTT(40), <1>4, <1>7, <1>8
<1>10. p + k <= Before(r, N + 1) /\ Before(r, N + 1) \in Nat
  <2>1. N + 1 \in 1 .. N + 1 /\ g + 1 <= N + 1
    BY <1>1
  <2>2. Before(r, g + 1) <= Before(r, N + 1)
    BY <1>6, <2>1, BeforeIs
  <2> QED BY <1>7, <2>1, <2>2, BeforeIs
<1> HIDE DEF b, c, V, k, p, q, y
<1>11. j \in Nat /\ j * V <= q /\ q < j * V + V
  BY <1>7, <1>9
<1> HIDE DEF j
<1>12. skip \in Nat /\ j < k
  <2>1. skip \in Nat
    BY <1>7, <1>11
  <2>2. j * V < k * V
    <3>1. k * V \in Nat
      BY <1>7
    <3> HIDE DEF skip
    <3> QED BY <1>7, <1>9, <1>11, <2>1, <3>1 DEF skip
  <2>3. j < k
    BY <1>7, <1>11, <2>2
  <2> QED BY <2>1, <2>3
<1>13. m \in Nat /\ p <= m /\ m < p + k /\ m - p = j /\ m < Before(r, N + 1)
  BY <1>7, <1>10, <1>11, <1>12
<1> HIDE DEF skip, n
<1>14. skip <= q /\ q < skip + V
  BY <1>11 DEF skip
<1>15. n \in Nat /\ skip <= q /\ q < skip + n
  BY <1>7, <1>9, <1>12, <1>14 DEF n, Smaller
<1>16. q = y - b /\ y = x - 1
  BY DEF q, y
<1>17. b + skip < x /\ x <= (b + skip) + n
  BY <1>1, <1>7, <1>12, <1>15, <1>16
<1>18. PieceAt(r, total, g, m, b + skip, n)
  <2> HIDE DEF m
  <2> QED BY <1>7, <1>13 DEF PieceAt, p, b, c, V, skip, n
<1> HIDE DEF m
<1> QED BY <1>13, <1>17, <1>18

InMorsel(r, total, x, m) ==
  \E g, a, n : PieceAt(r, total, g, m, a, n) /\ a < x /\ x <= a + n

LEMMA OneMorsel ==
  ASSUME NEW r, NEW total, Complete(r, total), NEW x \in Nat,
         NEW m, InMorsel(r, total, x, m), NEW k, InMorsel(r, total, x, k)
  PROVE  m = k /\ m \in Nat /\ x \in 1 .. total
<1>1. PICK g, a, n : PieceAt(r, total, g, m, a, n) /\ a < x /\ x <= a + n
  BY DEF InMorsel
<1>2. PICK h, b, l : PieceAt(r, total, h, k, b, l) /\ b < x /\ x <= b + l
  BY DEF InMorsel
<1>3. a \in Nat /\ n \in Nat /\ b \in Nat /\ l \in Nat /\ m \in Nat /\ k \in Nat
  BY <1>1, <1>2, PieceIs DEF PieceAt
<1>4. m = k
  <2>1. ~(m < k)
    <3> SUFFICES ASSUME m < k PROVE FALSE
      OBVIOUS
    <3>1. a + n <= b
      BY <1>1, <1>2, PiecesApart
    <3> QED BY <1>1, <1>2, <1>3, <3>1
  <2>2. ~(k < m)
    <3> SUFFICES ASSUME k < m PROVE FALSE
      OBVIOUS
    <3>1. b + l <= a
      BY <1>1, <1>2, PiecesApart
    <3> QED BY <1>1, <1>2, <1>3, <3>1
  <2> QED BY <1>3, <2>1, <2>2
<1>5. x \in 1 .. total
  <2> DEFINE N == Len(r)
  <2>1. N \in Nat /\ g \in 1 .. N /\ total \in Nat
    BY <1>1, StartsAre DEF PieceAt
  <2>2. /\ g + 1 \in 1 .. N + 1 /\ N + 1 \in 1 .. N + 1 /\ g + 1 <= N + 1 /\ ~(N + 1 <= N)
    BY <2>1
  <2>3. StartOf(r, total, N + 1) = total
    BY <2>2 DEF StartOf
  <2>4. a + n <= StartOf(r, total, g + 1)
    BY <1>1, PieceIs
  <2>5. StartOf(r, total, g + 1) <= StartOf(r, total, N + 1)
    BY <2>2, StartsInOrder
  <2>6. StartOf(r, total, g + 1) \in Nat
    BY <2>2, StartsAre
  <2> HIDE DEF N
  <2> QED BY <1>1, <1>3, <2>1, <2>3, <2>4, <2>5, <2>6
<1> QED BY <1>3, <1>4, <1>5

LEMMA MorselsEnd ==
  ASSUME NEW r, NEW total, Complete(r, total), NEW x, NEW m, InMorsel(r, total, x, m)
  PROVE  m < Before(r, Len(r) + 1)
<1> DEFINE N == Len(r)
<1>1. PICK g \in 1 .. N : m \in Nat /\ m < Before(r, g + 1)
  BY DEF InMorsel, PieceAt
<1>2. N \in Nat
  BY StartsAre
<1>3. g + 1 \in 1 .. N + 1 /\ N + 1 \in 1 .. N + 1 /\ g + 1 <= N + 1
  BY <1>2
<1>4. /\ Before(r, g + 1) <= Before(r, N + 1)
      /\ Before(r, g + 1) \in Nat /\ Before(r, N + 1) \in Nat
  BY <1>3, BeforeIs
<1> QED BY <1>1, <1>4

LEMMA InjectiveJoin ==
  ASSUME NEW T, NEW d \in Seq(T), NEW e \in Seq(T), IsInjective(d), IsInjective(e),
         \A x \in ToSet(d) : x \notin ToSet(e)
  PROVE  IsInjective(d \o e) /\ ToSet(d \o e) = ToSet(d) \cup ToSet(e)
<1> DEFINE s == d \o e
           M == Len(d)
           N == Len(e)
<1>1. /\ M \in Nat /\ N \in Nat /\ DOMAIN d = 1 .. M /\ DOMAIN e = 1 .. N
      /\ s \in Seq(T) /\ DOMAIN s = 1 .. M + N
      /\ \A i \in 1 .. M + N : s[i] = IF i <= M THEN d[i] ELSE e[i - M]
  BY ConcatProperties
<1> HIDE DEF s, M, N
<1>2. ASSUME NEW i \in 1 .. M + N
      PROVE  \/ i \in 1 .. M /\ s[i] = d[i]
             \/ i - M \in 1 .. N /\ s[i] = e[i - M]
  <2>1. i \in Int /\ (i <= M \/ i > M)
    BY <1>1
  <2>2. CASE i <= M
    BY <1>1, <2>2
  <2>3. CASE i > M
    BY <1>1, <2>3
  <2> QED BY <2>1, <2>2, <2>3
<1>3. \A i \in 1 .. M, j \in 1 .. N : d[i] # e[j]
  BY <1>1 DEF ToSet
<1>4. ASSUME NEW i \in 1 .. M + N, NEW j \in 1 .. M + N, s[i] = s[j] PROVE i = j
  <2>1. \/ i \in 1 .. M /\ s[i] = d[i]
        \/ i - M \in 1 .. N /\ s[i] = e[i - M]
    BY <1>2
  <2>2. \/ j \in 1 .. M /\ s[j] = d[j]
        \/ j - M \in 1 .. N /\ s[j] = e[j - M]
    BY <1>2
  <2>3. CASE i \in 1 .. M /\ s[i] = d[i]
    <3>1. j \in 1 .. M /\ s[j] = d[j]
      BY <1>3, <1>4, <2>2, <2>3
    <3> QED BY <1>1, <1>4, <2>3, <3>1 DEF IsInjective
  <2>4. CASE i - M \in 1 .. N /\ s[i] = e[i - M]
    <3>1. j - M \in 1 .. N /\ s[j] = e[j - M]
      BY <1>3, <1>4, <2>2, <2>4
    <3>2. i - M = j - M
      BY <1>1, <1>4, <2>4, <3>1 DEF IsInjective
    <3> QED BY <1>1, <3>2
  <2> QED BY <2>1, <2>3, <2>4
<1>5. IsInjective(s)
  BY <1>1, <1>4 DEF IsInjective
<1>6. ASSUME NEW x PROVE x \in ToSet(s) <=> x \in ToSet(d) \/ x \in ToSet(e)
  <2>1. ASSUME x \in ToSet(s) PROVE x \in ToSet(d) \/ x \in ToSet(e)
    BY <1>1, <1>2, <2>1 DEF ToSet
  <2>2. ASSUME x \in ToSet(d) PROVE x \in ToSet(s)
    <3>1. PICK i \in 1 .. M : x = d[i]
      BY <1>1, <2>2 DEF ToSet
    <3>2. i \in 1 .. M + N /\ i <= M
      BY <1>1
    <3>3. s[i] = x
      BY <1>1, <3>1, <3>2
    <3> QED BY <1>1, <3>2, <3>3 DEF ToSet
  <2>3. ASSUME x \in ToSet(e) PROVE x \in ToSet(s)
    <3>1. PICK j \in 1 .. N : x = e[j]
      BY <1>1, <2>3 DEF ToSet
    <3> DEFINE i == M + j
    <3>2. i \in 1 .. M + N /\ ~(i <= M) /\ i - M = j
      BY <1>1
    <3> HIDE DEF i
    <3>3. s[i] = x
      BY <1>1, <3>1, <3>2
    <3> QED BY <1>1, <3>2, <3>3 DEF ToSet
  <2> QED BY <2>1, <2>2, <2>3
<1>7. ToSet(s) = ToSet(d) \cup ToSet(e)
  BY <1>6
<1> QED BY <1>5, <1>7 DEF s

(* Rows that were made one after another are all different.                *)
LEMMA NewRowsSet ==
  ASSUME NEW a \in Nat, NEW n \in Nat
  PROVE  /\ IsInjective(NewRows(a, n))
         /\ \A x : x \in ToSet(NewRows(a, n)) <=> x \in Nat /\ a < x /\ x <= a + n
<1> DEFINE s == NewRows(a, n)
<1>1. DOMAIN s = 1 .. n /\ \A i \in 1 .. n : s[i] = a + i
  BY DEF NewRows
<1> HIDE DEF s
<1>2. IsInjective(s)
  BY <1>1 DEF IsInjective
<1>3. ASSUME NEW x PROVE x \in ToSet(s) <=> x \in Nat /\ a < x /\ x <= a + n
  <2>1. ASSUME x \in ToSet(s) PROVE x \in Nat /\ a < x /\ x <= a + n
    <3>1. PICK i \in 1 .. n : x = s[i]
      BY <1>1, <2>1 DEF ToSet
    <3> QED BY <1>1, <3>1
  <2>2. ASSUME x \in Nat, a < x, x <= a + n PROVE x \in ToSet(s)
    <3>1. x - a \in 1 .. n /\ a + (x - a) = x
      BY <2>2
    <3>2. s[x - a] = x
      BY <1>1, <3>1
    <3> QED BY <1>1, <3>1, <3>2 DEF ToSet
  <2> QED BY <2>1, <2>2
<1> QED BY <1>2, <1>3 DEF s

-----------------------------------------------------------------------------
(* Parallel scans                                                          *)

Of(x, m) == InMorsel(row_groups, total_rows, x, m)
Held(m)  == \E t \in Tasks : morsel[t] = m

(* Of the morsels claimed, those no task holds are those delivered.        *)
Handed ==
  /\ total_morsels = Before(row_groups, Len(row_groups) + 1)
  /\ \A t \in Tasks : morsel[t] # None => morsel[t] < next_morsel
  /\ \A t, u \in Tasks : morsel[t] # None /\ morsel[t] = morsel[u] => t = u
  /\ \A x \in ToSet(DeliveredRows) : \E m \in Nat : m < next_morsel /\ ~Held(m) /\ Of(x, m)
  /\ \A m \in Nat, x \in Nat : m < next_morsel /\ ~Held(m) /\ Of(x, m) => x \in ToSet(DeliveredRows)
  /\ \A t \in finished : morsel[t] = None /\ total_morsels <= next_morsel

Given ==
  /\ IsInjective(DeliveredRows)
  /\ total_morsels = None => \A t \in Tasks : morsel[t] = None
  /\ total_morsels # None => Handed

TableInv == Scanned /\ Given

LEMMA ScannedKept ==
  ASSUME Scanned, UNCHANGED <<table, seqscan>>,
         total_morsels' \in Nat \cup {None}, next_morsel' \in Nat,
         morsel' \in [Tasks -> Nat \cup {None}], finished' \subseteq Tasks,
         delivered' \in Seq(Seq(Nat))
  PROVE  Scanned'
<1> USE DEF table, seqscan
<1>1. TableTypeOK'
  BY DEF Scanned, TableTypeOK
<1>2. WholeTable'
  BY DEF Scanned, WholeTable
<1>3. ASSUME NEW s \in Scans PROVE Cursor(s)'
  BY DEF Scanned, Cursor
<1> QED BY <1>1, <1>2, <1>3 DEF Scanned

(* Tasks are given nothing while the table or a sequential scan changes.   *)
LEMMA GivenKept == ASSUME Given, UNCHANGED <<table, parallel>> PROVE Given'
<1>1. /\ row_groups' = row_groups /\ total_rows' = total_rows /\ total_morsels' = total_morsels
      /\ next_morsel' = next_morsel /\ morsel' = morsel /\ finished' = finished
      /\ delivered' = delivered
  BY DEF table, parallel
<1>2. DeliveredRows' = DeliveredRows
  BY <1>1 DEF DeliveredRows
<1>3. Handed => Handed'
  BY <1>1, <1>2 DEF Handed, Of, Held
<1> QED BY <1>1, <1>2, <1>3 DEF Given

LEMMA GivenBefore == ASSUME Given, Quiescent, UNCHANGED parallel PROVE Given'
<1>1. total_morsels' = total_morsels /\ morsel' = morsel /\ delivered' = delivered
  BY DEF parallel
<1>2. DeliveredRows' = DeliveredRows
  BY <1>1 DEF DeliveredRows
<1> QED BY <1>1, <1>2 DEF Given, Quiescent

LEMMA BeginGives == ASSUME TableInv, InitParallelScan PROVE TableInv'
<1>1. /\ total_morsels = None /\ total_morsels' = Before(row_groups, Len(row_groups) + 1)
      /\ next_morsel' = 0 /\ finished' = {} /\ delivered' = <<>> /\ morsel' = morsel
      /\ row_groups' = row_groups /\ total_rows' = total_rows /\ UNCHANGED <<table, seqscan>>
  BY MorselsAre DEF InitParallelScan, table
<1>2. total_morsels' \in Nat
  <2>1. Len(row_groups) + 1 \in 1 .. Len(row_groups) + 1
    BY TableIs DEF TableInv, Scanned
  <2> QED BY <1>1, <2>1, BeforeIs DEF TableInv, Scanned, WholeTable
<1>3. morsel \in [Tasks -> Nat \cup {None}] /\ \A t \in Tasks : morsel[t] = None
  BY <1>1 DEF TableInv, Scanned, TableTypeOK, Given
<1>4. Scanned'
  BY <1>1, <1>2, <1>3, ScannedKept DEF TableInv
<1>5. DeliveredRows' = <<>> /\ IsInjective(<<>>) /\ ToSet(<<>>) = {}
  BY <1>1, FlattenEmpty DEF DeliveredRows, IsInjective, ToSet
<1>6. Given'
  BY <1>1, <1>3, <1>5 DEF Given, Handed
<1> QED BY <1>4, <1>6 DEF TableInv

LEMMA EndGives == ASSUME TableInv, EndParallelScan PROVE TableInv'
<1>1. /\ total_morsels # None /\ finished = Tasks /\ total_morsels' = None
      /\ next_morsel' = next_morsel /\ morsel' = morsel /\ finished' = finished
      /\ delivered' = delivered /\ UNCHANGED <<table, seqscan>>
  BY DEF EndParallelScan
<1>2. Scanned'
  BY <1>1, ScannedKept DEF TableInv, Scanned, TableTypeOK
<1>3. DeliveredRows' = DeliveredRows
  BY <1>1 DEF DeliveredRows
<1>4. Given'
  BY <1>1, <1>3 DEF TableInv, Given, Handed
<1> QED BY <1>2, <1>4 DEF TableInv

LEMMA ClaimGives == ASSUME TableInv, NEW t \in Tasks, Claim(t) PROVE TableInv'
<1>1. /\ total_morsels # None /\ t \notin finished /\ morsel[t] = None
      /\ next_morsel' = next_morsel + 1 /\ total_morsels' = total_morsels
      /\ delivered' = delivered /\ row_groups' = row_groups /\ total_rows' = total_rows
      /\ UNCHANGED <<table, seqscan>>
  BY DEF Claim, table
<1>2. /\ total_morsels \in Nat /\ next_morsel \in Nat
      /\ morsel \in [Tasks -> Nat \cup {None}] /\ finished \subseteq Tasks
      /\ delivered \in Seq(Seq(Nat)) /\ Handed /\ IsInjective(DeliveredRows)
      /\ Complete(row_groups, total_rows)
  BY <1>1 DEF TableInv, Scanned, TableTypeOK, Given, WholeTable
<1>3. DeliveredRows' = DeliveredRows /\ \A x, m : Of(x, m)' = Of(x, m)
  BY <1>1 DEF DeliveredRows, Of
<1>4. None \notin Nat
  BY DataTableAssumption
<1>5. CASE next_morsel < total_morsels
  <2>1. morsel' = [morsel EXCEPT ![t] = next_morsel] /\ finished' = finished
    BY <1>5 DEF Claim
  <2>2. /\ morsel' \in [Tasks -> Nat \cup {None}] /\ morsel'[t] = next_morsel
        /\ \A u \in Tasks : u # t => morsel'[u] = morsel[u]
    BY <1>2, <2>1
  <2>3. \A m \in Nat : Held(m)' <=> Held(m) \/ m = next_morsel
    BY <1>1, <1>4, <2>2 DEF Held
  <2>4. \A u \in Tasks : morsel[u] # None => morsel[u] < next_morsel /\ morsel[u] \in Nat
    BY <1>2 DEF Handed
  <2>5. ASSUME NEW u \in Tasks, morsel'[u] # None PROVE morsel'[u] < next_morsel'
    <3>1. CASE u = t
      BY <1>1, <1>2, <2>2, <3>1
    <3>2. CASE u # t
      <4>1. morsel[u] < next_morsel /\ morsel[u] \in Nat /\ morsel'[u] = morsel[u]
        BY <2>2, <2>4, <2>5, <3>2
      <4> QED BY <1>1, <1>2, <4>1
    <3> QED BY <3>1, <3>2
  <2>6. ASSUME NEW u \in Tasks, NEW v \in Tasks, morsel'[u] # None, morsel'[u] = morsel'[v]
        PROVE  u = v
    <3>1. ASSUME NEW w \in Tasks, w # t PROVE morsel'[w] # next_morsel
      <4>1. morsel'[w] = morsel[w] /\ (morsel[w] # None => morsel[w] < next_morsel /\ morsel[w] \in Nat)
        BY <2>2, <2>4, <3>1
      <4>2. CASE morsel[w] = None
        BY <1>2, <1>4, <4>1, <4>2
      <4>3. CASE morsel[w] # None
        BY <1>2, <4>1, <4>3
      <4> QED BY <4>2, <4>3
    <3> QED BY <1>2, <2>2, <2>6, <3>1 DEF Handed
  <2>7. ASSUME NEW x \in ToSet(DeliveredRows)
        PROVE  \E m \in Nat : m < next_morsel' /\ ~Held(m)' /\ Of(x, m)
    <3>1. PICK m \in Nat : m < next_morsel /\ ~Held(m) /\ Of(x, m)
      BY <1>2 DEF Handed
    <3>2. m < next_morsel' /\ m # next_morsel
      BY <1>1, <1>2, <3>1
    <3>3. ~Held(m)'
      BY <2>3, <3>1, <3>2
    <3> QED BY <3>1, <3>2, <3>3
  <2>8. ASSUME NEW m \in Nat, NEW x \in Nat, m < next_morsel', ~Held(m)', Of(x, m)
        PROVE  x \in ToSet(DeliveredRows)
    <3>1. ~Held(m) /\ m # next_morsel
      BY <2>3, <2>8
    <3>2. m < next_morsel
      BY <1>1, <1>2, <2>8, <3>1
    <3> QED BY <1>2, <2>8, <3>1, <3>2 DEF Handed
  <2>9. \A u \in finished' : morsel'[u] = None /\ total_morsels' <= next_morsel'
    BY <1>1, <1>2, <2>1, <2>2 DEF Handed
  <2>10. total_morsels' = Before(row_groups', Len(row_groups') + 1)
    BY <1>1, <1>2 DEF Handed
  <2>11. Handed'
    BY <1>3, <2>5, <2>6, <2>7, <2>8, <2>9, <2>10 DEF Handed
  <2>12. Given'
    BY <1>1, <1>2, <1>3, <2>11 DEF Given
  <2>13. Scanned'
    BY <1>1, <1>2, <2>1, <2>2, ScannedKept DEF TableInv
  <2> QED BY <2>12, <2>13 DEF TableInv
<1>6. CASE ~(next_morsel < total_morsels)
  <2>1. morsel' = morsel /\ finished' = finished \cup {t}
    BY <1>6 DEF Claim
  <2>2. \A m : Held(m)' <=> Held(m)
    BY <2>1 DEF Held
  <2>3. next_morsel < next_morsel' /\ total_morsels <= next_morsel /\ total_morsels <= next_morsel'
    BY <1>1, <1>2, <1>6
  <2>4. \A u \in Tasks : morsel'[u] # None => morsel'[u] < next_morsel'
    <3>1. \A u \in Tasks : morsel[u] # None => morsel[u] < next_morsel /\ morsel[u] \in Nat
      BY <1>2 DEF Handed
    <3> QED BY <1>1, <1>2, <2>1, <3>1
  <2>5. \A u, v \in Tasks : morsel'[u] # None /\ morsel'[u] = morsel'[v] => u = v
    BY <1>2, <2>1 DEF Handed
  <2>6. ASSUME NEW x \in ToSet(DeliveredRows)
        PROVE  \E m \in Nat : m < next_morsel' /\ ~Held(m)' /\ Of(x, m)
    <3>1. PICK m \in Nat : m < next_morsel /\ ~Held(m) /\ Of(x, m)
      BY <1>2 DEF Handed
    <3>2. m < next_morsel'
      BY <1>1, <1>2, <3>1
    <3> QED BY <2>2, <3>1, <3>2
  <2>7. ASSUME NEW m \in Nat, NEW x \in Nat, m < next_morsel', ~Held(m)', Of(x, m)
        PROVE  x \in ToSet(DeliveredRows)
    <3>1. m < total_morsels
      BY <1>2, <2>7, MorselsEnd DEF Of, Handed
    <3>2. m < next_morsel
      BY <1>2, <2>3, <3>1
    <3> QED BY <1>2, <2>2, <2>7, <3>2 DEF Handed
  <2>8. \A u \in finished' : morsel'[u] = None /\ total_morsels' <= next_morsel'
    BY <1>1, <1>2, <2>1, <2>3 DEF Handed
  <2>9. total_morsels' = Before(row_groups', Len(row_groups') + 1)
    BY <1>1, <1>2 DEF Handed
  <2>10. Handed'
    BY <1>3, <2>4, <2>5, <2>6, <2>7, <2>8, <2>9 DEF Handed
  <2>11. Given'
    BY <1>1, <1>2, <1>3, <2>10 DEF Given
  <2>12. Scanned'
    BY <1>1, <1>2, <2>1, ScannedKept DEF TableInv
  <2> QED BY <2>11, <2>12 DEF TableInv
<1> QED BY <1>5, <1>6

(* What a task reads are the rows of its morsel.                           *)
LEMMA ReadIs ==
  ASSUME TableInv, NEW t \in Tasks, Read(t)
  PROVE  \E a, n \in Nat : /\ delivered' = Append(delivered, NewRows(a, n))
                           /\ \A x \in Nat : Of(x, morsel[t]) <=> a < x /\ x <= a + n
<1> DEFINE m == morsel[t]
           V == VECTOR_SIZE
           r == row_groups
           total == total_rows
<1>1. Complete(r, total) /\ m \in Nat
  <2>1. m # None
    BY DEF Read
  <2> QED BY <2>1 DEF TableInv, Scanned, WholeTable, TableTypeOK
<1>2. PICK g \in 1 .. Len(r) :
        /\ Before(r, g) <= m /\ m < Before(r, g) + CeilDiv(Len(r[g].rows), V)
        /\ LET start == (m - Before(r, g)) * V
               n     == Smaller(V, Len(r[g].rows) - start)
           IN  delivered' = Append(delivered, SubSeq(r[g].rows, start + 1, start + n))
  <2>1. DOMAIN r = 1 .. Len(r)
    BY DEF TableInv, Scanned, TableTypeOK
  <2> QED BY <2>1, MorselsAre DEF Read, Count
<1> DEFINE start == (m - Before(r, g)) * V
           n == Smaller(V, Len(r[g].rows) - start)
           a == StartOf(r, total, g) + start
<1>3. Before(r, g + 1) = Before(r, g) + CeilDiv(Len(r[g].rows), V)
  BY <1>1, BeforeSteps
<1>4. PieceAt(r, total, g, m, a, n)
  BY <1>1, <1>2, <1>3 DEF PieceAt
<1>5. /\ a \in Nat /\ n \in Nat
      /\ SubSeq(r[g].rows, start + 1, start + n) = NewRows(a, n)
  <2> HIDE DEF m, a, n, r
  <2> QED BY <1>1, <1>4, PieceIs
<1>6. delivered' = Append(delivered, NewRows(a, n))
  BY <1>2, <1>5
<1> HIDE DEF a, n, m
<1>7. ASSUME NEW x \in Nat PROVE Of(x, m) <=> a < x /\ x <= a + n
  <2>1. ASSUME Of(x, m) PROVE a < x /\ x <= a + n
    <3>1. PICK h, b, l : PieceAt(r, total, h, m, b, l) /\ b < x /\ x <= b + l
      BY <2>1 DEF Of, InMorsel
    <3>2. a = b /\ n = l
      BY <1>1, <1>4, <3>1, PieceIsOne
    <3> QED BY <3>1, <3>2
  <2>2. ASSUME a < x, x <= a + n PROVE Of(x, m)
    BY <1>4, <2>2 DEF Of, InMorsel
  <2> QED BY <2>1, <2>2
<1> QED BY <1>5, <1>6, <1>7 DEF m

LEMMA ReadGives == ASSUME TableInv, NEW t \in Tasks, Read(t) PROVE TableInv'
<1> DEFINE m == morsel[t]
<1>1. /\ m # None /\ total_morsels' = total_morsels /\ next_morsel' = next_morsel
      /\ morsel' = [morsel EXCEPT ![t] = None] /\ finished' = finished
      /\ row_groups' = row_groups /\ total_rows' = total_rows
      /\ UNCHANGED <<table, seqscan>>
  BY DEF Read, table
<1>2. PICK a, n \in Nat : /\ delivered' = Append(delivered, NewRows(a, n))
                          /\ \A x \in Nat : Of(x, m) <=> a < x /\ x <= a + n
  BY ReadIs
<1>3. total_morsels # None
  BY <1>1 DEF TableInv, Given
<1>4. /\ total_morsels \in Nat /\ next_morsel \in Nat /\ m \in Nat
      /\ morsel \in [Tasks -> Nat \cup {None}] /\ finished \subseteq Tasks
      /\ delivered \in Seq(Seq(Nat)) /\ Handed /\ IsInjective(DeliveredRows)
      /\ Complete(row_groups, total_rows)
  BY <1>1, <1>3 DEF TableInv, Scanned, TableTypeOK, Given, WholeTable
<1> DEFINE e == NewRows(a, n)
           d == DeliveredRows
<1>5. e \in Seq(Nat) /\ IsInjective(e) /\ \A x \in Nat : x \in ToSet(e) <=> Of(x, m)
  <2>1. e \in Seq(Nat)
    BY NewRowsAre
  <2>2. IsInjective(e) /\ \A x : x \in ToSet(e) <=> x \in Nat /\ a < x /\ x <= a + n
    BY NewRowsSet
  <2> HIDE DEF e, m
  <2> QED BY <1>2, <2>1, <2>2
<1> HIDE DEF e
<1>6. d \in Seq(Nat) /\ DeliveredRows' = d \o e
  <2>1. delivered' = Append(delivered, e)
    BY <1>2 DEF e
  <2> QED BY <1>4, <1>5, <2>1, FlattenType, FlattenAppend DEF DeliveredRows
<1>7. ToSet(d) \subseteq Nat /\ ToSet(e) \subseteq Nat
  BY <1>5, <1>6 DEF ToSet
<1> HIDE DEF d, m
<1>8. Held(m) /\ \A k : k \in Nat => (Held(k)' <=> Held(k) /\ k # m)
  <2>1. Held(m)
    BY DEF Held, m
  <2>2. \A u \in Tasks : morsel[u] = m => u = t
    BY <1>1, <1>4 DEF Handed, m
  <2>3. morsel'[t] = None /\ \A u \in Tasks : u # t => morsel'[u] = morsel[u]
    BY <1>1, <1>4
  <2>4. None \notin Nat
    BY DataTableAssumption
  <2>5. ASSUME NEW k \in Nat, NEW u \in Tasks, morsel'[u] = k PROVE morsel[u] = k /\ k # m
    BY <2>2, <2>3, <2>4, <2>5
  <2>6. ASSUME NEW k \in Nat, NEW u \in Tasks, morsel[u] = k, k # m PROVE morsel'[u] = k
    BY <2>3, <2>6 DEF m
  <2> QED BY <2>1, <2>5, <2>6 DEF Held
<1>9. \A x, k : Of(x, k)' = Of(x, k)
  BY <1>1 DEF Of
<1>10. ASSUME NEW x \in Nat, NEW k, Of(x, m), Of(x, k) PROVE k = m
  BY <1>4, <1>10, OneMorsel DEF Of
<1>11. ASSUME NEW x \in ToSet(d) PROVE x \notin ToSet(e)
  <2>1. PICK k \in Nat : ~Held(k) /\ Of(x, k)
    BY <1>4 DEF Handed, d
  <2> QED BY <1>5, <1>7, <1>8, <1>10, <2>1
<1>12. IsInjective(d \o e) /\ ToSet(d \o e) = ToSet(d) \cup ToSet(e)
  BY <1>4, <1>5, <1>6, <1>11, InjectiveJoin DEF d
<1>13. m < next_morsel
  BY <1>1, <1>4 DEF Handed, m
<1>14. ASSUME NEW x \in ToSet(DeliveredRows')
       PROVE  \E k \in Nat : k < next_morsel' /\ ~Held(k)' /\ Of(x, k)
  <2>1. CASE x \in ToSet(d)
    <3>1. PICK k \in Nat : k < next_morsel /\ ~Held(k) /\ Of(x, k)
      BY <1>4, <2>1 DEF Handed, d
    <3> QED BY <1>1, <1>8, <3>1
  <2>2. CASE x \in ToSet(e)
    <3>1. PICK k \in Nat : k = m
      BY <1>4
    <3>2. ~Held(k)' /\ Of(x, k)
      BY <1>5, <1>7, <1>8, <2>2, <3>1
    <3> QED BY <1>1, <1>13, <3>1, <3>2
  <2> QED BY <1>6, <1>12, <2>1, <2>2
<1>15. ASSUME NEW k \in Nat, NEW x \in Nat, k < next_morsel', ~Held(k)', Of(x, k)
       PROVE  x \in ToSet(DeliveredRows')
  <2>1. CASE k = m
    BY <1>5, <1>6, <1>12, <1>15, <2>1
  <2>2. CASE k # m
    <3>1. ~Held(k) /\ k < next_morsel
      BY <1>1, <1>8, <1>15, <2>2
    <3>2. x \in ToSet(d)
      BY <1>4, <1>15, <3>1 DEF Handed, d
    <3> QED BY <1>6, <1>12, <3>2
  <2> QED BY <2>1, <2>2
<1>16. ASSUME NEW u \in Tasks, morsel'[u] # None PROVE u # t /\ morsel'[u] = morsel[u]
  BY <1>1, <1>4, <1>16
<1>17. \A u \in Tasks : morsel'[u] # None => morsel'[u] < next_morsel'
  BY <1>1, <1>4, <1>16 DEF Handed
<1>18. \A u, v \in Tasks : morsel'[u] # None /\ morsel'[u] = morsel'[v] => u = v
  BY <1>4, <1>16 DEF Handed
<1>19. \A u \in finished' : morsel'[u] = None /\ total_morsels' <= next_morsel'
  BY <1>1, <1>4 DEF Handed
<1>20. total_morsels' = Before(row_groups', Len(row_groups') + 1)
  BY <1>1, <1>4 DEF Handed
<1>21. Handed'
  BY <1>9, <1>14, <1>15, <1>17, <1>18, <1>19, <1>20 DEF Handed
<1>22. Given'
  BY <1>1, <1>3, <1>6, <1>12, <1>21 DEF Given
<1>23. delivered' \in Seq(Seq(Nat)) /\ morsel' \in [Tasks -> Nat \cup {None}]
  <2> DEFINE S == Seq(Nat)
  <2>1. delivered' = Append(delivered, e) /\ delivered \in Seq(S) /\ e \in S
    BY <1>2, <1>4, <1>5 DEF e
  <2>2. morsel' \in [Tasks -> Nat \cup {None}]
    BY <1>1, <1>4
  <2> HIDE DEF S
  <2>3. delivered' \in Seq(S)
    BY <2>1
  <2> QED BY <2>2, <2>3 DEF S
<1>24. Scanned'
  BY <1>1, <1>4, <1>23, ScannedKept DEF TableInv
<1> QED BY <1>22, <1>24 DEF TableInv

-----------------------------------------------------------------------------
(* The invariant                                                           *)

(* Appends change the table, and nothing that scans it.                    *)
LEMMA TableSteps ==
  ASSUME TableInv,
         \/ \E n \in 1 .. VECTOR_SIZE : Append_(NewRows(total_rows, n))
         \/ \E m, n \in 0 .. ROW_GROUP_SIZE :
              AppendRowGroups(<<NewRows(total_rows, m), NewRows(total_rows + m, n)>>)
  PROVE  /\ Grown(row_groups, total_rows, row_groups', total_rows')
         /\ UNCHANGED <<seqscan, parallel>> /\ Quiescent
<1>1. Complete(row_groups, total_rows)
  BY DEF TableInv, Scanned, WholeTable
<1>2. CASE \E n \in 1 .. VECTOR_SIZE : Append_(NewRows(total_rows, n))
  <2>1. PICK n \in 1 .. VECTOR_SIZE : Append_(NewRows(total_rows, n))
    BY <1>2
  <2>2. UNCHANGED <<seqscan, parallel>> /\ Quiescent
    BY <2>1 DEF Append_
  <2>3. Grown(row_groups, total_rows, row_groups', total_rows')
    BY <1>1, <2>1, AppendGrows
  <2> QED BY <2>2, <2>3
<1>3. CASE \E m, n \in 0 .. ROW_GROUP_SIZE :
             AppendRowGroups(<<NewRows(total_rows, m), NewRows(total_rows + m, n)>>)
  <2>1. PICK m, n \in 0 .. ROW_GROUP_SIZE :
          AppendRowGroups(<<NewRows(total_rows, m), NewRows(total_rows + m, n)>>)
    BY <1>3
  <2>2. UNCHANGED <<seqscan, parallel>> /\ Quiescent
    BY <2>1 DEF AppendRowGroups
  <2>3. Grown(row_groups, total_rows, row_groups', total_rows')
    BY <1>1, <2>1, GroupsGrow
  <2> QED BY <2>2, <2>3
<1> QED BY <1>2, <1>3

LEMMA GrownKeeps ==
  ASSUME TableInv, Grown(row_groups, total_rows, row_groups', total_rows'),
         UNCHANGED <<seqscan, parallel>>, Quiescent
  PROVE  TableInv'
<1>1. Given'
  BY GivenBefore DEF TableInv
<1>2. WholeTable'
  BY DEF Grown, WholeTable
<1>3. TableTypeOK'
  BY <1>2 DEF TableInv, Scanned, TableTypeOK, WholeTable, Complete, seqscan, parallel
<1>4. ASSUME NEW s \in Scans PROVE Cursor(s)'
  BY CursorKept DEF TableInv
<1> QED BY <1>1, <1>2, <1>3, <1>4 DEF TableInv, Scanned

LEMMA ScansKeep ==
  ASSUME TableInv, NEW s \in Scans, InitScan(s) \/ Scan(s)
  PROVE  TableInv'
<1>1. UNCHANGED <<table, parallel>>
  BY DEF InitScan, Scan
<1>2. Given' /\ WholeTable'
  BY <1>1, GivenKept DEF TableInv, Scanned, WholeTable, table
<1>3. /\ state' \in [Scans -> [group : Nat, row : Nat]] /\ got' \in [Scans -> Seq(Nat)]
      /\ ended' \subseteq Scans /\ \A v \in Scans : Cursor(v)'
  <2>1. CASE InitScan(s)
    <3>1. ended' \subseteq Scans
      BY <2>1 DEF TableInv, Scanned, TableTypeOK, InitScan
    <3> QED BY <2>1, <3>1, RestartsAtTheStart DEF TableInv
  <2>2. CASE Scan(s)
    <3>1. Delivers(s) \/ Ends(s)
      BY <2>2, ScanDelivers DEF TableInv
    <3>2. got \in [Scans -> Seq(Nat)] /\ ended \subseteq Scans
      BY DEF TableInv, Scanned, TableTypeOK
    <3>3. CASE Delivers(s)
      <4>1. PICK n \in 1 .. VECTOR_SIZE : /\ got' = [got EXCEPT ![s] = NewRows(0, Len(got[s]) + n)]
                                          /\ ended' = ended
        BY <3>3 DEF Delivers
      <4>2. Len(got[s]) + n \in Nat
        BY <3>2
      <4>3. NewRows(0, Len(got[s]) + n) \in Seq(Nat)
        BY <4>2, NewRowsAre
      <4> QED BY <2>2, <3>2, <4>1, <4>3, ScanDelivers DEF TableInv
    <3>4. CASE Ends(s)
      BY <2>2, <3>2, <3>4, ScanDelivers DEF TableInv, Ends
    <3> QED BY <3>1, <3>3, <3>4
  <2> QED BY <2>1, <2>2
<1>4. TableTypeOK'
  BY <1>1, <1>3 DEF TableInv, Scanned, TableTypeOK, table, parallel
<1> QED BY <1>2, <1>3, <1>4 DEF TableInv, Scanned

LEMMA InitHolds == TableInit => TableInv
<1> SUFFICES ASSUME TableInit PROVE TableInv
  OBVIOUS
<1>1. TableTypeOK
  BY DataTableAssumption DEF TableInit, TableTypeOK
<1>2. WholeTable
  <2>1. row_groups = <<>> /\ total_rows = 0 /\ Len(row_groups) = 0
    BY DEF TableInit
  <2>2. StartOf(row_groups, total_rows, 1) = 0
    BY <2>1 DEF StartOf
  <2> QED BY <1>1, <2>1, <2>2 DEF WholeTable, Complete, TableTypeOK
<1>3. ASSUME NEW s \in Scans PROVE Cursor(s)
  <2>1. /\ got[s] = <<>> /\ Len(got[s]) = 0 /\ state[s].group = 0 /\ state[s].row = 0
        /\ total_rows = 0 /\ Len(row_groups) = 0
    BY DEF TableInit
  <2>2. NewRows(0, 0) = <<>>
    BY NewRowsAre
  <2>3. StartOf(row_groups, total_rows, 0 + 1) = 0
    BY <2>1 DEF StartOf
  <2> QED BY <2>1, <2>2, <2>3 DEF Cursor, Follows, InGroup
<1>4. DeliveredRows = <<>> /\ IsInjective(<<>>)
  BY FlattenEmpty DEF TableInit, DeliveredRows, IsInjective
<1>5. Given
  BY <1>4 DEF Given, TableInit
<1> QED BY <1>1, <1>2, <1>3, <1>5 DEF TableInv, Scanned

LEMMA NextHolds == TableInv /\ [TableNext]_tableVars => TableInv'
<1> SUFFICES ASSUME TableInv, [TableNext]_tableVars PROVE TableInv'
  OBVIOUS
<1>1. CASE \/ \E n \in 1 .. VECTOR_SIZE : Append_(NewRows(total_rows, n))
           \/ \E m, n \in 0 .. ROW_GROUP_SIZE :
                AppendRowGroups(<<NewRows(total_rows, m), NewRows(total_rows + m, n)>>)
  BY <1>1, TableSteps, GrownKeeps
<1>2. ASSUME NEW s \in Scans, InitScan(s) \/ Scan(s) PROVE TableInv'
  BY <1>2, ScansKeep
<1>3. CASE InitParallelScan
  BY <1>3, BeginGives
<1>4. CASE EndParallelScan
  BY <1>4, EndGives
<1>5. ASSUME NEW t \in Tasks, Claim(t) \/ Read(t) PROVE TableInv'
  BY <1>5, ClaimGives, ReadGives
<1>6. CASE UNCHANGED tableVars
  <2>1. UNCHANGED <<table, seqscan>> /\ UNCHANGED <<table, parallel>>
    BY <1>6 DEF tableVars
  <2>2. Given'
    BY <2>1, GivenKept DEF TableInv
  <2>3. Scanned'
    BY <2>1, ScannedKept DEF TableInv, Scanned, TableTypeOK, parallel
  <2> QED BY <2>2, <2>3 DEF TableInv
<1> QED BY <1>1, <1>2, <1>3, <1>4, <1>5, <1>6 DEF TableNext

THEOREM TableInvariant == TableSpec => []TableInv
BY InitHolds, NextHolds, PTL DEF TableSpec

(* Row groups, cursors, morsels and what scans were given keep their types. *)
THEOREM TableTypeCorrect == TableSpec => []TableTypeOK
<1>1. TableInv => TableTypeOK
  BY DEF TableInv, Scanned
<1> QED BY <1>1, TableInvariant, PTL

(* EachRowOnce of DataTable: no row is given to two tasks, and all rows     *)
(* were given to some task when all were told there is no more.            *)
THEOREM RowsOnce == TableSpec => []EachRowOnce
<1>1. TableInv => EachRowOnce
  <2> SUFFICES ASSUME TableInv PROVE EachRowOnce
    OBVIOUS
  <2>1. IsInjective(DeliveredRows)
    BY DEF TableInv, Given
  <2>2. ASSUME total_morsels # None, finished = Tasks PROVE ToSet(DeliveredRows) = ToSet(Contents)
    <3>1. /\ Handed /\ Complete(row_groups, total_rows) /\ total_rows \in Nat
          /\ total_morsels \in Nat /\ next_morsel \in Nat
      BY <2>2 DEF TableInv, Scanned, WholeTable, Given, TableTypeOK
    <3>2. total_morsels <= next_morsel /\ \A t \in Tasks : morsel[t] = None
      BY <2>2, <3>1, DataTableAssumption DEF Handed
    <3>3. \A x : x \in ToSet(Contents) <=> x \in 1 .. total_rows
      <4>1. Contents = NewRows(0, total_rows)
        BY <3>1, TableIs DEF TableInv, Scanned
      <4> DEFINE z == 0
      <4>2. z \in Nat
        OBVIOUS
      <4>3. \A x : x \in 1 .. total_rows <=> x \in Nat /\ z < x /\ x <= z + total_rows
        BY <3>1
      <4> HIDE DEF z
      <4>4. \A x : x \in ToSet(NewRows(z, total_rows)) <=> x \in Nat /\ z < x /\ x <= z + total_rows
        BY <3>1, <4>2, NewRowsSet
      <4> QED BY <4>1, <4>3, <4>4 DEF z
    <3>4. DeliveredRows \in Seq(Nat)
      BY FlattenType DEF TableInv, Scanned, TableTypeOK, DeliveredRows
    <3>5. ASSUME NEW x \in ToSet(DeliveredRows) PROVE x \in 1 .. total_rows
      <4>1. x \in Nat
        BY <3>4 DEF ToSet
      <4>2. PICK m \in Nat : Of(x, m)
        BY <3>1 DEF Handed
      <4> QED BY <3>1, <4>1, <4>2, OneMorsel DEF Of
    <3>6. ASSUME NEW x \in 1 .. total_rows PROVE x \in ToSet(DeliveredRows)
      <4>1. PICK g, m, a, n : /\ PieceAt(row_groups, total_rows, g, m, a, n)
                              /\ m < Before(row_groups, Len(row_groups) + 1)
                              /\ a < x /\ x <= a + n
        BY <3>1, RowHasPiece
      <4>2. Of(x, m) /\ m \in Nat /\ m < total_morsels
        BY <3>1, <4>1 DEF Of, InMorsel, PieceAt, Handed
      <4>3. m < next_morsel
        BY <3>1, <3>2, <4>2
      <4>4. ~Held(m)
        BY <3>2, <4>2, DataTableAssumption DEF Held
      <4>5. x \in Nat
        BY <3>1
      <4> QED BY <3>1, <4>2, <4>3, <4>4, <4>5 DEF Handed
    <3> QED BY <3>3, <3>5, <3>6
  <2> QED BY <2>1, <2>2 DEF EachRowOnce
<1> QED BY <1>1, TableInvariant, PTL

-----------------------------------------------------------------------------
(* A table implements RowStore                                             *)

LEMMA FirstRowsAre ==
  ASSUME NEW n \in Nat, NEW k \in 0 .. n
  PROVE  SubSeq(NewRows(0, n), 1, k) = NewRows(0, k)
<1> DEFINE z == 0
<1>1. z \in Nat /\ z \in 0 .. n /\ k \in z .. n /\ z + 1 = 1 /\ z + z = z /\ k - z = k
  OBVIOUS
<1> HIDE DEF z
<1>2. SubSeq(NewRows(z, n), z + 1, k) = NewRows(z + z, k - z)
  BY <1>1, NewRowsPart
<1> QED BY <1>1, <1>2 DEF z

LEMMA ContentsKept == ASSUME UNCHANGED table PROVE Contents' = Contents
BY DEF table, Contents

LEMMA StoreGrows ==
  ASSUME TableInv, Grown(row_groups, total_rows, row_groups', total_rows'),
         UNCHANGED <<seqscan, parallel>>
  PROVE  [Store!Next]_(Store!rvars)
<1>1. /\ Contents = NewRows(0, total_rows) /\ total_rows \in Nat
  BY TableIs DEF TableInv, Scanned
<1>2. /\ Contents' = NewRows(0, total_rows') /\ total_rows' \in Nat
  <2>1. Complete(row_groups', total_rows')
    BY DEF Grown
  <2> QED BY <2>1, ContentsAre, StartsAre DEF Contents, RowsIn
<1>3. total_rows <= total_rows' /\ got' = got
  BY DEF Grown, seqscan
<1>4. CASE total_rows' = total_rows
  <2>1. Contents' = Contents
    BY <1>1, <1>2, <1>4
  <2> QED BY <1>3, <2>1 DEF Store!rvars
<1>5. CASE total_rows' # total_rows
  <2>1. Len(Contents) = total_rows /\ Len(Contents') = total_rows'
    BY <1>1, <1>2, NewRowsAre
  <2>2. Len(Contents') > Len(Contents)
    BY <1>1, <1>2, <1>3, <1>5, <2>1
  <2>3. total_rows \in 0 .. total_rows'
    BY <1>1, <1>2, <1>3
  <2>4. SubSeq(Contents', 1, Len(Contents)) = Contents
    BY <1>1, <1>2, <2>1, <2>3, FirstRowsAre
  <2>5. Store!Grow
    BY <1>3, <2>2, <2>4 DEF Store!Grow
  <2> QED BY <2>5 DEF Store!Next
<1> QED BY <1>4, <1>5

LEMMA StoreDelivers ==
  ASSUME TableInv, NEW s \in Scans, InitScan(s) \/ Scan(s)
  PROVE  /\ [Store!Next]_(Store!rvars)
         /\ \A v \in Scans : v \in ended' \ ended => got'[v] = Contents
<1>1. /\ Contents = NewRows(0, total_rows) /\ total_rows \in Nat
      /\ got \in [Scans -> Seq(Nat)] /\ \A v \in Scans : Cursor(v)
  BY TableIs DEF TableInv, Scanned, TableTypeOK
<1>2. Contents' = Contents
  BY ContentsKept DEF InitScan, Scan
<1>3. CASE InitScan(s)
  <2>1. Store!Restart(s)
    BY <1>2, <1>3 DEF InitScan, Store!Restart
  <2>2. ended' \ ended = {}
    BY <1>3 DEF InitScan
  <2> QED BY <2>1, <2>2 DEF Store!Next
<1>4. CASE Scan(s)
  <2>1. Delivers(s) \/ Ends(s)
    BY <1>4, ScanDelivers DEF TableInv
  <2>2. CASE Delivers(s)
    <3>1. PICK n \in 1 .. VECTOR_SIZE :
            /\ Len(got[s]) + n <= total_rows
            /\ got' = [got EXCEPT ![s] = NewRows(0, Len(got[s]) + n)]
            /\ ended' = ended
      BY <2>2 DEF Delivers
    <3> DEFINE k == Len(got[s]) + n
    <3>2. k \in 0 .. total_rows /\ n \in 1 .. VECTOR_SIZE
      BY <1>1, <3>1
    <3> HIDE DEF k
    <3>3. SubSeq(Contents, 1, k) = NewRows(0, k)
      BY <1>1, <3>2, FirstRowsAre
    <3>4. Len(Contents) = total_rows
      BY <1>1, NewRowsAre
    <3>5. got' = [got EXCEPT ![s] = SubSeq(Contents, 1, Len(got[s]) + n)]
      BY <3>1, <3>3 DEF k
    <3>6. got' = [got EXCEPT ![s] = SubSeq(Contents, 1, Len(@) + n)]
      BY <3>5
    <3>7. Store!Deliver(s, n)
      BY <1>2, <3>1, <3>4, <3>6 DEF Store!Deliver
    <3>8. Store!Next
      BY <3>2, <3>7 DEF Store!Next
    <3> QED BY <3>1, <3>8
  <2>3. CASE Ends(s)
    <3>1. got' = got /\ ended' = ended \cup {s} /\ Len(got[s]) = total_rows
      BY <2>3 DEF Ends
    <3>2. got'[s] = Contents
      BY <1>1, <3>1 DEF Cursor
    <3>3. \A v \in Scans : v \in ended' \ ended => v = s
      BY <3>1
    <3> QED BY <1>2, <3>1, <3>2, <3>3 DEF Store!rvars
  <2> QED BY <2>1, <2>2, <2>3
<1> QED BY <1>3, <1>4

LEMMA StoreSteps ==
  TableInv /\ [TableNext]_tableVars =>
    /\ [Store!Next]_(Store!rvars)
    /\ \A s \in Scans : s \in ended' \ ended => got'[s] = Contents
<1> SUFFICES ASSUME TableInv, [TableNext]_tableVars
             PROVE  /\ [Store!Next]_(Store!rvars)
                    /\ \A s \in Scans : s \in ended' \ ended => got'[s] = Contents
  OBVIOUS
<1>1. CASE \/ \E n \in 1 .. VECTOR_SIZE : Append_(NewRows(total_rows, n))
           \/ \E m, n \in 0 .. ROW_GROUP_SIZE :
                AppendRowGroups(<<NewRows(total_rows, m), NewRows(total_rows + m, n)>>)
  <2>1. /\ Grown(row_groups, total_rows, row_groups', total_rows')
        /\ UNCHANGED <<seqscan, parallel>>
    BY <1>1, TableSteps
  <2>2. ended' \ ended = {}
    BY <2>1 DEF seqscan
  <2> QED BY <2>1, <2>2, StoreGrows
<1>2. ASSUME NEW s \in Scans, InitScan(s) \/ Scan(s)
      PROVE  /\ [Store!Next]_(Store!rvars)
             /\ \A v \in Scans : v \in ended' \ ended => got'[v] = Contents
  BY <1>2, StoreDelivers
<1>3. ASSUME UNCHANGED <<table, seqscan>>
      PROVE  /\ [Store!Next]_(Store!rvars)
             /\ \A s \in Scans : s \in ended' \ ended => got'[s] = Contents
  <2>1. Contents' = Contents /\ got' = got /\ ended' = ended
    BY <1>3, ContentsKept DEF seqscan
  <2> QED BY <2>1 DEF Store!rvars
<1>4. CASE InitParallelScan \/ EndParallelScan
  BY <1>3, <1>4 DEF InitParallelScan, EndParallelScan
<1>5. ASSUME NEW t \in Tasks, Claim(t) \/ Read(t) PROVE UNCHANGED <<table, seqscan>>
  BY <1>5 DEF Claim, Read
<1>6. CASE UNCHANGED tableVars
  BY <1>3, <1>6 DEF tableVars
<1> QED BY <1>1, <1>2, <1>3, <1>4, <1>5, <1>6 DEF TableNext

(* ScansInOrderOnce of DataTable: the storage of a table implements        *)
(* RowStore, in which scans deliver the rows in order, each once, and one  *)
(* that was told there is no more had all rows of the table.               *)
THEOREM ScansInOrder == TableSpec => ScansInOrderOnce
<1>1. TableInit => Store!Init
  <2> SUFFICES ASSUME TableInit PROVE Contents = <<>> /\ got = [s \in Scans |-> <<>>]
    BY DEF Store!Init
  <2>1. row_groups = <<>>
    BY DEF TableInit
  <2>2. [g \in DOMAIN row_groups |-> row_groups[g].rows] = <<>>
    BY <2>1
  <2> QED BY <2>2, FlattenEmpty DEF TableInit, Contents
<1>2. TableInv /\ [TableNext]_tableVars => [Store!Next]_(Store!rvars)
  BY StoreSteps
<1>3. TableInv /\ [TableNext]_tableVars =>
        [\A s \in Scans : s \in ended' \ ended => got'[s] = Contents]_tableVars
  BY StoreSteps
<1>4. TableSpec => EndsAtTheEnd
  BY <1>3, TableInvariant, PTL DEF TableSpec, EndsAtTheEnd
<1>5. TableSpec => Store!Spec
  BY <1>1, <1>2, TableInvariant, PTL DEF TableSpec, Store!Spec
<1> QED BY <1>4, <1>5 DEF ScansInOrderOnce
=============================================================================
