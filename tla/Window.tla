------------------------------- MODULE Window -------------------------------
(* PhysicalWindow: the whole input is read and divided into partitions, each  *)
(* is sorted before its first row is emitted, or all are by threads, and the  *)
(* functions of a row are computed as it is emitted. RANK and DENSE_RANK      *)
(* remember the row before in members that all columns share. Windows of      *)
(* different orders are computed column by column first (fallback).           *)
(*                                                                            *)
(* A row has a partition key p and an order key o; its number stands for its  *)
(* other columns, so LAG and LEAD are row numbers and SUM adds them.          *)
EXTENDS Integers, Sequences, FiniteSets, SequencesExt, FiniteSetsExt

CONSTANTS VectorSize, \* VECTOR_SIZE
          CacheCap,   \* cache_cap, the texts that are remembered as partition keys
          EagerRows,  \* the rows from which on threads sort
          Threads,    \* the threads that sort
          Null        \* NULL

VARIABLES
  query, \* the rows, the functions with their order, QUALIFY and the limit
  state, \* the members of the operator
  out    \* the rows returned, each with the values of its functions

IsWindow == query.op = "window"

Rows == DOMAIN query.rows

-----------------------------------------------------------------------------
(* The buffers of the columns hold 0 for a NULL. *)

Read(x) == IF x = Null THEN 0 ELSE x
P(r) == Read(query.rows[r].p)
O(r) == Read(query.rows[r].o)

OrderEqual(q, r) == query.ordered /\ O(q) = O(r)

SortsBefore(q, r, asc) == query.ordered /\ IF asc THEN O(q) < O(r) ELSE O(q) > O(r)

\* All windows have one partition; whether they have one order.
Windows == Range(query.fns) \cup (IF query.qualify = <<>> THEN {} ELSE {query.qualify[1]})
UsesFallback == Rows # {} /\ \E v, w \in Windows : v.asc # w.asc

Ascending == query.fns[1].asc

\* Once the cache is full only the keys that came later are looked up.
NewPartition(parts, r) ==
  LET known == {i \in DOMAIN parts : P(parts[i][1]) = P(r)}
      full  == query.texts /\ ~UsesFallback /\ Len(parts) >= CacheCap
  IN  IF full THEN known \cap (CacheCap + 1 .. Len(parts)) = {} ELSE known = {}

Home(parts, r) == Max({i \in DOMAIN parts : P(parts[i][1]) = P(r)})

BuildPartitions ==
  IF ~query.partitioned /\ Rows # {} THEN <<[r \in Rows |-> r]>>
  ELSE FoldLeft(LAMBDA parts, r : IF NewPartition(parts, r) THEN Append(parts, <<r>>)
                                  ELSE [parts EXCEPT ![Home(parts, r)] = Append(@, r)],
                <<>>, [r \in Rows |-> r])

\* std::sort, or std::partial_sort of the first rows of the first partition.
SortedTo(idxs, k, asc) ==
  {s \in SetToSeqs(Range(idxs)) :
     \A i \in 1 .. k : \A j \in i + 1 .. Len(s) : ~SortsBefore(s[j], s[i], asc)}

PartialK(p, idxs) == IF p = 1 /\ query.limit > 0 /\ query.limit < Len(idxs)
                     THEN query.limit ELSE Len(idxs)

Sortings(p, idxs) == IF query.ordered THEN SortedTo(idxs, PartialK(p, idxs), Ascending) ELSE {idxs}

-----------------------------------------------------------------------------
(* The functions of the row at a place of its partition. a holds the ranks so *)
(* far and the values of the columns before this one. A row before that was   *)
(* never set is read from anywhere: stray says whether it ties.               *)

Ties(prev, r, stray) == IF prev = 0 THEN stray ELSE OrderEqual(prev, r)

Rank(a, r, pos, stray) ==
  LET cur == IF pos = 1 THEN 1 ELSE IF Ties(a.rankPrev, r, stray) THEN a.rankCur ELSE pos
  IN  [a EXCEPT !.rankCur = cur, !.rankPrev = r, !.vals = Append(@, cur)]

DenseRank(a, r, pos, stray) ==
  LET cur == IF pos = 1 THEN 1 ELSE IF Ties(a.densePrev, r, stray) THEN a.denseCur ELSE a.denseCur + 1
  IN  [a EXCEPT !.denseCur = cur, !.densePrev = r, !.vals = Append(@, cur)]

RowAt(idxs, pos) == IF pos \in DOMAIN idxs THEN idxs[pos] ELSE Null

SumOf(rows) == FoldLeft(LAMBDA n, r : n + r, 0, rows)

\* The rows up to the last that ties with this one.
PeerEnd(idxs, pos) ==
  LET apart == {e \in pos + 1 .. Len(idxs) : ~OrderEqual(idxs[pos], idxs[e])}
  IN  IF apart = {} THEN Len(idxs) ELSE Min(apart) - 1

ComputeWindowAt(a, fn, idxs, pos, stray) ==
  CASE fn = "rank"       -> Rank(a, idxs[pos], pos, stray)
    [] fn = "dense_rank" -> DenseRank(a, idxs[pos], pos, stray)
    [] fn = "row_number" -> [a EXCEPT !.vals = Append(@, pos)]
    [] fn = "lag"        -> [a EXCEPT !.vals = Append(@, RowAt(idxs, pos - 1))]
    [] fn = "lead"       -> [a EXCEPT !.vals = Append(@, RowAt(idxs, pos + 1))]
    [] fn = "sum"        ->
         [a EXCEPT !.vals = Append(@, SumOf(IF query.ordered THEN SubSeq(idxs, 1, PeerEnd(idxs, pos))
                                                             ELSE idxs))]

Holds(x) == CASE query.qualify[2] = "=" -> x = query.qualify[3]
              [] query.qualify[2] = "<=" -> x <= query.qualify[3]
              [] query.qualify[2] = ">" -> x > query.qualify[3]

Qualified == query.qualify # <<>>
Filter == query.qualify[1].fn

\* QUALIFY ROW_NUMBER() = 1: of each partition the best row is kept, and no other.
IsTop1 == Qualified /\ query.ordered /\ Filter = "row_number"
          /\ query.qualify[2] = "=" /\ query.qualify[3] = 1

Top1(idxs) ==
  LET best == CHOOSE i \in DOMAIN idxs :
                /\ \A j \in DOMAIN idxs : ~SortsBefore(idxs[j], idxs[i], Ascending)
                /\ \A j \in 1 .. i - 1 : SortsBefore(idxs[i], idxs[j], Ascending)
  IN  <<idxs[best]>>

-----------------------------------------------------------------------------
(* The operator. *)

NoRanks == [rankCur |-> 1, rankPrev |-> 0, denseCur |-> 1, densePrev |-> 0, vals |-> <<>>]

Unread ==
  [phase |-> "setup", parts |-> <<>>, sorted |-> <<>>, next |-> 1,
   at |-> [t \in Threads |-> "idle"], part |-> [t \in Threads |-> 0],
   word |-> [t \in Threads |-> <<>>],
   emitPart |-> 1, emitPos |-> 1, ranks |-> NoRanks, n |-> 0]

InPhase(phase) == IsWindow /\ state.phase = phase

Setup ==
  /\ InPhase("setup") /\ ~UsesFallback
  /\ LET parts == BuildPartitions
         best  == [i \in DOMAIN parts |-> Top1(parts[i])]
         eager == ~IsTop1 /\ Len(query.rows) >= EagerRows /\ Len(parts) >= 2
     IN  state' = [state EXCEPT !.phase = IF eager THEN "sort" ELSE "emit",
                                !.parts = IF IsTop1 THEN best ELSE parts,
                                !.sorted = [i \in DOMAIN parts |-> IsTop1]]
  /\ UNCHANGED <<query, out>>

\* Windows of two orders: every column for itself, over the rows as they were read.
ValuesOf(fn, idxs) ==
  [r \in Range(idxs) |->
     LET pos == CHOOSE i \in DOMAIN idxs : idxs[i] = r
     IN  CASE fn = "rank" -> 1 + Cardinality({i \in 1 .. pos : ~OrderEqual(idxs[i], r)})
           [] fn = "dense_rank" -> Cardinality({O(idxs[i]) : i \in 1 .. pos})
           [] fn = "sum" -> SumOf(idxs)
           [] OTHER -> ComputeWindowAt(NoRanks, fn, idxs, pos, FALSE).vals[1]]

Emit(rows) == out' = out \o rows

Fallback ==
  /\ InPhase("setup") /\ UsesFallback
  /\ LET parts == BuildPartitions
         Sorts(asc) == {f \in [DOMAIN parts -> UNION {SetToSeqs(Range(parts[p])) : p \in DOMAIN parts}] :
                          \A p \in DOMAIN parts : f[p] \in SortedTo(parts[p], Len(parts[p]), asc)}
         PartOf(r) == CHOOSE p \in DOMAIN parts : r \in Range(parts[p])
     IN  \E up \in Sorts(TRUE), down \in Sorts(FALSE) :
           LET Value(w, r) == ValuesOf(w.fn, (IF w.asc THEN up ELSE down)[PartOf(r)])[r]
               kept == SelectSeq([r \in Rows |-> r],
                                 LAMBDA r : Qualified => Holds(Value(query.qualify[1], r)))
           IN  Emit([i \in DOMAIN kept |->
                       [row |-> kept[i],
                        vals |-> [c \in DOMAIN query.fns |-> Value(query.fns[c], kept[i])]]])
  /\ state' = [state EXCEPT !.phase = "end"]
  /\ UNCHANGED query

-----------------------------------------------------------------------------
(* Threads sort all partitions. Which are sorted is kept in a vector of bits, *)
(* so that a thread writes the bits of the others as it had read them.        *)

ClaimPartition(t) ==
  /\ InPhase("sort") /\ state.at[t] = "idle"
  /\ state' = IF state.next > Len(state.parts)
              THEN [state EXCEPT !.at[t] = "exit"]
              ELSE [state EXCEPT !.at[t] = "sort", !.part[t] = state.next, !.next = @ + 1]
  /\ UNCHANGED <<query, out>>

SortPartition(t) ==
  /\ InPhase("sort") /\ state.at[t] = "sort"
  /\ LET p == state.part[t]
     IN  \E s \in Sortings(p, state.parts[p]) :
           state' = [state EXCEPT !.parts[p] = s, !.at[t] = "mark", !.word[t] = state.sorted]
  /\ UNCHANGED <<query, out>>

MarkSorted(t) ==
  /\ InPhase("sort") /\ state.at[t] = "mark"
  /\ state' = [state EXCEPT !.sorted = [state.word[t] EXCEPT ![state.part[t]] = TRUE],
                            !.at[t] = "idle"]
  /\ UNCHANGED <<query, out>>

Joined ==
  /\ InPhase("sort") /\ \A t \in Threads : state.at[t] = "exit"
  /\ state' = [state EXCEPT !.phase = "emit"]
  /\ UNCHANGED <<query, out>>

-----------------------------------------------------------------------------
(* GetData *)

Current == state.parts[state.emitPart]
AtPartition == InPhase("emit") /\ state.emitPart <= Len(state.parts)

\* Before the first row of a partition, unless that is done.
SortOnePartition ==
  /\ AtPartition /\ state.emitPos = 1 /\ ~state.sorted[state.emitPart]
  /\ \E s \in Sortings(state.emitPart, Current) :
       state' = [state EXCEPT !.parts[state.emitPart] = s, !.sorted[state.emitPart] = TRUE]
  /\ UNCHANGED <<query, out>>

\* Fault: the ranks go on in the next partition.
KeepRanks(s) == IF s.emitPos > Len(s.parts[s.emitPart])
                THEN [s EXCEPT !.emitPart = @ + 1, !.emitPos = 1] ELSE s

NextPartition(s) == IF s.emitPos > Len(s.parts[s.emitPart])
                    THEN [s EXCEPT !.emitPart = @ + 1, !.emitPos = 1, !.ranks = NoRanks] ELSE s

\* Columns are positions and ranks only, and nothing is filtered.
CanUseVectorisedEmit ==
  ~Qualified /\ \A w \in Range(query.fns) : w.fn \in {"row_number", "rank", "dense_rank"}

Emits == AtPartition /\ state.sorted[state.emitPart]

\* A row on which QUALIFY fails takes no room in the chunk, and its ranks are not computed.
EmitRow ==
  /\ Emits /\ ~CanUseVectorisedEmit
  /\ \E stray \in BOOLEAN :
       LET Compute(a, fn) == ComputeWindowAt(a, fn, Current, state.emitPos, stray)
           asked == IF Qualified THEN Compute(state.ranks, Filter) ELSE state.ranks
           passes == Qualified => Holds(asked.vals[1])
           a == IF passes THEN FoldLeft(LAMBDA b, w : Compute(b, w.fn), [asked EXCEPT !.vals = <<>>], query.fns)
                          ELSE asked
       IN  /\ state' = NextPartition([state EXCEPT !.emitPos = @ + 1,
                                                   !.ranks = [a EXCEPT !.vals = <<>>],
                                                   !.n = IF passes THEN (@ + 1) % VectorSize ELSE @])
           /\ Emit(IF passes THEN <<[row |-> Current[state.emitPos], vals |-> a.vals]>> ELSE <<>>)
  /\ UNCHANGED query

\* One row of a column. Both ranks look at the row that the last one looked at.
VectorisedRank(a, fn, r, pos) ==
  LET same == a.rankPrev # 0 /\ OrderEqual(a.rankPrev, r)
      rank == IF same THEN a.rankCur ELSE pos
      dense == IF a.rankPrev = 0 THEN 1 ELSE IF same THEN a.denseCur ELSE a.denseCur + 1
  IN  CASE fn = "row_number" -> [a EXCEPT !.vals = Append(@, pos)]
        [] fn = "rank" -> [a EXCEPT !.rankCur = rank, !.rankPrev = r, !.vals = Append(@, rank)]
        [] fn = "dense_rank" -> [a EXCEPT !.denseCur = dense, !.rankPrev = r, !.vals = Append(@, dense)]

\* The rows of a partition that fit into the chunk, column by column.
VectorisedEmit ==
  /\ Emits /\ CanUseVectorisedEmit
  /\ LET left == Len(Current) - state.emitPos + 1
         take == Min({left, VectorSize - state.n})
         places == [i \in 1 .. take |-> state.emitPos + i - 1]
         Column(a, fn) == FoldLeft(LAMBDA b, pos : VectorisedRank(b, fn, Current[pos], pos),
                                   [a EXCEPT !.vals = <<>>], places)
         step == FoldLeft(LAMBDA c, w : LET a == Column(c.ranks, w.fn)
                                        IN  [ranks |-> a, cols |-> Append(c.cols, a.vals)],
                          [ranks |-> state.ranks, cols |-> <<>>], query.fns)
     IN  /\ state' = NextPartition([state EXCEPT !.emitPos = @ + take,
                                                 !.ranks = [step.ranks EXCEPT !.vals = <<>>],
                                                 !.n = (@ + take) % VectorSize])
         /\ Emit([i \in 1 .. take |->
                    [row |-> Current[places[i]],
                     vals |-> [c \in DOMAIN query.fns |-> step.cols[c][i]]]])
  /\ UNCHANGED query

End ==
  /\ InPhase("emit") /\ state.emitPart > Len(state.parts)
  /\ state' = [state EXCEPT !.phase = "end"]
  /\ UNCHANGED <<query, out>>

Next ==
  \/ Setup \/ Fallback \/ Joined \/ SortOnePartition \/ EmitRow \/ VectorisedEmit \/ End
  \/ \E t \in Threads : ClaimPartition(t) \/ SortPartition(t) \/ MarkSorted(t)

-----------------------------------------------------------------------------
(* The definition of the functions. *)

PartitionOf(r) ==
  IF query.partitioned THEN {q \in Rows : query.rows[q].p = query.rows[r].p} ELSE Rows

Ahead(r, asc) == {q \in PartitionOf(r) : SortsBefore(q, r, asc)}
UpTo(r, asc)  == {q \in PartitionOf(r) : ~SortsBefore(r, q, asc)}

\* The row numbers a row may get, and the rows that may have one.
Places(r, asc) == Cardinality(Ahead(r, asc)) + 1 .. Cardinality(UpTo(r, asc))
MayBeAt(r, pos, asc) == {q \in PartitionOf(r) \ {r} : pos \in Places(q, asc)}

Answers(r, w) ==
  LET Beside(d) == UNION {LET there == MayBeAt(r, pos + d, w.asc)
                          IN  IF pos + d \in 1 .. Cardinality(PartitionOf(r)) THEN there ELSE {Null} :
                            pos \in Places(r, w.asc)}
  IN  CASE w.fn = "row_number" -> Places(r, w.asc)
        [] w.fn = "rank" -> {Cardinality(Ahead(r, w.asc)) + 1}
        [] w.fn = "dense_rank" -> {Cardinality({O(q) : q \in Ahead(r, w.asc)}) + 1}
        [] w.fn = "sum" -> {MapThenSumSet(LAMBDA q : q, UpTo(r, w.asc))}
        [] w.fn = "lag" -> Beside(-1)
        [] w.fn = "lead" -> Beside(1)

\* How many rows QUALIFY lets pass. Of row numbers each occurs once in a partition.
Passing ==
  IF ~Qualified THEN Cardinality(Rows)
  ELSE IF Filter = "row_number"
  THEN Cardinality(UNION {{<<part, pos>> : pos \in {i \in 1 .. Cardinality(part) : Holds(i)}} :
                            part \in {PartitionOf(r) : r \in Rows}})
  ELSE Cardinality({r \in Rows : \A x \in Answers(r, query.qualify[1]) : Holds(x)})

-----------------------------------------------------------------------------
(* Section 7 of the README lists the queries whose answers are others. *)

Fns == {w.fn : w \in Range(query.fns)}
Ranks == {"rank", "dense_rank"}

\* The rows that pass are the first of their partition.
PassesAPrefix == Filter \in Ranks \cup {"row_number"}
                 /\ (query.qualify[2] = "<=" \/ (query.qualify[2] = "=" /\ query.qualify[3] = 1))

NullsReadAsZero ==
  \/ query.ordered /\ \E r \in Rows : query.rows[r].o = Null
  \/ query.partitioned /\ {Null, 0} \subseteq {query.rows[r].p : r \in Rows}

CacheFull ==
  query.texts /\ ~UsesFallback /\ Cardinality({query.rows[r].p : r \in Rows}) >= CacheCap

RanksShared ==
  CanUseVectorisedEmit /\ Cardinality({c \in DOMAIN query.fns : query.fns[c].fn \in Ranks}) > 1

PartlySorted ==
  /\ query.limit > 0 /\ query.ordered /\ ~UsesFallback /\ ~IsTop1
  /\ Fns \cap {"lead", "sum"} # {} \/ (Qualified /\ ~PassesAPrefix)

RankOfRowsSkipped ==
  Qualified /\ ~UsesFallback /\ ~PassesAPrefix /\ Fns \cap (Ranks \ {Filter}) # {}

OneRowLeft == IsTop1 /\ ~UsesFallback /\ Fns \cap {"lead", "sum"} # {}

SumOfPartition == UsesFallback /\ "sum" \in Fns \cup (IF Qualified THEN {Filter} ELSE {})

Deviates == NullsReadAsZero \/ CacheFull \/ RanksShared \/ PartlySorted
            \/ RankOfRowsSkipped \/ OneRowLeft \/ SumOfPartition

(* PhysicalWindow::GetData: every row comes once, with what the definition of *)
(* its functions gives it (among the rows that tie, in any order), and no     *)
(* row number twice in a partition; QUALIFY lets pass those rows it should,   *)
(* whether a partition was sorted by a thread, by the reader or in part.      *)
WindowIsRight ==
  (IsWindow /\ state.phase = "end" /\ ~Deviates)
  => LET wanted == IF query.limit = 0 THEN Passing ELSE Min({query.limit, Passing})
     IN  /\ IF query.limit = 0 THEN Len(out) = wanted ELSE Len(out) >= wanted
         /\ \A i \in 1 .. wanted :
              /\ \A c \in DOMAIN query.fns : out[i].vals[c] \in Answers(out[i].row, query.fns[c])
              /\ Qualified => \E x \in Answers(out[i].row, query.qualify[1]) : Holds(x)
              /\ \A j \in 1 .. i - 1 :
                   /\ out[j].row # out[i].row
                   /\ \A c \in DOMAIN query.fns :
                        (query.fns[c].fn = "row_number" /\ PartitionOf(out[j].row) = PartitionOf(out[i].row))
                        => out[j].vals[c] # out[i].vals[c]
=============================================================================
