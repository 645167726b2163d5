------------------------------ MODULE OrderBy -------------------------------
(* PhysicalOrderBy, the child of a PhysicalLimit that tells it how many rows   *)
(* are wanted. With a small limit it keeps the best rows in heaps, and over a  *)
(* Parquet file it does so with threads, in one of these ways (query.path):    *)
(*                                                                             *)
(*   full      all rows are sorted: CollectFull                                *)
(*   heap      one heap of whole rows: CollectTopN                             *)
(*   rows      a number is the key, no Parquet file: CollectTopN_Primitive     *)
(*   stats     row groups in the order of their statistics, by threads that    *)
(*             stop when no group can be better than what was found            *)
(*   inline    the same with a second key in the heap: TryCollectTopN_Inline   *)
(*   parallel  all row groups, a heap for each thread                          *)
(*   texts     the same for a text: CollectTopN_Varchar                        *)
(*   dict      the best entries of the dictionary of each row group            *)
(*                                                                             *)
(* A row has two keys, k and m, and keep, what the WHERE clause says of it.    *)
EXTENDS Integers, Sequences, FiniteSets, SequencesExt, FiniteSetsExt, TLC

CONSTANTS VectorSize,    \* VECTOR_SIZE
          TopNThreshold, \* TOP_N_THRESHOLD
          Oversample,    \* the rows kept per row wanted if there are two keys
          Threads,       \* the threads that decode, from 1
          Null           \* NULL

VARIABLES
  query, \* the row groups, the keys, the limit and the path the plan allows
  state, \* the members of the two operators
  out    \* the rows returned

IsOrder == query.op = "order"

-----------------------------------------------------------------------------
(* Keys. A row is named by its group and its position there. *)

At(r) == query.groups[r[1]][r[2]]

Kept(g) == SelectSeq([i \in DOMAIN query.groups[g] |-> <<g, i>>], LAMBDA r : At(r).keep)
AllKept == FlattenSeq([g \in DOMAIN query.groups |-> Kept(g)])

KeyBefore(x, y, asc, nullsFirst) ==
  x # y /\ IF x = Null THEN nullsFirst
           ELSE IF y = Null THEN ~nullsFirst
           ELSE IF asc THEN x < y ELSE x > y

\* The order asked for.
Less(a, b) ==
  \/ KeyBefore(At(a).k, At(b).k, query.asc, query.nullsFirst)
  \/ query.keys = 2 /\ At(a).k = At(b).k /\ At(a).m < At(b).m

\* The order of the fast paths: NULL comes last, first if the order is descending.
BetterKey(a, b) == KeyBefore(At(a).k, At(b).k, query.asc, ~query.asc)

RowLimit == IF query.limit < 0 THEN 0 ELSE query.limit + query.offset

Path == IF RowLimit = 0 \/ RowLimit > TopNThreshold THEN "full" ELSE query.path

Better(a, b) ==
  CASE Path = "heap" -> Less(a, b)
    [] Path = "inline" -> BetterKey(a, b) \/ (At(a).k = At(b).k /\ At(a).m < At(b).m)
    [] OTHER -> BetterKey(a, b)

Capacity == IF query.keys = 2 /\ Path \notin {"full", "heap", "inline"}
            THEN Oversample * RowLimit ELSE RowLimit

-----------------------------------------------------------------------------
(* A heap is the set of the rows in it. *)

Sorted(rows, Op(_, _)) == SortSeq(rows, LAMBDA a, b : ~Op(b, a))
BestFirst(heap) == Sorted(SetToSeq(heap), Better)
WorstFirst(heap) == Reverse(BestFirst(heap))

Worst(heap) == WorstFirst(heap)[1]

Wins(r, heap) == Cardinality(heap) < Capacity \/ Better(r, Worst(heap))

Push(heap, r) == (IF Cardinality(heap) < Capacity THEN heap ELSE heap \ {Worst(heap)}) \cup {r}

Offer(heap, r) == IF Wins(r, heap) THEN Push(heap, r) ELSE heap

\* The heaps of the threads are merged by the buffer of the column, where a NULL is 0.
Raw(r) == IF At(r).k = Null THEN 0 ELSE At(r).k

OfferRaw(heap, r) ==
  IF Cardinality(heap) < Capacity \/ KeyBefore(Raw(r), Raw(Worst(heap)), query.asc, FALSE)
  THEN Push(heap, r) ELSE heap

\* The key of the worst row, once the heap is full of rows with a key.
Threshold(heap) ==
  IF Cardinality(heap) < Capacity \/ At(Worst(heap)).k = Null THEN Null ELSE At(Worst(heap)).k

\* Rows that the threshold shuts out are not looked at; a tie is of use with a second key.
ShutOut(r, threshold) ==
  /\ threshold # Null /\ At(r).k # Null
  /\ ~KeyBefore(At(r).k, threshold, query.asc, FALSE)
  /\ Path = "inline" => At(r).k # threshold

BestOfGroup(g, threshold) ==
  FoldLeft(LAMBDA heap, r : IF ShutOut(r, threshold) THEN heap ELSE Offer(heap, r), {}, Kept(g))

\* The statistic of a group: its least or its greatest key.
Statistic(g) ==
  LET keys == {At(<<g, i>>).k : i \in DOMAIN query.groups[g]} \ {Null}
  IN  IF query.asc THEN Min(keys) ELSE Max(keys)

Orders == SetToSeqs(DOMAIN query.groups)

\* Fault: the groups are not sorted.
AsWritten == Orders

BestGroupFirst ==
  {o \in Orders : \A i, j \in DOMAIN o :
                    i < j => ~KeyBefore(Statistic(o[j]), Statistic(o[i]), query.asc, FALSE)}

-----------------------------------------------------------------------------
(* The operators. *)

Uncollected ==
  [phase |-> "init", order |-> <<>>, next |-> 1, done |-> FALSE, merged |-> {},
   at |-> [t \in Threads |-> "idle"], group |-> [t \in Threads |-> 0],
   threshold |-> [t \in Threads |-> Null], heap |-> [t \in Threads |-> {}],
   texts |-> <<>>, rows |-> <<>>, emitAt |-> 1, skipped |-> 0, emitted |-> 0,
   ended |-> FALSE, restarts |-> 0]

InPhase(phase) == IsOrder /\ state.phase = phase /\ ~state.ended

LimitReached == query.limit >= 0 /\ state.emitted >= query.limit

RowFor(r) == [k |-> At(r).k, m |-> At(r).m, at |-> r]

RowsFor(refs) == [i \in DOMAIN refs |-> RowFor(refs[i])]

Emitting(s, rows) == [s EXCEPT !.phase = "emit", !.rows = rows]

\* What is read by one thread. The rows that are there are not cleared first.
CollectSorted ==
  LET all == Sorted([i \in DOMAIN state.rows |-> state.rows[i].at] \o AllKept, Less)
  IN  state' = Emitting(state, RowsFor(all))

\* Rows without a key are dropped if the key is a number.
CollectHeap ==
  LET input == IF Path = "rows" THEN SelectSeq(AllKept, LAMBDA r : At(r).k # Null) ELSE AllKept
      drained == WorstFirst(FoldLeft(Offer, {}, input))
      rows == Reverse(state.rows \o RowsFor(drained))
  IN  state' = IF Path = "rows" /\ query.keys = 2
               THEN [state EXCEPT !.phase = "resort", !.rows = rows]
               ELSE Emitting(state, rows)

CollectAll ==
  /\ InPhase("init") /\ ~LimitReached
  /\ CASE Path = "full" -> CollectSorted
       [] Path \in {"heap", "rows"} -> CollectHeap
       [] Path \in {"stats", "inline"} ->
            \E o \in BestGroupFirst :
              state' = [state EXCEPT !.phase = "threads", !.order = o, !.next = 2, !.merged = {},
                                     !.done = FALSE, !.group[1] = o[1],
                                     !.at = [t \in Threads |-> IF t = 1 THEN "check" ELSE "waits"]]
       [] OTHER ->
            state' = [state EXCEPT !.phase = "groups", !.next = 1, !.merged = {}, !.texts = <<>>,
                                   !.heap = [t \in Threads |-> {}]]
  /\ UNCHANGED <<query, out>>

-----------------------------------------------------------------------------
(* Row groups in the order of their statistics. The first is read before the   *)
(* threads are started. What they have found together is read and changed      *)
(* under a lock, which is given back in between.                               *)

ClaimGroup(t) ==
  /\ InPhase("threads") /\ state.at[t] = "idle"
  /\ state' = IF state.done \/ state.next > Len(state.order)
              THEN [state EXCEPT !.at[t] = "exit"]
              ELSE [state EXCEPT !.at[t] = "check", !.group[t] = state.order[state.next],
                                 !.next = @ + 1]
  /\ UNCHANGED <<query, out>>

Resume(t) == [x \in Threads |-> IF x = t \/ state.at[x] = "waits" THEN "idle" ELSE state.at[x]]

\* A group whose best key is not better ends the search: those after it are no better.
CheckThreshold(t) ==
  /\ InPhase("threads") /\ state.at[t] = "check"
  /\ LET threshold == Threshold(state.merged)
     IN  state' = IF threshold # Null
                     /\ ~KeyBefore(Statistic(state.group[t]), threshold, query.asc, FALSE)
                  THEN [state EXCEPT !.done = TRUE, !.at = Resume(t)]
                  ELSE [state EXCEPT !.at[t] = "read", !.threshold[t] = threshold]
  /\ UNCHANGED <<query, out>>

\* The threshold is read anew, except with a second key.
ReadGroup(t) ==
  /\ InPhase("threads") /\ state.at[t] = "read"
  /\ LET threshold == IF Path = "inline" THEN state.threshold[t] ELSE Threshold(state.merged)
     IN  state' = [state EXCEPT !.at[t] = "merge",
                                !.heap[t] = BestOfGroup(state.group[t], threshold)]
  /\ UNCHANGED <<query, out>>

MergeGroup(t) ==
  /\ InPhase("threads") /\ state.at[t] = "merge"
  /\ state' = [state EXCEPT !.merged = FoldLeft(Offer, @, WorstFirst(state.heap[t])),
                            !.heap[t] = {}, !.at = Resume(t)]
  /\ UNCHANGED <<query, out>>

-----------------------------------------------------------------------------
(* All row groups. A group may be dictionary-coded or not. *)

\* The distinct keys are offered, or all of them.
BestTexts(g, coded) ==
  LET keys == SelectSeq(Kept(g), LAMBDA r : At(r).k # Null)
      first == SelectSeq(keys, LAMBDA r : \A q \in Range(keys) : At(q).k = At(r).k => q[2] >= r[2])
  IN  BestFirst(FoldLeft(Offer, {}, IF coded THEN first ELSE keys))

ConsumeGroup(t) ==
  /\ InPhase("groups") /\ state.next <= Len(query.groups)
  /\ IF Path = "dict"
     THEN \E coded \in BOOLEAN :
            state' = [state EXCEPT !.next = @ + 1, !.texts = @ \o BestTexts(state.next, coded)]
     ELSE state' = [state EXCEPT !.next = @ + 1,
                                 !.heap[t] = FoldLeft(Offer, @, Kept(state.next))]
  /\ UNCHANGED <<query, out>>

\* The columns other than the key are not read for a dictionary.
TextRow(r) == [k |-> At(r).k, m |-> Null, at |-> r]

FirstRows(rows, n) == SubSeq(rows, 1, Min({n, Len(rows)}))

MergeHeaps ==
  /\ InPhase("groups") /\ state.next > Len(query.groups)
  /\ LET drained == FlattenSeq([t \in 1 .. Cardinality(Threads) |-> WorstFirst(state.heap[t])])
         all == FirstRows(Sorted(state.texts, Better), RowLimit)
     IN  state' = CASE Path = "dict" -> Emitting(state, [i \in DOMAIN all |-> TextRow(all[i])])
                    [] Path = "parallel" ->
                         [state EXCEPT !.phase = "winners", !.merged = FoldLeft(OfferRaw, {}, drained)]
                    [] OTHER ->
                         [state EXCEPT !.phase = "winners", !.merged = FoldLeft(Offer, {}, drained)]
  /\ UNCHANGED <<query, out>>

-----------------------------------------------------------------------------
\* The winners are read in full, and sorted by both keys if there are two.
Materialise ==
  /\ \/ InPhase("winners")
     \/ InPhase("threads") /\ \A t \in Threads : state.at[t] = "exit"
  /\ LET rows == RowsFor(BestFirst(state.merged))
     IN  state' = IF query.keys = 2 /\ Path # "inline"
                  THEN [state EXCEPT !.phase = "resort", !.rows = rows]
                  ELSE Emitting(state, rows)
  /\ UNCHANGED <<query, out>>

ResortByFullKeys ==
  /\ InPhase("resort")
  /\ LET refs == [i \in DOMAIN state.rows |-> state.rows[i].at]
     IN  state' = Emitting(state, FirstRows(RowsFor(Sorted(refs, Less)), RowLimit))
  /\ UNCHANGED <<query, out>>

\* PhysicalLimit::GetData fetches a chunk and passes on what is behind the offset.
LimitChunk ==
  /\ InPhase("emit") /\ ~LimitReached
  /\ LET chunk == SubSeq(state.rows, state.emitAt, Min({state.emitAt + VectorSize - 1, Len(state.rows)}))
         skip  == Min({Len(chunk), query.offset - state.skipped})
         room  == IF query.limit < 0 THEN Len(chunk) ELSE query.limit - state.emitted
         rows  == FirstRows(SubSeq(chunk, skip + 1, Len(chunk)), room)
     IN  /\ state' = IF chunk = <<>>
                     THEN [state EXCEPT !.ended = TRUE]
                     ELSE [state EXCEPT !.emitAt = @ + Len(chunk), !.skipped = @ + skip,
                                        !.emitted = @ + Len(rows)]
         /\ out' = out \o rows
  /\ UNCHANGED query

EndAtLimit ==
  /\ IsOrder /\ ~state.ended /\ LimitReached
  /\ state' = [state EXCEPT !.ended = TRUE]
  /\ UNCHANGED <<query, out>>

\* A join above has got too many rows and starts over (HashJoin). The rows stay where they are.
Init ==
  /\ InPhase("emit") /\ query.restarts /\ state.restarts = 0 /\ out # <<>>
  /\ state' = [Uncollected EXCEPT !.rows = state.rows, !.restarts = 1]
  /\ out' = <<>>
  /\ UNCHANGED query

Next ==
  \/ CollectAll \/ MergeHeaps \/ Materialise \/ ResortByFullKeys
  \/ LimitChunk \/ EndAtLimit \/ Init
  \/ \E t \in Threads : \/ ClaimGroup(t) \/ CheckThreshold(t) \/ ReadGroup(t)
                        \/ MergeGroup(t) \/ ConsumeGroup(t)

-----------------------------------------------------------------------------
Key(row) == IF query.keys = 2 THEN <<row.k, row.m>> ELSE <<row.k>>

Wanted ==
  LET all == RowsFor(Sorted(AllKept, Less))
      last == IF query.limit < 0 THEN Len(all) ELSE Min({Len(all), query.offset + query.limit})
  IN  SubSeq(all, query.offset + 1, last)

(* Whether the path puts NULLs where the query wants them. *)
NullsPlaced ==
  \/ \A r \in Range(AllKept) : At(r).k # Null
  \/ Path \in {"full", "heap"}
  \/ /\ query.nullsFirst = ~query.asc
     /\ Path = "texts" \/ (query.asc /\ Path \in {"stats", "inline"})

(* Whether the rows that tie with the last one wanted fit into the heap.       *)
TiesFit ==
  LET sorted == Sorted(AllKept, BetterKey)
      tied == {r \in Range(AllKept) : ~BetterKey(sorted[RowLimit], r)}
  IN  \/ query.keys = 1 \/ Path \in {"full", "heap"} \/ Len(sorted) < RowLimit
      \/ Cardinality(tied) <= Capacity

KeysDiffer == \A q, r \in Range(AllKept) : q # r => At(q).k # At(r).k

(* PhysicalOrderBy::GetData below PhysicalLimit::GetData: what is returned is  *)
(* the part of the sorted rows that LIMIT and OFFSET name, each row of the     *)
(* file once, whichever groups the threads skipped, in whatever order they     *)
(* merged what they found. Section 7 of the README lists the queries for which *)
(* a path is no sort: some with NULLs, ties or a dictionary.                   *)
OrderIsRight ==
  (IsOrder /\ state.ended)
  => \/ ~NullsPlaced \/ ~TiesFit
     \/ Path = "dict" /\ ~KeysDiffer
     \/ state.restarts = 1 /\ Path \in {"full", "heap", "rows"}
     \/ /\ [i \in DOMAIN out |-> Key(out[i])] = [i \in DOMAIN Wanted |-> Key(Wanted[i])]
        /\ IsInjective([i \in DOMAIN out |-> out[i].at])
=============================================================================
