------------------------------ MODULE GroupBy -------------------------------
(* PhysicalHashAggregate over a Parquet file. Threads claim row groups, each   *)
(* adds the rows of its own to tables of its own; then the tables are merged   *)
(* part by part and the groups emitted, all of them or the k best. There is    *)
(* one such path for every kind of key and aggregate, told apart by query.path *)
(*                                                                             *)
(*   scatter   COUNT of an integer: RadixCountAgg                              *)
(*   sharded   COUNT of a text: RadixCountAggStr                               *)
(*   spill     the same with a table of bounded size: RadixHashCountStr        *)
(*   pairs     COUNT of an integer and a text: RadixCount2ColIntStr            *)
(*   distinct  COUNT(DISTINCT integer) of a text, from such pairs              *)
(*   rows      sums for two integers: RadixMultiAgg*, InlineRowAgg             *)
(*   sets      sums and distinct counts: IntGroupAgg, MergeStrGroupIntDistinct *)
(*   ints      any aggregates of an integer key: the states of process_rg      *)
(*   texts     the same for a text                                             *)
(*   encoded   COUNT of any key, by one thread: RunCountGroupAggregate         *)
(*                                                                             *)
(* A key is a number that is also its hash, 0 for the empty text; a row has a  *)
(* key k, a value v and keep, what the WHERE clause says of it.                *)
EXTENDS Integers, Sequences, FiniteSets, SequencesExt, FiniteSetsExt, TLC

CONSTANTS Threads,    \* the threads that decode, from 1
          Parts,      \* the shards, radixes or hash ranges
          MaxHash,    \* the largest hash
          ActiveCap,  \* HC_ACTIVE_CAP
          LimitSlack, \* the groups beyond a LIMIT that are waited for
          Null

VARIABLES
  query, \* the path, the row groups, the filter and the order asked for
  state, \* the tables
  out    \* the rows emitted: pairs of a key and an answer

IsGroupBy == query.op = "group"

CountPaths == {"scatter", "sharded", "spill", "pairs", "distinct", "encoded"}
PairPaths  == {"pairs", "distinct"}
Counts     == query.path \in CountPaths

-----------------------------------------------------------------------------
(* Rows and the cells they are counted in. *)

\* A filter on the grouped text itself, col <> '', is seen in the dictionary.
Kept(r) == query.filter = "none" \/ (query.filter = "not empty" /\ r.k # 0)
                                 \/ (query.filter = "other" /\ r.keep)

\* The rows that a path drops: NULL keys, where a bitmap tells them.
Dropped(r) ==
  \/ r.k = Null /\ query.path \notin {"ints", "texts", "encoded"}
  \/ r.v = Null /\ query.path \in PairPaths
  \/ query.path = "sets" /\ r.k < 0

\* What the buffer of a column holds for a key; of a NULL, zeros.
Read(k, dict) == IF k # Null \/ query.path = "encoded" THEN k
                 ELSE IF dict = <<>> THEN 0 ELSE dict[1]

KeyOf(r, dict) == IF query.path \in PairPaths THEN <<r.k, r.v>> ELSE Read(r.k, dict)

HashOf(key) == IF query.path \in PairPaths THEN (2 * key[1] + key[2]) % (MaxHash + 1)
               ELSE IF key = Null THEN 0 ELSE key

Cell(r) ==
  IF Counts THEN 1
  ELSE [rows |-> 1, cnt |-> IF r.v = Null THEN 0 ELSE 1, sum |-> IF r.v = Null THEN 0 ELSE r.v,
        low |-> r.v, high |-> r.v, vals |-> {r.v} \ {Null}, distinct |-> 0]

Better(x, y, wins) == IF x = Null \/ (y # Null /\ wins) THEN y ELSE x

MergeStates(a, b) ==
  [a EXCEPT !.rows = @ + b.rows, !.cnt = @ + b.cnt, !.sum = @ + b.sum,
            !.low = Better(@, b.low, b.low < @), !.high = Better(@, b.high, b.high > @),
            !.vals = @ \cup b.vals]

Plus(a, b) == IF Counts THEN a + b ELSE MergeStates(a, b)

Put(map, key, cell) == IF key \in DOMAIN map THEN [map EXCEPT ![key] = Plus(@, cell)]
                                             ELSE map @@ (key :> cell)

PutAll(map, more) == FoldLeft(LAMBDA m, e : Put(m, e[1], e[2]), map, more)
Entries(map) == SetToSeq({<<key, map[key]>> : key \in DOMAIN map})

-----------------------------------------------------------------------------
(* What a thread does with a row group. *)

NoTable == [active |-> <<>>, entries |-> <<>>, scratch |-> <<>>]

Flush(th) == [th EXCEPT !.entries = @ \o Entries(th.active), !.active = <<>>]

Ingest(th, key, cell) ==
  CASE query.path = "scatter" -> [th EXCEPT !.entries = Append(@, <<key, cell>>)]
    [] query.path = "spill" /\ key \notin DOMAIN th.active
         /\ Cardinality(DOMAIN th.active) >= ActiveCap ->
         [Flush(th) EXCEPT !.active = Put(@, key, cell)]
    [] OTHER -> [th EXCEPT !.active = Put(@, key, cell)]

Takes(r) == Kept(r) /\ ~Dropped(r)

IngestRows(th, group) ==
  FoldLeft(LAMBDA a, r : IF Takes(r) THEN Ingest(a, KeyOf(r, group.dict), Cell(r)) ELSE a,
           th, group.rows)

SameAsLast(last, key) == last = key

\* A row with the key of the one before is counted without looking it up.
IngestPairs(th, group) ==
  LET Step(a, r) ==
        LET key == KeyOf(r, group.dict)
        IN  IF ~Takes(r) THEN a
            ELSE IF SameAsLast(a.last, key)
                 THEN [a EXCEPT !.th.active[a.last] = @ + 1]
                 ELSE [th |-> Ingest(a.th, key, Cell(r)), last |-> key]
  IN  FoldLeft(Step, [th |-> th, last |-> <<>>], group.rows).th

\* Fault: the counters of the row group before are not reset.
HistogramKept(scratch, group) ==
  [d \in 1 .. Max({Len(scratch), Len(group.dict)}) |->
     (IF d \in DOMAIN scratch THEN scratch[d] ELSE 0)
     + Cardinality({i \in DOMAIN group.rows :
                      /\ d <= Len(group.dict) /\ group.rows[i].k = group.dict[d]
                      /\ Kept(group.rows[i])})]

\* The rows of each entry of the dictionary. The counters are longer after a longer one.
Histogram(scratch, group) ==
  [d \in 1 .. Max({Len(scratch), Len(group.dict)}) |->
     IF d > Len(group.dict) THEN scratch[d]
     ELSE Cardinality({i \in DOMAIN group.rows :
                         group.rows[i].k = group.dict[d] /\ Kept(group.rows[i])})]

\* One look-up for each entry that a row has.
IngestDictionary(th, group) ==
  LET cnt == Histogram(th.scratch, group)
      used == SelectSeq([d \in DOMAIN group.dict |-> d], LAMBDA d : cnt[d] > 0)
  IN  FoldLeft(LAMBDA a, d : Ingest(a, group.dict[d], cnt[d]), [th EXCEPT !.scratch = cnt], used)

IngestGroup(th, group) ==
  CASE group.dict # <<>> /\ query.path \in {"sharded", "spill"} -> IngestDictionary(th, group)
    [] group.dict # <<>> /\ query.path \in PairPaths -> IngestPairs(th, group)
    [] OTHER -> IngestRows(th, group)

-----------------------------------------------------------------------------
(* The phases. *)

Unread ==
  [phase |-> "read", next |-> 1, claimed |-> [t \in Threads |-> 0],
   tables |-> [t \in Threads |-> NoTable], stopped |-> FALSE,
   final |-> <<>>, left |-> <<>>, heaps |-> <<>>, combined |-> FALSE]

InPhase(phase) == state.phase = phase

Claim(t) ==
  /\ InPhase("read") /\ state.claimed[t] = 0 /\ ~state.stopped
  /\ state.next <= Len(query.groups)
  /\ query.path = "encoded" => t = 1
  /\ state' = [state EXCEPT !.claimed[t] = state.next, !.next = @ + 1]
  /\ UNCHANGED <<query, out>>

\* The groups of all threads, a group once for every thread that has seen it.
LiveGroups(tables) == MapThenSumSet(LAMBDA t : Cardinality(DOMAIN tables[t].active), Threads)

\* The consumer of a row group. With a bare LIMIT it looks whether there are groups enough.
Consume(t) ==
  /\ InPhase("read") /\ state.claimed[t] # 0
  /\ LET tables == [state.tables EXCEPT ![t] = IngestGroup(@, query.groups[state.claimed[t]])]
     IN  state' = [state EXCEPT !.claimed[t] = 0, !.tables = tables,
                     !.stopped = @ \/ (query.limit > 0 /\ LiveGroups(tables) >= query.limit + LimitSlack)]
  /\ UNCHANGED <<query, out>>

\* The end of the scan; the active tables of spill are flushed.
Finalize(tables) == IF query.path = "spill" THEN [t \in Threads |-> Flush(tables[t])] ELSE tables

Join ==
  /\ InPhase("read") /\ \A t \in Threads : state.claimed[t] = 0
  /\ state.stopped \/ state.next > Len(query.groups)
  /\ state' = [state EXCEPT !.phase = "merge", !.tables = Finalize(@)]
  /\ UNCHANGED <<query, out>>

PartNumbers == IF query.path \in {"sets", "texts", "encoded"} THEN {0} ELSE 0 .. Parts - 1

\* spill splits the hashes into ranges, the last one open; the others take the low bits.
InPart(key, p) ==
  IF query.path # "spill" THEN HashOf(key) % Cardinality(PartNumbers) = p
  ELSE LET span == MaxHash \div Parts
       IN  p * span <= HashOf(key) /\ (p = Parts - 1 \/ HashOf(key) < (p + 1) * span)

HandedOver(th) == IF query.path \in {"scatter", "spill"} THEN th.entries ELSE Entries(th.active)

\* One worker for each part, none of which the others touch.
MergePart(p) ==
  /\ InPhase("merge") /\ p \in PartNumbers \ DOMAIN state.final
  /\ LET all == FlattenSeq([t \in 1 .. Cardinality(Threads) |-> HandedOver(state.tables[t])])
         mine == SelectSeq(all, LAMBDA e : InPart(e[1], p))
     IN  state' = [state EXCEPT !.final = @ @@ (p :> PutAll(<<>>, mine))]
  /\ UNCHANGED <<query, out>>

-----------------------------------------------------------------------------
(* Distinct counts. *)

\* distinct: every shard counts the pairs of a text, and the counts are added up.
CountPairs(final) ==
  FoldLeft(LAMBDA m, p : FoldLeft(LAMBDA n, pair : Put(n, pair[1], 1), m, SetToSeq(DOMAIN final[p])),
           <<>>, SetToSeq(DOMAIN final))

Size(t, key) == IF key \in DOMAIN state.tables[t].active
                THEN Cardinality(state.tables[t].active[key].vals) ELSE 0
Cost(key) == MapThenSumSet(LAMBDA t : Size(t, key), Threads)

\* A group with more than its share of the values is united in buckets, by hash.
Heavy(key, keys) == Cost(key) > (MapThenSumSet(Cost, keys) \div Cardinality(Threads)) + 1

UnionCount(key, keys, vals) ==
  LET workers == Cardinality(Threads)
  IN  IF workers > 1 /\ Heavy(key, keys)
      THEN MapThenSumSet(LAMBDA b : Cardinality({v \in vals : v % workers = b}), 0 .. workers - 1)
      ELSE Cardinality(vals)

UnionSets(map) ==
  [key \in DOMAIN map |->
     [map[key] EXCEPT !.distinct = UnionCount(key, DOMAIN map, map[key].vals)]]

-----------------------------------------------------------------------------
(* The result. *)

\* The parts, when all are merged.
Reduced ==
  CASE query.path = "distinct" -> (0 :> CountPairs(state.final))
    [] query.path = "sets" -> (0 :> UnionSets(state.final[0]))
    [] OTHER -> state.final

GroupsOf(final) == UNION {DOMAIN final[p] : p \in DOMAIN final}
CellOf(key) == state.final[CHOOSE p \in DOMAIN state.final : key \in DOMAIN state.final[p]][key]

\* Which paths keep the best groups only, and when.
KeepsBest(final) ==
  /\ query.top > 0 /\ query.path \notin {"sets", "texts"} /\ GroupsOf(final) # {}
  /\ query.path \in {"ints", "encoded"} => query.top < Cardinality(GroupsOf(final))

Reduce ==
  /\ InPhase("merge") /\ DOMAIN state.final = PartNumbers
  /\ LET final == Reduced
     IN  state' = [state EXCEPT !.final = final,
                     !.phase = CASE query.limit > 0 -> "first"
                                 [] query.limit = 0 /\ KeepsBest(final) -> "offer"
                                 [] OTHER -> "all",
                     !.left = [p \in DOMAIN final |-> DOMAIN final[p]],
                     !.heaps = [p \in DOMAIN final |-> {}]]
  /\ UNCHANGED <<query, out>>

\* SUM of no value is NULL, but not for the integers of rows.
Answer(cell) ==
  IF Counts THEN cell
  ELSE [cell EXCEPT !.sum = IF cell.cnt = 0 /\ query.path # "rows" THEN Null ELSE @]

RowFor(key) == <<key, Answer(CellOf(key))>>

EmitAll ==
  /\ InPhase("all")
  /\ out' = SetToSeq({RowFor(key) : key \in GroupsOf(state.final)})
  /\ state' = [state EXCEPT !.phase = "done"]
  /\ UNCHANGED query

\* A bare LIMIT takes groups as they come.
EmitFirst ==
  /\ InPhase("first")
  /\ LET groups == GroupsOf(state.final)
     IN  \E some \in kSubset(Min({query.limit, Cardinality(groups)}), groups) :
           out' = SetToSeq({RowFor(key) : key \in some})
  /\ state' = [state EXCEPT !.phase = "done"]
  /\ UNCHANGED query

SortKey(key) == CASE query.order = "key" -> key
                  [] query.order = "count" /\ Counts -> CellOf(key)
                  [] OTHER -> CellOf(key).rows

\* Strictly, so that of equal groups the first one stays.
Beats(a, b) == IF query.asc THEN SortKey(a) < SortKey(b) ELSE SortKey(a) > SortKey(b)
Worst(heap) == {w \in heap : \A x \in heap : ~Beats(w, x)}

\* A heap of the k best that is offered a group; of equal ones any may go.
Offered(heap, key) ==
  IF Cardinality(heap) < query.top THEN {heap \cup {key}}
  ELSE IF \A w \in Worst(heap) : Beats(key, w) THEN {(heap \ {w}) \cup {key} : w \in Worst(heap)}
  ELSE {heap}

\* spill has a heap for each range, and one for what they keep; the others have one.
HeapFor(p) == IF query.path = "spill" /\ ~state.combined THEN p ELSE 0

\* One heap takes the parts in their order, and a range its groups by hash.
Comes(p, key) ==
  /\ HeapFor(p) = 0 => \A q \in DOMAIN state.left : q < p => state.left[q] = {}
  /\ (query.path = "spill" /\ ~state.combined) => \A k \in state.left[p] : HashOf(key) <= HashOf(k)

Offer(p, key) ==
  /\ InPhase("offer") /\ key \in state.left[p] /\ Comes(p, key)
  /\ \E heap \in Offered(state.heaps[HeapFor(p)], key) :
       state' = [state EXCEPT !.left[p] = @ \ {key}, !.heaps[HeapFor(p)] = heap]
  /\ UNCHANGED <<query, out>>

AllOffered == InPhase("offer") /\ \A p \in DOMAIN state.left : state.left[p] = {}

Combine ==
  /\ AllOffered /\ query.path = "spill" /\ ~state.combined
  /\ state' = [state EXCEPT !.combined = TRUE, !.left = state.heaps,
                            !.heaps = [p \in DOMAIN @ |-> {}]]
  /\ UNCHANGED <<query, out>>

\* The heap is emptied from its worst group, and the rows turned round; ints leaves its rows
\* in the order of the heap and the sort above it does the rest.
EmitWorst ==
  /\ AllOffered /\ (query.path = "spill" => state.combined) /\ state.heaps[0] # {}
  /\ \E key \in Worst(state.heaps[0]) :
       /\ state' = [state EXCEPT !.heaps[0] = @ \ {key},
                      !.phase = IF state.heaps[0] = {key} THEN "done" ELSE @]
       /\ out' = <<RowFor(key)>> \o out
  /\ UNCHANGED query

Next ==
  /\ IsGroupBy
  /\ \/ \E t \in Threads : Claim(t) \/ Consume(t)
     \/ Join
     \/ \E p \in PartNumbers : MergePart(p)
     \/ Reduce \/ EmitAll \/ EmitFirst
     \/ \E p \in DOMAIN state.left : \E key \in state.left[p] : Offer(p, key)
     \/ Combine \/ EmitWorst

-----------------------------------------------------------------------------
(* What a GROUP BY is. *)

AllRows == FlattenSeq([g \in DOMAIN query.groups |-> query.groups[g].rows])
Places == {i \in DOMAIN AllRows : Kept(AllRows[i]) /\ ~Dropped(AllRows[i])}
RightKey(r) == IF query.path = "pairs" THEN <<r.k, r.v>> ELSE r.k
RightKeys == {RightKey(AllRows[i]) : i \in Places}

RightAnswer(key) ==
  LET rows == {i \in Places : RightKey(AllRows[i]) = key}
      some == {i \in rows : AllRows[i].v # Null}
      vals == {AllRows[i].v : i \in some}
  IN  CASE query.path = "distinct" -> Cardinality(vals)
        [] Counts /\ query.path # "distinct" -> Cardinality(rows)
        [] OTHER -> [rows |-> Cardinality(rows), cnt |-> Cardinality(some),
                     sum |-> IF some # {} THEN MapThenSumSet(LAMBDA i : AllRows[i].v, some)
                             ELSE IF query.path = "rows" THEN 0 ELSE Null,
                     low |-> IF some # {} THEN Min(vals) ELSE Null,
                     high |-> IF some # {} THEN Max(vals) ELSE Null,
                     vals |-> vals,
                     distinct |-> IF query.path = "sets" THEN Cardinality(vals) ELSE 0]

Rank(row) == CASE query.order = "key" -> row[1]
               [] query.order = "count" /\ Counts -> row[2]
               [] OTHER -> row[2].rows

Wins(a, b) == IF query.asc THEN Rank(a) < Rank(b) ELSE Rank(a) > Rank(b)

\* A path that reads the bytes of a NULL key puts its row into another group.
NullsApart == query.path \in {"ints", "texts"} => \A i \in Places : AllRows[i].k # Null

RightRows == {<<key, RightAnswer(key)>> : key \in RightKeys}

(* PhysicalHashAggregate: whichever thread reads which row group, and however  *)
(* the groups are dealt out to the mergers, every group that is emitted has    *)
(* the answer of all its rows, no group comes twice, and of a top k none is    *)
(* missing that beats one that is there. The keys a path drops do not count,   *)
(* nor does a scan that a bare LIMIT has stopped.                              *)
GroupsAreRight ==
  (IsGroupBy /\ state.phase = "done" /\ ~state.stopped /\ NullsApart)
  => LET wanted == IF query.limit > 0 THEN query.limit
                   ELSE IF query.top > 0 /\ query.path \notin {"sets", "texts"} THEN query.top
                   ELSE Cardinality(RightRows)
     IN  /\ Range(out) \subseteq RightRows /\ IsInjective(out)
         /\ Len(out) = Min({wanted, Cardinality(RightRows)})
         /\ query.top > 0 => \A a \in RightRows \ Range(out), b \in Range(out) : ~Wins(a, b)

(* "Bare LIMIT (no ORDER BY) -- no row ordering required, just emit the first  *)
(* N" (physical_planner.cpp:6029): the groups emitted are groups of the query  *)
(* with their counts, N of them if there are as many.                          *)
LimitIsRight ==
  (IsGroupBy /\ state.phase = "done" /\ query.limit > 0)
  => /\ Range(out) \subseteq RightRows
     /\ Len(out) = Min({query.limit, Cardinality(RightRows)})
=============================================================================
