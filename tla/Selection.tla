----------------------------- MODULE Selection ------------------------------
(* SELECT columns or aggregates FROM one table or file WHERE a condition,      *)
(* without GROUP BY. ExpressionExecutor evaluates the condition a chunk at a   *)
(* time; over a Parquet file, or a large CSV file, an AND of simple            *)
(* comparisons is compiled and tested by the threads that read the file, and   *)
(* row groups are left out for what their statistics say.                      *)
(*                                                                             *)
(* A row has k BIGINT, d DOUBLE and s VARCHAR. Numbers are counted in halves,  *)
(* so that 3 is the DOUBLE 1.5; a text is the sequence of its characters.      *)
EXTENDS Integers, Sequences, FiniteSets, SequencesExt, FiniteSetsExt

CONSTANTS VectorSize, \* VECTOR_SIZE
          Null        \* NULL

VARIABLES
  query, \* source, groups (of the file, or the chunks of a table), where, select, aggs
  state, \* what the operators have read and counted
  out    \* the rows returned

IsSelect == query.op = "select"

Percent    == 37
Underscore == 95
Backslash  == 92

Columns == {"k", "d", "s"}
Whole(n) == n % 2 = 0

Anything == [is |-> "anything"] \* no WHERE clause
HasWhere == query.where # Anything

-----------------------------------------------------------------------------
(* ExpressionExecutor: a condition is TRUE, FALSE or Null. *)

PatternItem(p, i) ==
  IF i < Len(p) /\ p[i] = Backslash THEN [char |-> p[i + 1], meta |-> FALSE, step |-> 2]
  ELSE [char |-> p[i], meta |-> p[i] \in {Percent, Underscore}, step |-> 1]

\* The loop of LikeMatch: t from si, p from pi, the last % and where it was tried.
RECURSIVE LikeFrom(_, _, _, _, _, _)
LikeFrom(t, p, si, pi, starP, starS) ==
  IF si > Len(t) THEN \A i \in pi .. Len(p) : p[i] = Percent
  ELSE LET item == PatternItem(p, pi)
           here == pi <= Len(p)
       IN  IF here /\ item.meta /\ item.char = Percent
           THEN LikeFrom(t, p, si, pi + item.step, pi, si)
           ELSE IF here /\ (item.meta \/ item.char = t[si])
           THEN LikeFrom(t, p, si + 1, pi + item.step, starP, starS)
           ELSE /\ starP # 0
                /\ LikeFrom(t, p, starS + 1, starP + 1, starP, starS + 1)

LikeMatch(t, p) == LikeFrom(t, p, 1, 1, 0, 0)

Needle(p) == SubSeq(p, 2, Len(p) - 1)

\* The shape '%text%'.
ContainsShape(p) ==
  /\ Len(p) >= 2 /\ p[1] = Percent /\ p[Len(p)] = Percent
  /\ Range(Needle(p)) \cap {Percent, Underscore, Backslash} = {}

FindSubstr(t, needle) ==
  \E i \in 0 .. Len(t) - Len(needle) : SubSeq(t, i + 1, i + Len(needle)) = needle

Like(t, p) == IF ContainsShape(p) THEN FindSubstr(t, Needle(p)) ELSE LikeMatch(t, p)

CompareTyped(op, a, b) ==
  CASE op = "="  -> a = b
    [] op = "<>" -> a # b
    [] op = "<"  -> a < b
    [] op = "<=" -> a <= b
    [] op = ">"  -> a > b
    [] op = ">=" -> a >= b

Comparison(op, a, b) ==
  IF a = Null \/ b = Null THEN Null
  ELSE CASE op = "LIKE" -> Like(a, b)
         [] op = "NOT LIKE" -> ~Like(a, b)
         [] OTHER -> CompareTyped(op, a, b)

AndOf(l, r) == IF l = FALSE \/ r = FALSE THEN FALSE
               ELSE IF l = Null \/ r = Null THEN Null ELSE TRUE
OrOf(l, r)  == IF l = TRUE \/ r = TRUE THEN TRUE
               ELSE IF l = Null \/ r = Null THEN Null ELSE FALSE
NotOf(x)    == IF x = Null THEN Null ELSE ~x

IsBool(x, pred) == CASE pred = "UNKNOWN" -> x = Null
                     [] pred = "TRUE" -> x = TRUE
                     [] pred = "FALSE" -> x = FALSE

\* The types of the binder; a literal of a whole number is an INTEGER.
TypeOf(e) ==
  CASE e.is = "column" -> [k |-> "BIGINT", d |-> "DOUBLE", s |-> "VARCHAR"][e.column]
    [] e.is \in {"number", "minus"} -> IF Whole(e.number) THEN "INTEGER" ELSE "DOUBLE"
    [] e.is = "text" -> "VARCHAR"
    [] e.is = "null" -> "NULL"

\* BindComparison gives a literal of whole numbers the type of a column of whole numbers.
Promoted(e) == {TypeOf(e.left), TypeOf(e.right)} = {"BIGINT", "INTEGER"} /\ {e.left.is, e.right.is} = {"column", "number"}

RECURSIVE Execute(_, _)

\* Values of two types are not equal, and neither is less.
InOf(e, row) ==
  LET x == Execute(e.of, row)
      equal == {Execute(y, row) : y \in {y \in Range(e.list) : TypeOf(y) = TypeOf(e.of)}}
  IN  IF x = Null THEN Null
      ELSE IF x \in equal THEN TRUE
      ELSE IF Null \in {Execute(y, row) : y \in Range(e.list)} THEN Null ELSE FALSE

BetweenOf(e, row) ==
  LET x    == Execute(e.of, row)
      low  == Execute(e.low, row)
      high == Execute(e.high, row)
  IN  IF x = Null \/ low = Null \/ high = Null THEN Null
      ELSE /\ ~(TypeOf(e.low) = TypeOf(e.of) /\ x < low)
           /\ ~(TypeOf(e.high) = TypeOf(e.of) /\ high < x)

NotDistinct(e, row) ==
  LET a == Execute(e.left, row)
      b == Execute(e.right, row)
  IN  IF a = Null \/ b = Null THEN a = Null /\ b = Null
      ELSE (TypeOf(e.left) = TypeOf(e.right) \/ Promoted(e)) /\ a = b

\* ExpressionExecutor::Execute for one row of the chunk.
Execute(e, row) ==
  CASE e.is = "anything" -> TRUE
    [] e.is = "column"  -> row[e.column]
    [] e.is = "number"  -> e.number
    [] e.is = "text"    -> e.text
    [] e.is = "null"    -> Null
    [] e.is = "minus"   -> -e.number
    [] e.is = "compare" /\ e.op = "IS NOT DISTINCT FROM" -> NotDistinct(e, row)
    [] e.is = "compare" /\ e.op = "IS DISTINCT FROM" -> ~NotDistinct(e, row)
    [] e.is = "compare" -> Comparison(e.op, Execute(e.left, row), Execute(e.right, row))
    [] e.is = "and"     -> AndOf(Execute(e.left, row), Execute(e.right, row))
    [] e.is = "or"      -> OrOf(Execute(e.left, row), Execute(e.right, row))
    [] e.is = "not"     -> NotOf(Execute(e.of, row))
    [] e.is = "is null" -> Execute(e.of, row) = Null
    [] e.is = "is bool" -> IsBool(Execute(e.of, row), e.pred)
    [] e.is = "in"      -> InOf(e, row)
    [] e.is = "between" -> BetweenOf(e, row)
    [] e.is = "case"    -> IF Execute(e.when, row) = TRUE THEN Execute(e.then, row)
                           ELSE Execute(e.else, row)

-----------------------------------------------------------------------------
(* The compiled form of a condition: a sequence of simple predicates, all of   *)
(* which hold for a row that is kept.                                          *)

Orderings == {"=", "<>", "<", "<=", ">", ">="}

\* Fault: the operator of `constant OP column` stays as it is.
Unmirrored(op) == op

Mirror(op) == CASE op = "<" -> ">" [] op = "<=" -> ">=" [] op = ">" -> "<" [] op = ">=" -> "<="
                [] OTHER -> op

Swapped(e) == e.left.is \in {"number", "text", "null"} /\ e.right.is = "column"

\* The column comes first.
Sided(e) == IF Swapped(e) THEN [e EXCEPT !.left = e.right, !.right = e.left, !.op = Mirror(e.op)]
            ELSE e

ContainsTest(e) == e.op \in {"LIKE", "NOT LIKE"} /\ e.right.is = "text" /\ ContainsShape(e.right.text)

RECURSIVE Compiles(_)
Compiles(e) ==
  CASE e.is = "and" -> Compiles(e.left) /\ Compiles(e.right)
    [] e.is = "in"  -> /\ e.of = [is |-> "column", column |-> "k"]
                       /\ \A x \in Range(e.list) : x.is \in {"number", "minus"} /\ Whole(x.number)
    [] e.is = "compare" ->
         LET c == Sided(e)
         IN  /\ c.left.is = "column"
             /\ \/ c.left.column = "s" /\ ~Swapped(e) /\ ContainsTest(e)
                \/ c.left.column = "s" /\ c.op \in {"=", "<>"} /\ c.right.is = "text"
                \/ c.left.column # "s" /\ c.op \in Orderings /\ c.right.is = "number"
    [] OTHER -> FALSE

\* A number as an int64, which has no halves.
Truncated(n) == 2 * (n \div 2)

NumberTest(column, op, n) ==
  [form |-> "number", column |-> column, op |-> op, dval |-> n, ival |-> Truncated(n), set |-> {}]

RECURSIVE Predicates(_)
Predicates(e) ==
  CASE e.is = "and" -> Predicates(e.left) \o Predicates(e.right)
    [] e.is = "in"  -> << [NumberTest("k", "=", 0) EXCEPT
                              !.form = "in", !.set = {Execute(x, <<>>) : x \in Range(e.list)}] >>
    [] e.is = "compare" ->
         LET c == Sided(e)
         IN  IF c.left.column # "s" THEN << NumberTest(c.left.column, c.op, c.right.number) >>
             ELSE << [form |-> IF ContainsTest(c) THEN "contains" ELSE "text",
                      column |-> "s", op |-> c.op, text |-> c.right.text] >>

Preds == IF HasWhere THEN Predicates(query.where) ELSE <<>>

TextHolds(p, t) == IF p.form = "contains" THEN FindSubstr(t, Needle(p.text)) = (p.op = "LIKE")
                   ELSE CompareTyped(p.op, t, p.text)

\* EvalSimplePredicates, for one of them; BuildTypedKeepMask says the same of a group.
Holds(p, row) ==
  /\ row[p.column] # Null
  /\ CASE p.form = "in" -> row.k \in p.set
       [] p.form = "number" -> CompareTyped(p.op, row[p.column], IF p.column = "k" THEN p.ival ELSE p.dval)
       [] OTHER -> TextHolds(p, row.s)

EvalSimplePredicates(row) == \A p \in Range(Preds) : Holds(p, row)

\* EvalSimplePredicatesChunk, of a CSV file: every number is compared as a double.
EvalSimplePredicatesChunk(row) ==
  \A p \in Range(Preds) :
    IF p.form = "number" THEN row[p.column] # Null /\ CompareTyped(p.op, row[p.column], p.dval)
    ELSE Holds(p, row)

-----------------------------------------------------------------------------
(* A Parquet file: row groups with their statistics and dictionaries. *)

Group(g) == query.groups[g]
RowsOf(g) == Range(Group(g).rows)
AllValid(g, c) == \A r \in RowsOf(g) : r[c] # Null
Keys(g, c) == {r[c] : r \in RowsOf(g)} \ {Null}

Less(a, b, c) ==
  IF c # "s" THEN a < b
  ELSE \E i \in 1 .. Len(b) : /\ Len(a) >= i - 1 /\ SubSeq(a, 1, i - 1) = SubSeq(b, 1, i - 1)
                              /\ Len(a) >= i => a[i] < b[i]

HasStats(g, c) == Group(g).stats /\ Keys(g, c) # {}
MinValue(g, c) == CHOOSE x \in Keys(g, c) : \A y \in Keys(g, c) : ~Less(y, x, c)
MaxValue(g, c) == CHOOSE x \in Keys(g, c) : \A y \in Keys(g, c) : ~Less(x, y, c)

\* The comparisons in an AND that a row group may be left out for.
RECURSIVE PushdownFilters(_)
PushdownFilters(e) ==
  CASE e.is = "and" -> PushdownFilters(e.left) \cup PushdownFilters(e.right)
    [] e.is = "compare" ->
         LET c == Sided(e)
         IN  IF c.left.is = "column" /\ c.right.is \in {"number", "text"} /\ c.op \in Orderings \ {"<>"}
             THEN {[column |-> c.left.column, op |-> c.op, right |-> c.right]} ELSE {}
    [] OTHER -> {}

\* The dictionary of k, that of the first page only if later pages have none.
Dictionary(g) == IF Group(g).pages = "mixed" THEN {Group(g).rows[1].k} \ {Null} ELSE Keys(g, "k")

DictSkipPossible(g, f, v) == f.column = "k" /\ Group(g).pages # "plain" /\ v \notin Dictionary(g)

RowGroupMightMatch(g, f) ==
  LET v   == Execute(f.right, <<>>)
      low == MinValue(g, f.column)
      top == MaxValue(g, f.column)
  IN  \/ ~HasStats(g, f.column)
      \/ f.column = "k" /\ ~Whole(v)
      \/ CASE f.op = "="  -> /\ ~Less(v, low, f.column) /\ ~Less(top, v, f.column)
                            /\ ~DictSkipPossible(g, f, v)
           [] f.op = ">"  -> ~Less(top, v, f.column) /\ top # v
           [] f.op = ">=" -> ~Less(top, v, f.column)
           [] f.op = "<"  -> ~Less(v, low, f.column) /\ low # v
           [] f.op = "<=" -> ~Less(v, low, f.column)

IsParquet == query.source = "parquet"

IsRowGroupPruned(g) ==
  IsParquet /\ HasWhere /\ \E f \in PushdownFilters(query.where) : ~RowGroupMightMatch(g, f)

\* BuildTypedKeepMask takes no NULLs, no DOUBLE, and text compared for equality only in a dictionary.
MaskBuilt(g) ==
  \A p \in Range(Preds) :
    /\ AllValid(g, p.column) /\ p.column # "d"
    /\ p.form = "text" => Group(g).pages = "dict"

-----------------------------------------------------------------------------
(* Columns that are read. *)

\* What SetNeededOutputs finds in a condition.
RECURSIVE Walk(_)
Walk(e) ==
  CASE e.is = "column" -> {e.column}
    [] e.is \in {"compare", "and", "or"} -> Walk(e.left) \cup Walk(e.right)
    [] e.is \in {"not", "is null"} -> Walk(e.of)
    [] e.is = "in" -> Walk(e.of)
    [] e.is = "between" -> Walk(e.of) \cup Walk(e.low) \cup Walk(e.high)
    [] e.is = "case" -> Walk(e.when) \cup Walk(e.then) \cup Walk(e.else)
    [] OTHER -> {}

AggColumns == {query.aggs[i].column : i \in DOMAIN query.aggs} \ {"*"}

\* SELECT k WHERE k = 2: the rows are counted, then the literal is returned as often.
LiteralEmit ==
  /\ query.select = <<"k">> /\ query.where.is = "compare" /\ query.where.op = "="
  /\ LET c == Sided(query.where)
     IN  /\ c.left = [is |-> "column", column |-> "k"]
         /\ c.right.is = "number" /\ Whole(c.right.number)

NeededColumns ==
  IF query.source = "table" \/ LiteralEmit \/ (query.aggs # <<>> /\ AggColumns = {}) THEN Columns
  ELSE Range(query.select) \cup AggColumns \cup Walk(query.where)

Unread(c) == IF IsParquet THEN Null ELSE IF c = "s" THEN <<>> ELSE 0

AsRead(row) == [c \in Columns |-> IF c \in NeededColumns THEN row[c] ELSE Unread(c)]

\* PhysicalFilter: the rows of a chunk for which the condition is valid and true.
Filter(rows) ==
  SelectSeq([i \in DOMAIN rows |-> AsRead(rows[i])], LAMBDA r : Execute(query.where, r) = TRUE)

-----------------------------------------------------------------------------
(* Aggregates without GROUP BY: COUNT, SUM, AVG, MIN and MAX. *)

Zero == [count |-> 0, sum |-> 0, min |-> Null, max |-> Null]

\* Of a column and a constant added to it, which SUM takes.
Agg(fn, column, offset) == [fn |-> fn, column |-> column, offset |-> offset]
CountStar == Agg("COUNT", "*", 0)

Aggregates == IF LiteralEmit THEN <<CountStar>> ELSE query.aggs

Counting == Aggregates = <<CountStar>>
AllCounts == \A a \in Range(Aggregates) : a.fn = "COUNT"

Lower(old, new, c)  == IF old = Null \/ Less(new, old, c) THEN new ELSE old
Higher(old, new, c) == IF old = Null \/ Less(old, new, c) THEN new ELSE old

Add(st, x, c) ==
  IF x = Null THEN st
  ELSE [count |-> st.count + 1, sum |-> IF c = "s" THEN 0 ELSE st.sum + x,
        min |-> Lower(st.min, x, c), max |-> Higher(st.max, x, c)]

\* The rows of a chunk, for one of the aggregates.
Accumulate(a, st, rows) ==
  IF a.column = "*" THEN [st EXCEPT !.count = @ + Len(rows)]
  ELSE FoldLeft(LAMBDA old, r : Add(old, r[a.column], a.column), st, rows)

\* The least aggregate of the same function and column accumulates for all of them.
Primary(i) ==
  IF Aggregates[i].column = "*" THEN i
  ELSE Min({j \in 1 .. i : /\ Aggregates[j].fn = Aggregates[i].fn
                           /\ Aggregates[j].column = Aggregates[i].column})

EmitAggValue(i) ==
  LET a  == Aggregates[i]
      st == state.aggs[Primary(i)]
  IN  CASE a.fn = "COUNT" -> st.count
        [] a.fn = "SUM"   -> IF st.count = 0 THEN Null ELSE st.sum + a.offset * st.count
        [] a.fn = "AVG"   -> IF st.count = 0 THEN Null ELSE <<st.sum, st.count>>
        [] a.fn = "MIN"   -> st.min
        [] a.fn = "MAX"   -> st.max

FileGroups == DOMAIN query.groups
AllRows == FlattenSeq([g \in FileGroups |-> Group(g).rows])

StatsOnly ==
  \A a \in Range(Aggregates) :
    a = CountStar \/ (a.fn \in {"MIN", "MAX"} /\ \A g \in FileGroups : HasStats(g, a.column))

FromStats(a) ==
  LET c == a.column
  IN  IF a = CountStar THEN [Zero EXCEPT !.count = Len(AllRows)]
      ELSE [Zero EXCEPT !.min = FoldLeft(LAMBDA x, g : Lower(x, MinValue(g, c), c), Null, [g \in FileGroups |-> g]),
                        !.max = FoldLeft(LAMBDA x, g : Higher(x, MaxValue(g, c), c), Null, [g \in FileGroups |-> g])]

\* TryDictHistogramAgg: how often each entry of the dictionary of k occurs.
Histogram ==
  /\ Len(Aggregates) = 1 /\ ~HasWhere
  /\ LET a == Aggregates[1]
     IN  a.column = "k" /\ a.offset = 0 /\ a.fn \in {"SUM", "AVG", "COUNT"}
  /\ \A g \in FileGroups : Group(g).pages # "plain" /\ AllValid(g, "k")

Path ==
  LET compiled == HasWhere /\ Compiles(query.where)
  IN  CASE Aggregates = <<>> -> "chunks"
        [] Counting /\ ~HasWhere -> "footer"
        [] Counting /\ IsParquet /\ compiled -> "fused count"
        [] Counting -> "chunks"
        [] IsParquet /\ (~HasWhere \/ (compiled /\ AllCounts)) ->
             IF StatsOnly THEN "stats" ELSE IF Histogram THEN "histogram" ELSE "fused aggregates"
        [] query.source = "big csv" /\ (~HasWhere \/ compiled) -> "ranges"
        [] OTHER -> "chunks"

-----------------------------------------------------------------------------
(* What a thread does with a row group, or with its range of a CSV file. *)

TextPredicate == \E p \in Range(Preds) : p.form \in {"text", "contains"}

\* The lambda that counts matches, where IN is taken for k = 0.
CountedHere(g, row) ==
  IF TextPredicate
  THEN IF MaskBuilt(g) THEN EvalSimplePredicates(row)
       ELSE \A p \in Range(Preds) : p.form \in {"text", "contains"} /\ Holds(p, row)
  ELSE \A p \in Range(Preds) : Holds(IF p.form = "in" THEN NumberTest("k", "=", 0) ELSE p, row)

Passing(g) ==
  SelectSeq(Group(g).rows,
            LAMBDA r : CASE Path = "fused count" -> CountedHere(g, r)
                         [] Path = "ranges" -> EvalSimplePredicatesChunk(r)
                         [] OTHER -> EvalSimplePredicates(r))

\* The group's statistics show one value, which is taken for that of every row.
OneValue(g, c) ==
  /\ Path = "fused aggregates" /\ ~HasWhere /\ c \in {"k", "d"} /\ HasStats(g, c)
  /\ MinValue(g, c) = MaxValue(g, c)

\* MIN and MAX of a text, and over a CSV file its COUNT as well, have no case here.
NoCase(a) ==
  a.column = "s" /\ (Path = "ranges" \/ (Path = "fused aggregates" /\ a.fn # "COUNT"))

AfterGroup(g, i) ==
  LET a  == Aggregates[i]
      st == state.aggs[i]
  IN  IF NoCase(a) \/ (Path = "fused aggregates" /\ Primary(i) # i) THEN st
      ELSE Accumulate(a, st, IF OneValue(g, a.column)
                             THEN [r \in DOMAIN Group(g).rows |-> [c \in Columns |-> MinValue(g, a.column)]]
                             ELSE Passing(g))

-----------------------------------------------------------------------------
Unplanned == [path |-> "unplanned", ended |-> FALSE]

Start ==
  /\ state.path = "unplanned"
  /\ state' = [path |-> Path, at |-> 1, row |-> 0, seen |-> {}, ended |-> FALSE,
               aggs |-> [i \in DOMAIN Aggregates |-> Zero], emitted |-> 0]
  /\ UNCHANGED <<query, out>>

To(next) == state' = next /\ UNCHANGED query

FromMetadata ==
  /\ state.path \in {"footer", "stats", "histogram"} /\ state.seen = {}
  /\ To([state EXCEPT !.seen = FileGroups,
        !.aggs = [i \in DOMAIN Aggregates |->
                   IF Path = "histogram" THEN Accumulate(Aggregates[i], Zero, AllRows)
                   ELSE FromStats(Aggregates[i])]])
  /\ UNCHANGED out

Pruned == {g \in FileGroups : IsRowGroupPruned(g)}

ConsumeGroup(g) ==
  /\ state.path \in {"fused count", "fused aggregates", "ranges"}
  /\ g \in FileGroups \ (Pruned \cup state.seen)
  /\ To([state EXCEPT !.seen = @ \cup {g}, !.aggs = [i \in DOMAIN Aggregates |-> AfterGroup(g, i)]])
  /\ UNCHANGED out

\* GetData: the next chunk of the scan, filtered, is projected or accumulated.
ReadChunk ==
  /\ state.path = "chunks" /\ state.at \in FileGroups
  /\ LET g     == state.at
         rows  == Group(g).rows
         last  == Min({state.row + VectorSize, Len(rows)})
         chunk == Filter(SubSeq(rows, state.row + 1, last))
     IN  IF g \in Pruned THEN To([state EXCEPT !.at = g + 1]) /\ UNCHANGED out
         ELSE /\ To([state EXCEPT !.at = IF last = Len(rows) THEN g + 1 ELSE g,
                                  !.row = IF last = Len(rows) THEN 0 ELSE last,
                                  !.aggs = [i \in DOMAIN @ |-> Accumulate(Aggregates[i], @[i], chunk)]])
              /\ out' = IF Aggregates # <<>> THEN out
                        ELSE out \o [i \in DOMAIN chunk |->
                                       [j \in DOMAIN query.select |-> chunk[i][query.select[j]]]]

AllRead == CASE state.path = "unplanned" -> FALSE
             [] state.path = "chunks" -> state.at \notin FileGroups
             [] state.path \in {"footer", "stats", "histogram"} -> state.seen = FileGroups
             [] OTHER -> FileGroups \ Pruned \subseteq state.seen

Emit ==
  /\ AllRead /\ ~state.ended /\ ~LiteralEmit
  /\ To([state EXCEPT !.ended = TRUE])
  /\ out' = IF Aggregates = <<>> THEN out ELSE << [i \in DOMAIN Aggregates |-> EmitAggValue(i)] >>

\* PhysicalLiteralEmitFilter::GetData.
EmitLiteral ==
  /\ AllRead /\ ~state.ended /\ LiteralEmit
  /\ LET left == state.aggs[1].count - state.emitted
         n    == Min({left, VectorSize})
     IN  /\ To([state EXCEPT !.emitted = @ + n, !.ended = left = 0])
         /\ out' = out \o [i \in 1 .. n |-> <<Sided(query.where).right.number>>]

Next ==
  /\ IsSelect
  /\ \/ Start \/ FromMetadata \/ ReadChunk \/ Emit \/ EmitLiteral
     \/ \E g \in FileGroups : ConsumeGroup(g)

-----------------------------------------------------------------------------
(* The answer that SQL gives. Truth is 2, unknown is 1 and falsehood is 0. *)

Truth(b) == IF b THEN 2 ELSE 0

\* A pattern matches a text: % any characters, _ one, and \ takes the next as it is.
RECURSIVE Matches(_, _)
Matches(t, p) ==
  IF p = <<>> THEN t = <<>>
  ELSE IF Head(p) = Percent THEN \E i \in 1 .. Len(t) + 1 : Matches(SubSeq(t, i, Len(t)), Tail(p))
  ELSE LET escaped == Head(p) = Backslash /\ Len(p) > 1
           rest    == IF escaped THEN Tail(p) ELSE p
       IN  /\ t # <<>> /\ (Head(t) = Head(rest) \/ (~escaped /\ Head(p) = Underscore))
           /\ Matches(Tail(t), Tail(rest))

Fact(op, a, b) ==
  CASE op = "LIKE" -> Matches(a, b)
    [] op = "NOT LIKE" -> ~Matches(a, b)
    [] OTHER -> CompareTyped(op, a, b)

RECURSIVE ValueOf(_, _), TruthOf(_, _)
ValueOf(e, row) ==
  CASE e.is = "column" -> row[e.column]
    [] e.is = "number" -> e.number
    [] e.is = "minus" -> 0 - e.number
    [] e.is = "text" -> e.text
    [] e.is = "null" -> Null
    [] e.is = "case" -> IF TruthOf(e.when, row) = 2 THEN ValueOf(e.then, row) ELSE ValueOf(e.else, row)

TruthOf(e, row) ==
  LET Known(op, a, b) == IF a = Null \/ b = Null THEN 1 ELSE Truth(Fact(op, a, b))
      Each(S) == {ValueOf(x, row) : x \in S}
  IN  CASE e.is = "anything" -> 2
        [] e.is = "and" -> Min({TruthOf(e.left, row), TruthOf(e.right, row)})
        [] e.is = "or"  -> Max({TruthOf(e.left, row), TruthOf(e.right, row)})
        [] e.is = "not" -> 2 - TruthOf(e.of, row)
        [] e.is = "is null" -> Truth(ValueOf(e.of, row) = Null)
        [] e.is = "is bool" -> Truth(TruthOf(e.of, row) = CASE e.pred = "TRUE" -> 2 [] e.pred = "FALSE" -> 0
                                                            [] OTHER -> 1)
        [] e.is = "in" -> Max({Known("=", ValueOf(e.of, row), v) : v \in Each(Range(e.list))})
        [] e.is = "between" -> LET x == ValueOf(e.of, row)
                               IN  Min({Known(">=", x, ValueOf(e.low, row)), Known("<=", x, ValueOf(e.high, row))})
        [] e.is = "compare" /\ e.op = "IS NOT DISTINCT FROM" -> Truth(ValueOf(e.left, row) = ValueOf(e.right, row))
        [] e.is = "compare" /\ e.op = "IS DISTINCT FROM" -> Truth(ValueOf(e.left, row) # ValueOf(e.right, row))
        [] e.is = "compare" -> Known(e.op, ValueOf(e.left, row), ValueOf(e.right, row))

WantedRows == SelectSeq(AllRows, LAMBDA r : TruthOf(query.where, r) = 2)

WantedAgg(a) ==
  LET c  == a.column
      xs == SelectSeq([i \in DOMAIN WantedRows |-> WantedRows[i][IF c = "*" THEN "k" ELSE c]],
                      LAMBDA x : c = "*" \/ x # Null)
      sum == FoldLeft(LAMBDA total, x : total + x + a.offset, 0, xs)
  IN  CASE a.fn = "COUNT" -> Len(xs)
        [] xs = <<>> -> Null
        [] a.fn = "SUM" -> sum
        [] a.fn = "AVG" -> <<sum, Len(xs)>>
        [] a.fn = "MIN" -> CHOOSE x \in Range(xs) : \A y \in Range(xs) : ~Less(y, x, c)
        [] a.fn = "MAX" -> CHOOSE x \in Range(xs) : \A y \in Range(xs) : ~Less(x, y, c)

Wanted ==
  IF query.aggs # <<>> THEN << [i \in DOMAIN query.aggs |-> WantedAgg(query.aggs[i])] >>
  ELSE [i \in DOMAIN WantedRows |-> [j \in DOMAIN query.select |-> WantedRows[i][query.select[j]]]]

-----------------------------------------------------------------------------
(* What the code answers in another way. *)

\* The columns under IS TRUE, IS FALSE and IS UNKNOWN are not asked for.
Forgotten == /\ query.source # "table" /\ query.where.is = "is bool"
             /\ ~(Walk(query.where.of) \subseteq NeededColumns)

\* The lambda that counts matches has no case for IN ...
InCounted == Path = "fused count" /\ ~TextPredicate /\ \E p \in Range(Preds) : p.form = "in"

\* ... and none for a number beside a text once a group has no mask.
NumberBesideText ==
  /\ Path = "fused count" /\ TextPredicate /\ \E p \in Range(Preds) : p.form \in {"number", "in"}
  /\ \E g \in FileGroups : ~MaskBuilt(g)

\* Two COUNT(*) are answered by the footer in spite of the condition.
CountsTheFile == Path = "stats" /\ HasWhere

\* A group of one value is taken to have no NULLs.
NullsFolded ==
  \E a \in Range(Aggregates), g \in FileGroups :
    /\ a.column \in Columns /\ a.fn \in {"COUNT", "SUM", "AVG"}
    /\ OneValue(g, a.column) /\ ~AllValid(g, a.column)

\* An integer column is compared with the literal's whole part.
FractionLost == /\ Path \in {"fused count", "fused aggregates"}
                /\ \E p \in Range(Preds) : p.form = "number" /\ p.column = "k" /\ p.ival # p.dval

\* NULL instead of the least text, 0 instead of the number of texts.
TextIgnored == \E a \in Range(Aggregates) : NoCase(a)

\* x BETWEEN 2 AND NULL is never FALSE.
OpenBetween == /\ query.where.is = "not" /\ query.where.of.is = "between"
               /\ [is |-> "null"] \in {query.where.of.low, query.where.of.high}

\* IN, BETWEEN and IS DISTINCT FROM of a BIGINT or a DOUBLE and an INTEGER literal.
OtherType ==
  /\ Path = "chunks"
  /\ LET e == IF query.where.is = "not" THEN query.where.of ELSE query.where
         Differ(x) == TypeOf(x) \notin {"NULL", TypeOf(e.of)}
     IN  CASE e.is = "in" -> \E x \in Range(e.list) : Differ(x)
           [] e.is = "between" -> Differ(e.low) \/ Differ(e.high)
           [] e.is = "compare" -> /\ e.op \in {"IS DISTINCT FROM", "IS NOT DISTINCT FROM"}
                                  /\ TypeOf(e.left) # TypeOf(e.right) /\ ~Promoted(e)
           [] OTHER -> FALSE

\* The first page's dictionary lacks a value of a later page.
PageUnseen ==
  /\ IsParquet /\ HasWhere
  /\ \E f \in PushdownFilters(query.where), g \in FileGroups :
       /\ f.op = "=" /\ f.column = "k" /\ Group(g).pages = "mixed" /\ HasStats(g, "k")
       /\ Execute(f.right, <<>>) \in Keys(g, "k") \ Dictionary(g)

KnownDifference ==
  \/ Forgotten \/ InCounted \/ NumberBesideText \/ CountsTheFile \/ NullsFolded
  \/ FractionLost \/ TextIgnored \/ OpenBetween \/ OtherType \/ PageUnseen

\* The rows or the aggregates are those of the rows for which the condition is true,
\* whichever of the ways of reading the file is taken and whichever row groups the
\* statistics leave out.
SelectionIsRight ==
  (IsSelect /\ state.ended) => (KnownDifference \/ out = Wanted)

=============================================================================
