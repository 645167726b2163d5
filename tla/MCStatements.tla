---------------------------- MODULE MCStatements ----------------------------
(* One connection's queries on small tables, or the statements of two that *)
(* write one table.                                                        *)
EXTENDS TableWrites, RecursiveQuery, HashJoin, SetOperations

CONSTANTS c1, c2, Questions,
          Threads, Parts, MaxHash, ActiveCap, LimitSlack,
          TopNThreshold, Oversample, CacheCap, EagerRows

G == INSTANCE GroupBy
B == INSTANCE OrderBy
W == INSTANCE Window
L == INSTANCE Selection

-----------------------------------------------------------------------------
(* Writes. Keys 1 to 3 and two values; a source of three rows that a copy  *)
(* reads in two chunks, whose last row repeats a key or does not fit.      *)

Row(k, v) == [key |-> k, val |-> v]

AllKeys == {1, 2, 3, Null}
AllVals == {"x", "z", "big", Garbage}

Big         == Row(2, "big")
ThreeTables == {<<Row(1, "x"), Row(2, "x"), r>> : r \in {Row(3, "x"), Row(1, "x"), Big}}
BigRow      == {Big}

Values   == {[op |-> "values", rows |-> s] :
               s \in {<<Row(1, "x")>>, <<Row(2, "x"), Row(2, "x")>>, <<Big>>}}
Delete   == {[op |-> "delete", where |-> 1]}
Update   == {[op |-> "update", where |-> 1, col |-> "val", to |-> "z"],
             [op |-> "update", where |-> 1, col |-> "key", to |-> 2]}
Copy     == {[op |-> "select", from |-> f] : f \in {"source", "self"}}
Others   == {[op |-> o] : o \in {"merge", "truncate", "begin", "commit", "rollback"}}

AnyConnection == Permutations(Connections)

Everything == [c \in Connections |-> Values \cup Delete \cup Update \cup Copy \cup Others]

-----------------------------------------------------------------------------
\* Joins.

SeqsUpTo(T, n) == UNION {[1 .. m -> T] : m \in 0 .. n}

IntRows == [k : {1, Null}, m : {1, 2}]
TextRows == [k : {Null, EmptyText, NullText}, m : {1}]

One == [k |-> 1, m |-> 1]
Three == {<<One, [k |-> 2, m |-> 1], [k |-> 1, m |-> 2]>>,
          <<One, One, One>>,
          <<[k |-> Null, m |-> 1], One, [k |-> 2, m |-> 1]>>}

JoinQuery(tables, types, conds, texts) ==
  [op : {"join"}, left : tables, right : tables, type : types, cond : conds, texts : {texts},
   sized : {"unknown", "right smaller"}, pruned : {FALSE}, leftOfJoin : {TRUE}]

Joins ==
  JoinQuery(SeqsUpTo(IntRows, 2) \cup Three, {"INNER", "LEFT", "RIGHT", "FULL"},
            {"k", "k and m"}, FALSE)
  \cup JoinQuery(SeqsUpTo(TextRows, 2), {"INNER", "FULL"}, {"k"}, TRUE)
  \cup JoinQuery(Three, {"INNER", "LEFT"}, {"m", "k or m"}, FALSE)
  \cup JoinQuery(SeqsUpTo(IntRows, 1) \cup Three, {"CROSS"}, {"k"}, FALSE)
  \cup {[q EXCEPT !.pruned = TRUE] :
          q \in JoinQuery(Three, {"INNER", "FULL"}, {"k and m"}, FALSE)}

ASSUME AreJoins == \A q \in Joins : IsJoinQuery(q)

-----------------------------------------------------------------------------
(* Groups. Two or three row groups of up to three rows, with dictionaries  *)
(* and without; keys that share a radix, and one in the open last range.   *)

GRow(k, v) == [k |-> k, v |-> v, keep |-> v # 2]

Groups(dicts) ==
  LET Group(dict, r) == [dict |-> IF dicts THEN dict ELSE <<>>, rows |-> r]
  IN  {Group(<<2, 3, 0>>, <<GRow(3, 1), GRow(3, 2), GRow(2, 1)>>),
       Group(<<3>>, <<GRow(3, 2), GRow(Null, 1), GRow(3, 2)>>),
       Group(<<5, 3>>, <<GRow(5, 1), GRow(3, Null)>>)}

IntGroups == {[dict |-> <<>>, rows |-> <<GRow(1, 2), GRow(-1, 1), GRow(0, Null)>>]}

Files(groups) == [1 .. 2 -> groups] \cup {f \in [1 .. 3 -> groups] : IsInjective(f)}

GroupQuery(paths, dicts, filters, tops, orders, limits) ==
  {q \in [op : {"group"}, path : paths,
          groups : UNION {Files(Groups(d)) : d \in dicts}
                   \cup IF paths \cap {"sets", "ints"} = {} THEN {} ELSE Files(IntGroups),
          filter : filters, top : tops, asc : BOOLEAN, order : orders, limit : limits] :
     q.top = 0 => ~q.asc /\ q.order = "count"}

GroupBys ==
  GroupQuery({"scatter"}, {FALSE}, {"none", "other"}, {0, 1, 2}, {"count"}, {0})
  \cup GroupQuery({"sharded", "spill"}, BOOLEAN, {"none", "not empty", "other"}, {0, 2}, {"count"}, {0})
  \cup GroupQuery({"pairs", "distinct"}, BOOLEAN, {"none", "other"}, {0, 1}, {"count"}, {0})
  \cup GroupQuery({"rows", "sets", "encoded"}, {FALSE}, {"none", "other"}, {0, 2}, {"count"}, {0})
  \cup GroupQuery({"ints"}, {FALSE}, {"none"}, {0, 1}, {"count", "key"}, {0})
  \cup GroupQuery({"texts"}, BOOLEAN, {"none", "other"}, {0, 2}, {"count"}, {0})

Limits == GroupQuery({"pairs"}, BOOLEAN, {"none"}, {0}, {"count"}, {1, 2})

-----------------------------------------------------------------------------
(* Chains of two and three branches, of every pair of types that meet in    *)
(* another way, with NULLs and values that are equal once they are coerced. *)

Val(t, n) == [type |-> t, n |-> n]
Branch(t, r) == [type |-> t, columns |-> 1, rows |-> r]

BranchesOf(t) == {Branch(t, <<Val(t, 1)>>), Branch(t, <<Val(t, 2), Null>>),
                  Branch(t, <<Val(t, 1), Val(t, 2)>>), Branch(t, <<Val(t, 2), Val(t, 2)>>)}

Pairs ==
  {<<"INTEGER", "INTEGER">>, <<"INTEGER", "BIGINT">>, <<"UTINYINT", "TINYINT">>,
   <<"UINTEGER", "INTEGER">>, <<"USMALLINT", "UTINYINT">>, <<"SMALLINT", "FLOAT">>,
   <<"FLOAT", "INTEGER">>, <<"DOUBLE", "INTEGER">>, <<"VARCHAR", "INTEGER">>,
   <<"DATE", "VARCHAR">>, <<"BOOLEAN", "INTEGER">>, <<"DATE", "DATE">>, <<"SQLNULL", "INTEGER">>}

Of(t) == IF t = "SQLNULL" THEN {Branch(t, <<Null>>)} ELSE BranchesOf(t)

Ops == {"UNION ALL", "UNION", "INTERSECT", "EXCEPT"}

Ask(branches, ops, order, limit, offset, derived) ==
  [op |-> "set", branches |-> branches, ops |-> ops, order |-> order, nullsFirst |-> order = "desc",
   limit |-> limit, offset |-> offset, derived |-> derived]

Chains ==
  {Ask(<<l, r>>, <<o>>, "none", -1, 0, d) :
     o \in Ops, d \in BOOLEAN, l \in UNION {Of(p[1]) : p \in Pairs}, r \in UNION {Of(p[2]) : p \in Pairs}}
  \cup {Ask(<<l, m, r>>, <<o, q>>, ord, lim, IF lim < 0 THEN 0 ELSE 1, d) :
          o \in Ops, q \in Ops, ord \in {"none", "asc", "desc"}, lim \in {-1, 2}, d \in BOOLEAN,
          l \in BranchesOf("INTEGER"), m \in BranchesOf("BIGINT"),
          r \in {Branch("INTEGER", <<Val("INTEGER", 3), Null>>), Branch("INTEGER", <<Val("INTEGER", 1), Val("INTEGER", 2)>>)}}
  \cup {Ask(<<l, [l EXCEPT !.columns = 2]>>, <<"UNION">>, "none", -1, 0, FALSE) : l \in BranchesOf("INTEGER")}

ASSUME AreChains == \A q \in Chains : IsChain(q)

-----------------------------------------------------------------------------
(* Recursion along a path, down a tree and to one row on two ways. *)

Recursive(base, yields) ==
  [op : {"recursive"}, base : {base}, yields : {yields}, fills : BOOLEAN]

Recursions ==
  Recursive(<<1>>, <<<<2>>, <<3>>, <<4>>, <<>>>>)
  \cup Recursive(<<1>>, <<<<2, 3, 4>>, <<>>, <<>>, <<>>>>)
  \cup Recursive(<<1>>, <<<<2, 3>>, <<4>>, <<4>>, <<>>>>)
  \cup Recursive(<<1, 2, 3>>, <<<<>>, <<>>, <<4>>, <<>>>>)
  \cup Recursive(<<4, 4>>, <<<<>>, <<>>, <<4>>, <<>>>>)
  \cup Recursive(<<>>, <<<<>>>>)

ASSUME Recursing == \A q \in Recursions : IsRecursion(q)

-----------------------------------------------------------------------------
(* Files of up to three groups; keys that tie, in one group and in two, a   *)
(* row that the WHERE clause drops, a NULL and a negative key.              *)

ORow(k, m) == [k |-> k, m |-> m, keep |-> TRUE]
Off(r) == [r EXCEPT !.keep = FALSE]

OrderGroups ==
  {<<ORow(2, 2), ORow(1, 1), ORow(2, 1)>>,
   <<ORow(1, 2), Off(ORow(0, 1))>>,
   <<ORow(3, 1), ORow(2, 1)>>,
   <<ORow(Null, 1), ORow(-1, 1)>>}
OrderFiles(n) == {f \in UNION {[1 .. m -> OrderGroups] : m \in 1 .. n} : IsInjective(f)}
OrderQuery(paths, keys, limits, restarts) ==
  {q \in [op : {"order"}, path : paths, groups : OrderFiles(3), keys : keys, asc : BOOLEAN,
           nullsFirst : BOOLEAN, limit : limits, offset : {0, 1}, restarts : restarts] :
     /\ q.nullsFirst = ~q.asc \/ q.path = "heap"
     /\ q.path = "dict" => \A g \in DOMAIN q.groups : \A r, s \in Range(q.groups[g]) :
                            r.k = s.k => r.keep = s.keep}

OrderQueries ==
  OrderQuery({"heap"}, {2}, {-1, 0, 2}, {FALSE})
  \cup OrderQuery({"rows", "parallel", "texts"}, {1, 2}, {1}, {FALSE})
  \cup OrderQuery({"stats"}, {1, 2}, {1, 2}, {FALSE})
  \cup OrderQuery({"stats"}, {2}, {1}, {TRUE})
  \cup OrderQuery({"inline"}, {2}, {1, 2}, {FALSE})
  \cup OrderQuery({"dict"}, {1}, {1, 2}, {FALSE})

-----------------------------------------------------------------------------
(* Partitions of up to three rows that tie, more of them than the cache     *)
(* holds, with NULLs.                                                       *)

WRow(p, o) == [p |-> p, o |-> o]
WindowTables ==
  {<<>>,
   <<WRow(1, 1), WRow(2, 1), WRow(1, 1)>>,
   <<WRow(2, 1), WRow(1, 0), WRow(1, 1)>>,
   <<WRow(1, 1), WRow(2, 1), WRow(1, 0), WRow(2, 0)>>,
   <<WRow(1, 1), WRow(1, 0), WRow(2, 1), WRow(1, 0)>>,
   <<WRow(1, 0), WRow(2, 0), WRow(3, 1), WRow(1, 0)>>,
   <<WRow(Null, 1), WRow(1, 0), WRow(Null, 0)>>,
   <<WRow(1, Null), WRow(0, 0), WRow(Null, 1)>>}

Fn(f)   == [fn |-> f, asc |-> TRUE]
Down(f) == [fn |-> f, asc |-> FALSE]

Qualifiers == {<<>>, <<Fn("row_number"), "=", 1>>, <<Fn("row_number"), "<=", 2>>,
               <<Fn("rank"), "<=", 1>>, <<Down("dense_rank"), ">", 1>>}

WindowQuery(fns, qualifiers, ordered, texts, limits) ==
  [op : {"window"}, rows : WindowTables, fns : fns, qualify : qualifiers, ordered : {ordered},
   partitioned : BOOLEAN, texts : {texts}, limit : limits]

WindowQueries ==
  WindowQuery({<<Fn("rank")>>, <<Fn("dense_rank")>>, <<Down("rank"), Down("row_number")>>,
               <<Fn("rank"), Fn("dense_rank"), Fn("lag")>>, <<Fn("lead"), Fn("sum")>>},
              Qualifiers, TRUE, FALSE, {0, 1, 2})
  \cup WindowQuery({<<Fn("rank"), Fn("dense_rank")>>}, {<<>>}, TRUE, TRUE, {0})
  \cup WindowQuery({<<Fn("rank"), Down("lag")>>, <<Fn("sum"), Down("dense_rank")>>},
                    {<<>>, <<Down("row_number"), "<=", 1>>}, TRUE, FALSE, {0})
  \cup WindowQuery({<<Fn("row_number"), Fn("sum")>>, <<Fn("row_number")>>},
                    {<<>>, <<Fn("row_number"), ">", 1>>}, FALSE, TRUE, {0, 1})

-----------------------------------------------------------------------------
(* Row groups whose pages and statistics differ, with NULLs, and conditions *)
(* that are compiled and that are not. Numbers are counted in halves.       *)

A == 97
SRow(k, d, s) == [k |-> k, d |-> d, s |-> s]
SGroup(pages, stats, r) == [pages |-> pages, stats |-> stats, rows |-> r]

SelectGroups ==
  {SGroup("plain", TRUE, <<SRow(2, 3, <<A, 98>>), SRow(4, 2, <<98>>), SRow(2, 4, <<A>>)>>),
   SGroup("dict", TRUE, <<SRow(4, 2, <<98>>), SRow(Null, Null, Null), SRow(4, 3, <<A, 37>>)>>),
   SGroup("mixed", TRUE, <<SRow(2, 3, <<98>>), SRow(6, 3, <<A, 98, A>>)>>),
   SGroup("dict", FALSE, <<SRow(0, 4, <<A>>), SRow(6, Null, <<98, A>>)>>)}
SelectFiles == {f \in UNION {[1 .. m -> SelectGroups] : m \in 1 .. 2} : IsInjective(f)}

Col(c) == [is |-> "column", column |-> c]
Num(n) == [is |-> "number", number |-> n]
Text(t) == [is |-> "text", text |-> t]
Nil == [is |-> "null"]
Cmp(op, l, r) == [is |-> "compare", op |-> op, left |-> l, right |-> r]
And(l, r) == [is |-> "and", left |-> l, right |-> r]
Or(l, r) == [is |-> "or", left |-> l, right |-> r]
Not(x) == [is |-> "not", of |-> x]
Between(x, l, h) == [is |-> "between", of |-> x, low |-> l, high |-> h]
In(c, l) == [is |-> "in", of |-> Col(c), list |-> l]
HasText(op, t) == Cmp(op, Col("s"), Text(<<37>> \o t \o <<37>>))

Simple ==
  {Cmp(o, Col("k"), Num(2)) : o \in {"=", "<>", ">"}} \cup {Cmp(o, Num(4), Col("k")) : o \in {"<", "<=", ">="}}
  \cup {Cmp("=", Col("k"), Num(6)), Cmp("<", Col("k"), Num(3)), Cmp(">", Col("d"), Num(2)),
        Cmp("<>", Col("s"), Text(<<A>>)), HasText("LIKE", <<98>>), HasText("NOT LIKE", <<A>>),
        In("k", <<Num(0), Num(6)>>)}
Conditions ==
  Simple \cup {And(Cmp(">=", Col("k"), Num(4)), c) :
                  c \in {Cmp("<", Col("d"), Num(4)), HasText("LIKE", <<A>>), Cmp("=", Text(<<A>>), Col("s"))}}

Interpreted ==
  {Cmp("LIKE", Col("s"), Text(p)) : p \in {<<A, 37>>, <<37, 95, A>>, <<95, 37, A, 37>>, <<A, 92, 37>>}}
  \cup {Or(Cmp("=", Col("k"), Num(4)), Cmp("<", Col("d"), Num(3))), Or(Cmp("=", Col("k"), Nil), Cmp("=", Col("d"), Num(2))),
        Not(And(Cmp("=", Col("k"), Num(4)), Cmp(">", Col("d"), Num(2)))),
        [is |-> "is null", of |-> Col("d")], Not([is |-> "is null", of |-> Col("s")]),
        Cmp("IS DISTINCT FROM", Col("k"), Num(4)), Cmp("IS NOT DISTINCT FROM", Col("k"), Nil),
        Cmp("IS NOT DISTINCT FROM", Col("d"), Num(3)), Cmp("IS DISTINCT FROM", Col("d"), Num(2)),
        In("s", <<Text(<<98>>), Nil>>), Not(In("s", <<Text(<<A>>), Nil>>)), Not(In("d", <<Num(3), Num(5)>>)),
        Not(In("k", <<Num(2), [is |-> "minus", number |-> 2]>>)),
        Between(Col("d"), Num(3), Num(5)), Not(Between(Col("d"), Num(1), Num(3))), Not(Between(Col("d"), Num(3), Nil)),
        Not(Between(Col("k"), Num(2), Num(4))),
        Cmp("=", [is |-> "case", when |-> Cmp("<", Col("k"), Num(4)), then |-> Col("d"), else |-> Num(2)], Num(2)),
        Cmp("<", Col("k"), Col("d"))}
  \cup {[is |-> "is bool", pred |-> p, of |-> Cmp(">", Col("k"), Num(2))] : p \in {"TRUE", "FALSE", "UNKNOWN"}}

NoCondition == [is |-> "anything"]

AggLists ==
  {<<L!CountStar>>, <<L!CountStar, L!CountStar>>, <<L!CountStar, L!Agg("COUNT", "s", 0)>>,
   <<L!Agg("MIN", "k", 0), L!Agg("MAX", "d", 0), L!CountStar>>, <<L!Agg("AVG", "k", 0)>>,
   <<L!Agg("SUM", "k", 0), L!Agg("SUM", "k", 2), L!Agg("COUNT", "k", 0)>>, <<L!Agg("COUNT", "k", 0)>>,
   <<L!Agg("MIN", "s", 0), L!Agg("MAX", "s", 0)>>, <<L!Agg("MIN", "s", 0), L!Agg("SUM", "d", -2)>>}

SelectQuery(sources, files, conds, selects, aggs) ==
  [op : {"select"}, source : sources, groups : files, where : conds, select : selects, aggs : aggs]

AnySource == {"table", "csv", "big csv", "parquet"}
Selections ==
  SelectQuery(AnySource, SelectFiles, Conditions \cup Interpreted, {<<"k">>, <<"d", "s">>}, {<<>>})
  \cup SelectQuery(AnySource, SelectFiles, Conditions \cup {NoCondition}, {<<>>}, AggLists)

-----------------------------------------------------------------------------
NoQuery == [op |-> "none"]

Asked ==
  \/ "join" \in Questions /\ query \in Joins
  \/ "group" \in Questions /\ query \in GroupBys
  \/ "limit" \in Questions /\ query \in Limits
  \/ "set" \in Questions /\ query \in Chains
  \/ "recursive" \in Questions /\ query \in Recursions
  \/ "order" \in Questions /\ query \in OrderQueries
  \/ "window" \in Questions /\ query \in WindowQueries
  \/ "select" \in Questions /\ query \in Selections

InitialState == CASE query.op = "join"  -> Unbuilt
                  [] query.op = "group" -> G!Unread
                  [] query.op = "set"   -> Unbound
                  [] query.op = "recursive" -> Unstarted
                  [] query.op = "order" -> B!Uncollected
                  [] query.op = "window" -> W!Unread
                  [] query.op = "select" -> L!Unplanned
                  [] query.op = "none"  -> NoQuery

MCInit ==
  /\ \/ query = NoQuery /\ "write" \in Questions /\ Init
     \/ Asked /\ Init /\ keyed = FALSE /\ source = CHOOSE s \in Sources : TRUE
  /\ state = InitialState
  /\ out = <<>>

MCNext ==
  \/ query = NoQuery /\ Next /\ UNCHANGED queryVars
  \/ (JoinNext \/ G!Next \/ SetNext \/ RecursiveNext \/ B!Next \/ W!Next \/ L!Next) /\ UNCHANGED vars

MCSpec == MCInit /\ [][MCNext]_<<vars, queryVars>>

GroupsAreRight == G!GroupsAreRight
LimitIsRight == G!LimitIsRight
OrderIsRight == B!OrderIsRight
WindowIsRight == W!WindowIsRight
SelectionIsRight == L!SelectionIsRight
=============================================================================
