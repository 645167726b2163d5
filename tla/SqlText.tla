------------------------------- MODULE SqlText -------------------------------
(* How standard SQL writes a syntax tree of module Parser: as a sequence of   *)
(* tokens, with no parentheses but those that precedence calls for.           *)
EXTENDS Integers, Sequences, SequencesExt

Is(e, kinds) == e.is \in kinds
Some(e) == e # [is |-> "none"]

RECURSIVE Flat(_)
Flat(seqs) == IF seqs = <<>> THEN <<>> ELSE Head(seqs) \o Flat(Tail(seqs))
Comma(items) == Flat([i \in DOMAIN items |-> IF i = 1 THEN items[i] ELSE <<",">> \o items[i]])
Paren(s) == <<"(">> \o s \o <<")">>
If(c, s) == IF c THEN s ELSE <<>>
Named(ns) == Comma([i \in DOMAIN ns |-> <<ns[i]>>])

Infix(e) == e.is = "call" /\ e.name \in {"BETWEEN", "IN"}
In(e)    == Infix(e) \/ (e.is = "query" /\ e.kind = "IN")
Predicate(e) == In(e) \/ Is(e, {"compare", "test"}) \/ (e.is = "not" /\ In(e.of))

Bitwise == {"&", "|", "^", "<<", ">>"}

Level(e) ==
  CASE e.is = "binary" /\ e.op = "OR" -> 1
    [] e.is = "binary" /\ e.op = "AND" -> 2
    [] e.is = "not" /\ ~Predicate(e) -> 3
    [] Predicate(e) -> 4
    [] e.is = "binary" /\ e.op \in Bitwise -> 5
    [] e.is = "binary" /\ e.op \in {"+", "-", "||"} -> 6
    [] e.is = "binary" /\ e.op \in {"*", "/", "%"} -> 7
    [] e.is = "minus" -> 8
    [] e.is = "cast" -> 9
    [] OTHER -> 10

TypeName(t) == <<t[1]>> \o If(Len(t) > 1, Paren(Named(Tail(t))))

RECURSIVE Expr(_, _), Query(_), Order(_, _), Case(_), CallText(_), Source(_), Chain(_), Branch(_), Rows(_)

Order(items, windowed) ==
  Comma([i \in DOMAIN items |->
           Expr(items[i].of, 1) \o If(~items[i].asc, <<"DESC">>)
           \o IF windowed \/ items[i].nullsFirst = ~items[i].asc THEN <<>>
              ELSE <<"NULLS", IF items[i].nullsFirst THEN "FIRST" ELSE "LAST">>])
By(words, items, windowed) == If(items # <<>>, words \o Order(items, windowed))

Case(args) ==
  LET whens  == {i \in 1 .. Len(args) - 1 : i % 2 = 1}
      simple == /\ Len(args) > 3
                /\ \A i \in whens : Is(args[i], {"compare"}) /\ args[i].op = "=" /\ args[i].left = args[1].left
      When(i) == <<"WHEN">> \o Expr(IF simple THEN args[i].right ELSE args[i], 1) \o <<"THEN">> \o Expr(args[i + 1], 1)
  IN  <<"CASE">> \o If(simple, Expr(args[1].left, 1))
      \o Flat([n \in 1 .. Len(args) \div 2 |-> When(2 * n - 1)])
      \o If(Len(args) % 2 = 1, <<"ELSE">> \o Expr(args[Len(args)], 1)) \o <<"END">>

CallText(e) ==
  LET a(i) == Expr(e.args[i], 1)
      all  == Comma([i \in DOMAIN e.args |-> a(i)])
      With(s) == <<e.name>> \o Paren(s)
  IN  CASE e.name = "CASE" -> Case(e.args)
        [] e.name = "EXTRACT" -> With(<<e.args[1].value, "FROM">> \o a(2))
        [] e.name = "SUBSTRING" -> With(a(1) \o <<"FROM">> \o a(2) \o If(Len(e.args) = 3, <<"FOR">> \o a(Len(e.args))))
        [] e.name \in {"TRIM", "LTRIM"} /\ Len(e.args) = 2 ->
             <<"TRIM">> \o Paren(<<IF e.name = "TRIM" THEN "BOTH" ELSE "LEADING">> \o a(2) \o <<"FROM">> \o a(1))
        [] e.name = "RTRIM" /\ Len(e.args) = 1 -> <<"TRIM">> \o Paren(<<"TRAILING", "FROM">> \o a(1))
        [] e.name = "POSITION" -> With(Expr(e.args[2], 5) \o <<"IN">> \o a(1))
        [] e.name = "CURRENT_DATE" -> <<e.name>>
        [] OTHER -> With(IF e.star THEN <<"*">> ELSE If(e.distinct, <<"DISTINCT">>) \o all)

Expr(e, level) ==
  LET Op(l, op, r, lmin, rmin) == Expr(l, lmin) \o op \o Expr(r, rmin)
      negated == e.is = "not"
      p       == IF negated THEN e.of ELSE e
      no      == If(negated, <<"NOT">>)
      Filter  == If(Some(e.filter), <<"FILTER">> \o Paren(<<"WHERE">> \o Expr(e.filter, 1)))
      bare ==
        CASE e.is = "binary" -> Op(e.left, <<e.op>>, e.right, Level(e), Level(e) + 1)
          [] e.is = "compare" -> Op(e.left, IF e.op = "IS DISTINCT FROM" THEN <<"IS", "DISTINCT", "FROM">> ELSE
                                            IF e.op = "NOT LIKE" THEN <<"NOT", "LIKE">> ELSE <<e.op>>, e.right, 5, 5)
          [] In(p) /\ p.is = "call" /\ p.name = "BETWEEN" ->
               Expr(p.args[1], 5) \o no \o <<"BETWEEN">> \o Op(p.args[2], <<"AND">>, p.args[3], 5, 5)
          [] In(p) /\ p.is = "call" /\ p.name = "IN" ->
               Expr(p.args[1], 5) \o no \o <<"IN">> \o Paren(Comma([i \in 1 .. Len(p.args) - 1 |-> Expr(p.args[i + 1], 1)]))
          [] In(p) /\ p.is = "query" -> Expr(p.of, 5) \o no \o <<"IN">> \o Paren(Query(p.select))
          [] e.is = "not" /\ ~In(p) -> <<"NOT">> \o Expr(e.of, 3)
          [] e.is = "minus" -> <<"-">> \o Expr(e.of, 8)
          [] e.is = "test" -> Expr(e.of, IF e.test = "NULL" THEN 5 ELSE 4) \o <<"IS">> \o If(e.negated, <<"NOT">>) \o <<e.test>>
          [] e.is = "cast" /\ e.type = <<"INTEGER">> /\ ~e.try -> Expr(e.of, 9) \o <<"::", "INTEGER">>
          [] e.is = "cast" /\ (e.type # <<"INTEGER">> \/ e.try) ->
               <<IF e.try THEN "TRY_CAST" ELSE "CAST">> \o Paren(Expr(e.of, 1) \o <<"AS">> \o TypeName(e.type))
          [] e.is = "literal" ->
               CASE e.kind = "NULL" -> <<"NULL">>
                 [] e.kind = "STRING_LITERAL" -> <<"'" \o e.value \o "'">>
                 [] e.kind = "DATE" -> <<"DATE", "'" \o e.value \o "'">>
                 [] OTHER -> <<e.value>>
          [] e.is = "column" -> If(e.table # "", <<e.table, ".">>) \o <<e.name>>
          [] e.is = "query" /\ e.kind # "IN" -> If(e.kind = "EXISTS", <<"EXISTS">>) \o Paren(Query(e.select))
          [] e.is = "call" /\ ~Infix(e) -> CallText(e) \o Filter
          [] e.is = "window" ->
               <<e.name>> \o Paren(Comma([i \in DOMAIN e.args |-> Expr(e.args[i], 1)])) \o Filter \o <<"OVER">>
               \o Paren(If(e.partition # <<>>, <<"PARTITION", "BY">> \o Comma([i \in DOMAIN e.partition |-> Expr(e.partition[i], 1)]))
                        \o By(<<"ORDER", "BY">>, e.order, TRUE))
  IN  IF Level(e) < level THEN Paren(bare) ELSE bare

-----------------------------------------------------------------------------
(* Queries. *)

Source(s) ==
  (CASE s.kind = "select" -> Paren(Query(s.select))
     [] s.kind = "function" /\ s.name = "__FILE__" -> Expr(s.args[1], 1)
     [] s.kind = "function" /\ s.name # "__FILE__" -> <<s.name>> \o Paren(Comma([i \in DOMAIN s.args |-> Expr(s.args[i], 1)]))
     [] s.kind = "table" -> <<s.name>>)
  \o If(s.alias # "", <<"AS", s.alias>>) \o If(s.columns # <<>>, Paren(Named(s.columns)))

\* A chain is written from the left: the joins are taken in that order.
Chain(sources) ==
  Flat([i \in DOMAIN sources |->
          LET on == IF i = 1 THEN [is |-> "none"] ELSE sources[i - 1].on
          IN  If(i > 1, CASE i = 1 -> <<>>
                          [] i > 1 /\ sources[i - 1].join = "INNER" -> <<"JOIN">>
                          [] i > 1 /\ sources[i - 1].join # "INNER" -> <<sources[i - 1].join, "JOIN">>)
              \o Source(sources[i]) \o If(Some(on), <<"ON">> \o Expr(on, 1))])

Branch(b) ==
  LET Opt(word, e) == If(Some(e), <<word>> \o Expr(e, 1))
      Item(i) == Expr(b.list[i].of, 1) \o If(b.list[i].alias # "", <<"AS", b.list[i].alias>>)
      Cte(i) == <<b.ctes[i].name, "AS">> \o Paren(Query(b.ctes[i].select))
  IN  If(b.ctes # <<>>, <<"WITH">> \o If(b.ctes # <<>> /\ b.ctes[1].recursive, <<"RECURSIVE">>)
                        \o Comma([i \in DOMAIN b.ctes |-> Cte(i)]))
      \o <<"SELECT">> \o If(b.distinct, <<"DISTINCT">>) \o Comma([i \in DOMAIN b.list |-> Item(i)])
      \o If(b.from # <<>>, <<"FROM">> \o Chain(b.from)) \o Opt("WHERE", b.where)
      \o If(b.groupAll, <<"GROUP", "BY", "ALL">>)
      \o If(b.group # <<>>, <<"GROUP", "BY">> \o Comma([i \in DOMAIN b.group |-> Expr(b.group[i], 1)]))
      \o Opt("HAVING", b.having) \o Opt("QUALIFY", b.qualify)
      \o By(<<"ORDER", "BY">>, b.order, FALSE) \o Opt("LIMIT", b.limit) \o Opt("OFFSET", b.offset)
      \o CASE b.setOp = "" -> <<>> [] b.setOp = "UNION ALL" -> <<"UNION", "ALL">> [] OTHER -> <<b.setOp>>

\* A chain of UNION ALL whose first branch names its columns column0, column1 is VALUES.
IsValues(q) ==
  /\ \A i \in DOMAIN q[1].list : q[1].list[i].alias = "column" \o ToString(i - 1)
  /\ \A b \in DOMAIN q : q[b].from = <<>> /\ q[b].setOp \in {"", "UNION ALL"}

Rows(rs) == Comma([r \in DOMAIN rs |-> Paren(Comma([i \in DOMAIN rs[r] |-> Expr(rs[r][i], 1)]))])

Query(q) ==
  IF IsValues(q) THEN <<"VALUES">> \o Rows([r \in DOMAIN q |-> [i \in DOMAIN q[r].list |-> q[r].list[i].of]])
  ELSE Flat([b \in DOMAIN q |-> Branch(q[b])])

-----------------------------------------------------------------------------
(* Statements. *)

Sets(ss) == Comma([i \in DOMAIN ss |-> <<ss[i].column, "=">> \o Expr(ss[i].to, 1)])
Where(e) == If(Some(e), <<"WHERE">> \o Expr(e, 1))

Column(c) == <<c.name>> \o TypeName(c.type)
             \o (IF c.key THEN <<"PRIMARY", "KEY">> ELSE If(c.notNull, <<"NOT", "NULL">>))

RECURSIVE Statement(_)
Statement(s) ==
  CASE s.is = "select" -> Query(s.select)
    [] s.is = "insert" -> <<"INSERT", "INTO", s.table>> \o If(s.columns # <<>>, Paren(Named(s.columns)))
                          \o IF s.rows = <<>> THEN Query(s.select) ELSE <<"VALUES">> \o Rows(s.rows)
    [] s.is = "update" -> <<"UPDATE", s.table, "SET">> \o Sets(s.sets) \o Where(s.where)
    [] s.is = "delete" -> <<"DELETE", "FROM", s.table>> \o Where(s.where)
    [] s.is = "create" -> <<"CREATE">> \o If(s.replace, <<"OR", "REPLACE">>) \o <<"TABLE">>
                          \o If(s.ifNotExists, <<"IF", "NOT", "EXISTS">>) \o <<s.table>>
                          \o IF s.columns = <<>> THEN <<"AS">> \o Query(s.select)
                             ELSE Paren(Comma([i \in DOMAIN s.columns |-> Column(s.columns[i])]))
    [] s.is = "view" -> <<"CREATE">> \o If(s.replace, <<"OR", "REPLACE">>) \o If(s.live, <<"LIVE">>)
                        \o <<"VIEW", s.name, "AS">> \o Query(s.select)
    [] s.is = "drop" -> <<"DROP", "TABLE">> \o If(s.ifExists, <<"IF", "EXISTS">>) \o <<s.table>>
    [] s.is = "explain" -> <<"EXPLAIN">> \o Statement(s.of)
    [] s.is = "describe" -> <<"DESCRIBE">> \o Query(s.select)
    [] s.is = "pragma" -> <<"PRAGMA", s.name>> \o If(s.arg # "", Paren(<<s.arg>>))
    [] s.is = "show" -> <<"SHOW", s.kind>> \o If(s.table # "", <<"FROM", s.table>>)
                        \o If(s.like # "", <<"LIKE", "'" \o s.like \o "'">>)
    [] s.is = "copy" -> <<"COPY">> \o (IF s.select = <<>> THEN <<s.table>> ELSE Paren(Query(s.select)))
                        \o <<IF s.from THEN "FROM" ELSE "TO", "'" \o s.file \o "'", "WITH">>
                        \o Paren(<<"FORMAT", s.format, ",", "DELIMITER", "'" \o s.delimiter \o "'", ",",
                                   "HEADER", IF s.header THEN "TRUE" ELSE "FALSE">>)
    [] s.is = "alter" -> <<"ALTER", "TABLE", s.table, s.action, "COLUMN", s.column>>
                         \o If(s.action = "RENAME", <<"TO">>) \o If(s.arg # <<>>, TypeName(s.arg))
    [] s.is = "truncate" -> <<"TRUNCATE", "TABLE", s.table>>
    [] s.is = "merge" -> <<"MERGE", "INTO", s.target, "AS", s.targetAlias, "USING", s.source, "AS", s.sourceAlias, "ON">>
                         \o Expr(s.on, 1)
                         \o If(s.hasUpdate, <<"WHEN", "MATCHED", "THEN", "UPDATE", "SET">> \o Sets(s.sets))
                         \o If(s.hasInsert, <<"WHEN", "NOT", "MATCHED", "THEN", "INSERT">>
                                            \o If(s.columns # <<>>, Paren(Named(s.columns))) \o <<"VALUES">> \o Rows(<<s.values>>))
    [] OTHER -> <<s.is>>

\* A batch: its statements end with semicolons, the last one need not.
Batch(statements) ==
  Flat([i \in DOMAIN statements |-> If(i > 1, <<";">>) \o Statement(statements[i])])

-----------------------------------------------------------------------------
(* Expressions that the parser reads in another way. *)

Parts(e) ==
  CASE e.is \in {"binary", "compare"} -> {e.left, e.right}
    [] e.is \in {"not", "minus", "test", "cast"} -> {e.of}
    [] e.is \in {"call", "window"} -> Range(e.args)
    [] OTHER -> {}

RECURSIVE Within(_)
Within(e) == {e} \cup UNION {Within(p) : p \in Parts(e)}

\* a & b + c: bitwise operators bind as tightly as sums.
SumInBitwise(e) == e.is = "binary" /\ Level(e) = 5 /\ Level(e.right) = 6

\* a = b IS TRUE: the operand of a test may not be a predicate.
TestOfPredicate(e) == e.is = "test" /\ e.test # "NULL" /\ Level(e.of) = 4

\* KEY may be the name of a column, and the expression is refused.
KeywordColumn(e) == e.is = "column" /\ e.table = "" /\ e.name \in {"KEY", "INDEX", "DEFAULT"}

ReadInAnotherWay(e) == \E n \in Within(e) : SumInBitwise(n) \/ TestOfPredicate(n) \/ KeywordColumn(n)

ListsOf(s) == IF s.is = "select" THEN UNION {{s.select[b].list[i].of : i \in DOMAIN s.select[b].list} : b \in DOMAIN s.select} ELSE {}

MeansElse(statements) == \E s \in Range(statements) : \E e \in ListsOf(s) : ReadInAnotherWay(e)
=============================================================================
