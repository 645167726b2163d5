---------------------------- MODULE MCConnection ----------------------------
(* What a connection does with a text, a file or a value, one at a time.    *)
EXTENDS LiveView, ClientApi

CONSTANTS h, x, y, c1, c2, Questions, Names, Digits

P == INSTANCE Parser
N == INSTANCE Session

-----------------------------------------------------------------------------
(* Views. A header of one byte, rows of one or two; the beginning that is   *)
(* compared is the header line and the first byte behind it.                *)

(* The last line may lack its newline; a rewrite may keep size or beginning. *)
AtFirst   == {<<h, NL>>, <<h, NL, x>>}
Rewritten == {<<h, NL, y, NL>>, <<h, NL, x, x, NL>>}

(* A line, a newline and then a line, a part of a line.                    *)
Appended  == {<<x, NL>>, <<NL, y>>, <<y>>}

-----------------------------------------------------------------------------
(* Texts: every expression of two operators, and of three with the two      *)
(* operands of one, and a statement of every kind.                          *)

TheNames == {"a", "b", "c", "t", "u", "v", "x", "e", "s", "it", "REPLACE", "SHOW", "TABLES", "COLUMNS", "RENAME",
             "READ_CSV", "TRY_CAST", "LEADING", "TRAILING", "BOTH", "SUBSTRING", "TRIM", "POSITION", "table_info",
             "FORMAT", "DELIMITER", "HEADER", "CSV", "column0"}
TheDigits == {"1", "2", "5", "10"}

Spelled(token) ==
  CASE token \in {"<=", "<>"} -> <<"<", IF token = "<=" THEN "=" ELSE ">">>
    [] token = ">=" -> <<">", "=">>
    [] token = "||" -> <<"|", "|">>
    [] token = "::" -> <<":", ":">>
    [] token = "1.5"    -> <<"1", ".", "5">>
    [] token = "2e+1"   -> <<"2", "e", "+", "1">>
    [] token = ".5"     -> <<".", "5">>
    [] token = "'x'"    -> <<"'", "x", "'">>
    [] token = "','"    -> <<"'", ",", "'">>
    [] token = "'it's'" -> <<"'", "it", "'", "'", "s", "'">>
    [] token = "a b"    -> <<"\"", "a", " ", "b", "\"">>
    [] token = "a_1"    -> <<"a", "_", "1">>
    [] OTHER -> <<token>>

TextOf(tokens, gap) ==
  P!Sql!Flat([i \in DOMAIN tokens |-> P!Sql!If(i > 1, gap) \o Spelled(tokens[i])])

Gaps == {<<" ">>, <<"-", "-", "'", "\n">>, <<"\n", "/", "*", "'", "*", "/">>}

Parse(statements, gap) ==
  [op |-> "parse", meant |-> statements, text |-> TextOf(P!Sql!Batch(statements), gap)]

Col(c) == P!Column("", c)
One    == P!Literal("INTEGER_LITERAL", "1")
Txt(s) == P!Literal("STRING_LITERAL", s)
Function(n, args) == P!Call(n, args)

Over2(l, r) ==
  {P!Binary(o, l, r) : o \in {"OR", "AND", "-", "||", "/", "&"}}
  \cup {P!Compare(o, l, r) : o \in {"<=", "NOT LIKE", "IS DISTINCT FROM"}}
  \cup {Function("BETWEEN", <<l, r, Col("x")>>), P!Not(Function("BETWEEN", <<Col("x"), l, r>>)),
        Function("IN", <<l, r>>), Function("CASE", <<l, r>>)}
Over1(e) ==
  {P!Not(e), P!Minus(e), P!Test(e, "NULL", TRUE), P!Test(e, "TRUE", FALSE),
   P!Cast(e, <<"INTEGER">>, FALSE), P!Cast(e, <<"DECIMAL", "10", "2">>, TRUE)}

Simple == Over2(Col("a"), Col("b")) \cup Over1(Col("a"))
Nested == UNION {Over2(e, One) \cup Over2(One, e) \cup Over1(e) : e \in Simple}
          \cup UNION {Over2(e, f) : e \in Over2(Col("a"), Col("b")), f \in Over1(Col("c"))}

Item(e, n) == [of |-> e, alias |-> n]
Query(items) == [P!EmptyBranch EXCEPT !.list = items]
Select(branches) == [is |-> "select", select |-> branches]
JustThis(e) == Select(<<Query(<<Item(e, "")>>)>>)

Table(n, a) == [P!Source("table", n, <<>>, P!None) EXCEPT !.alias = a]
OrderBy(e, asc, first) == [of |-> e, asc |-> asc, nullsFirst |-> first]
Window(partition, order) == P!WindowOf("SUM", <<Col("a")>>, P!None, partition, order)

Ab == P!Compare("=", P!Column("t", "a"), P!Column("u", "b"))
FromT == [Query(<<Item(Col("a"), "")>>) EXCEPT !.from = <<Table("t", "")>>]
Values == [i \in 1 .. 2 |->
             [Query(IF i = 1 THEN <<Item(One, "column0"), Item(Txt("x"), "column1")>> ELSE <<Item(One, ""), Item(Txt("it's"), "")>>)
                EXCEPT !.setOp = IF i = 1 THEN "UNION ALL" ELSE ""]]
SubqueryIn(kind, e) == P!Subquery(kind, <<FromT>>, e)

Calls ==
  {Function("CASE", <<P!Compare("=", Col("a"), One), Col("b"), P!Compare("=", Col("a"), Txt("x")), Col("c"), One>>),
   Function("EXTRACT", <<Txt("YEAR"), Col("a")>>), Function("SUBSTRING", <<Col("a"), One, Col("b")>>),
   Function("SUBSTRING", <<Col("a"), One>>), Function("TRIM", <<Col("a"), Txt("x")>>),
   Function("LTRIM", <<Col("a"), Txt("x")>>), Function("RTRIM", <<Col("a")>>),
   Function("POSITION", <<Col("a"), Txt("x")>>), Function("CURRENT_DATE", <<>>), Function("NOW", <<>>),
   [Function("COUNT", <<>>) EXCEPT !.star = TRUE], [Function("COUNT", <<Col("a")>>) EXCEPT !.distinct = TRUE],
   [Function("SUM", <<Col("a")>>) EXCEPT !.filter = P!Compare(">", Col("b"), One)],
   Window(<<Col("a"), Col("b")>>, <<[of |-> Col("c"), asc |-> FALSE], [of |-> Col("b"), asc |-> TRUE]>>), Window(<<>>, <<>>),
   SubqueryIn("EXISTS", P!None), SubqueryIn("SCALAR", P!None), SubqueryIn("IN", Col("b")), P!Not(SubqueryIn("IN", Col("b"))),
   P!Literal("FLOAT_LITERAL", "1.5"), P!Literal("FLOAT_LITERAL", "2e+1"), P!Literal("FLOAT_LITERAL", ".5"),
   P!Literal("NULL", ""), P!Literal("TRUE", "TRUE"), P!Literal("DATE", "x"), P!Column("t", "*"), Col("*"),
   Col("a b"), Col("a_1"), Col("YEAR"), Col("KEY"), P!Column("t", "KEY")}

Joined(join, on) ==
  [FromT EXCEPT !.from = <<[Table("t", "v") EXCEPT !.join = join, !.on = on],
                           [Table("u", "") EXCEPT !.join = "INNER", !.on = Ab], Table("v", "x")>>]

Selects ==
  {<<[FromT EXCEPT !.distinct = TRUE, !.list = <<Item(Col("a"), "x"), Item(One, "YEAR")>>, !.where = Ab,
                   !.group = <<Col("a"), One>>, !.having = Ab, !.qualify = Ab,
                   !.order = <<OrderBy(Col("a"), FALSE, TRUE), OrderBy(One, TRUE, TRUE), OrderBy(One, FALSE, FALSE)>>,
                   !.limit = One, !.offset = One]>>,
   <<[FromT EXCEPT !.groupAll = TRUE]>>,
   <<[FromT EXCEPT !.ctes = <<[name |-> "u", recursive |-> TRUE, select |-> <<FromT>>],
                              [name |-> "v", recursive |-> TRUE, select |-> Values]>>]>>,
   <<[FromT EXCEPT !.setOp = "UNION"], [FromT EXCEPT !.setOp = "UNION ALL"], [FromT EXCEPT !.setOp = "EXCEPT"],
     [FromT EXCEPT !.order = <<OrderBy(One, TRUE, FALSE)>>, !.limit = One]>>,
   Values,
   <<[FromT EXCEPT !.from = <<[P!Source("select", "", <<>>, P!Renamed(Values, <<"a", "b">>)) EXCEPT !.alias = "t", !.columns = <<"a", "b">>]>>]>>,
   <<[FromT EXCEPT !.from = <<[P!Source("function", "__FILE__", <<Txt("x")>>, P!None) EXCEPT !.join = "NATURAL"],
                              [P!Source("function", "READ_CSV", <<Txt("x"), One>>, P!None) EXCEPT !.alias = "t", !.join = "CROSS"],
                              P!Source("function", "GENERATE_SERIES", <<One, One>>, P!None)>>]>>}
  \cup {<<Joined(join, Ab)>> : join \in {"INNER", "LEFT", "RIGHT", "FULL"}} \cup {<<Joined("CROSS", P!None)>>}

Set1(n) == [column |-> n, to |-> One]
Statements ==
  {Select(s) : s \in Selects} \cup {JustThis(e) : e \in Calls} \cup
  {[is |-> "insert", table |-> "t", columns |-> <<"a", "KEY">>, select |-> <<>>, rows |-> <<<<One, Txt("x")>>, <<One, One>>>>],
   [is |-> "insert", table |-> "t", columns |-> <<>>, select |-> <<FromT>>, rows |-> <<>>],
   [is |-> "update", table |-> "t", sets |-> <<Set1("a"), Set1("b")>>, where |-> Ab],
   [is |-> "delete", table |-> "t", where |-> P!None], [is |-> "truncate", table |-> "t"],
   [is |-> "create", table |-> "t", replace |-> TRUE, ifNotExists |-> FALSE, select |-> <<FromT>>, columns |-> <<>>],
   [is |-> "create", table |-> "t", replace |-> FALSE, ifNotExists |-> TRUE, select |-> <<>>,
    columns |-> <<[name |-> "a", type |-> <<"INTEGER">>, notNull |-> TRUE, key |-> TRUE],
                  [name |-> "YEAR", type |-> <<"DECIMAL", "10", "2">>, notNull |-> TRUE, key |-> FALSE]>>],
   [is |-> "view", name |-> "v", replace |-> TRUE, live |-> TRUE, select |-> <<FromT>>],
   [is |-> "drop", table |-> "t", ifExists |-> TRUE], [is |-> "explain", of |-> Select(<<FromT>>)],
   [is |-> "describe", select |-> <<FromT>>], [is |-> "pragma", name |-> "table_info", arg |-> "t"],
   [is |-> "pragma", name |-> "v", arg |-> ""], [is |-> "show", kind |-> "TABLES", table |-> "", like |-> "x"],
   [is |-> "show", kind |-> "COLUMNS", table |-> "t", like |-> ""],
   [is |-> "copy", table |-> "t", select |-> <<>>, from |-> TRUE, file |-> "x", format |-> "CSV", delimiter |-> ",", header |-> TRUE],
   [is |-> "copy", table |-> "", select |-> <<FromT>>, from |-> FALSE, file |-> "x", format |-> "CSV", delimiter |-> ",", header |-> FALSE],
   [is |-> "alter", table |-> "t", action |-> "ADD", column |-> "a", arg |-> <<"INTEGER">>],
   [is |-> "alter", table |-> "t", action |-> "DROP", column |-> "a", arg |-> <<>>],
   [is |-> "alter", table |-> "t", action |-> "RENAME", column |-> "a", arg |-> <<"b">>],
   [is |-> "BEGIN"], [is |-> "COMMIT"], [is |-> "ROLLBACK"],
   [is |-> "merge", target |-> "t", targetAlias |-> "a", source |-> "u", sourceAlias |-> "b", on |-> Ab,
    hasUpdate |-> TRUE, sets |-> <<Set1("a")>>, hasInsert |-> TRUE, columns |-> <<"a">>, values |-> <<One>>]}

Parses ==
  {Parse(<<JustThis(e)>>, <<" ">>) : e \in Nested}
  \cup {Parse(<<s>>, g) : s \in Statements, g \in Gaps}
  \cup {Parse(<<Select(<<FromT>>), s>>, <<"\n">>) : s \in Statements}
  \cup {[Parse(<<s>>, <<" ">>) EXCEPT !.text = <<";">> \o @ \o <<";", " ", ";">>] : s \in Statements}

-----------------------------------------------------------------------------
(* Results: every type of column, in one chunk or two or boxed, with NULLs.  *)

Is(b) == [null |-> FALSE, bits |-> b]
NullOver(b) == [null |-> TRUE, bits |-> b]

Fetching(types, display, chunks, combined) ==
  [op |-> "fetch", types |-> types, display |-> display, chunks |-> chunks, affected |-> 0 - 1, combined |-> combined,
   fails |-> FALSE, tables |-> <<>>]

OneColumn(chunks) == [k \in DOMAIN chunks |-> [i \in DOMAIN chunks[k] |-> <<chunks[k][i]>>]]
Late  == <<<<Is(1), Is(2)>>, <<>>, <<NullOver(7)>>>>
Early == <<<<NullOver(7), Is(9)>>, <<Is(1)>>>>
Whole == <<<<Is(1), Is(9)>>>>

Plain   == {"BOOLEAN", "FLOAT", "DOUBLE", "DATE", "TIMESTAMP_TZ", "TIME"}
Shapes  == ({<<t, "INVALID">> : t \in Plain} \X {Early})
           \cup ({<<"INTEGER", "INVALID">>, <<"BIGINT", "INVALID">>, <<"VARCHAR", "INVALID">>, <<"INTEGER", "DATE">>, <<"BIGINT", "TIMESTAMP">>}
                 \X {Late, Whole})

Fetches ==
  {Fetching(<<s[1][1]>>, <<s[1][2]>>, OneColumn(s[2]), combined) : s \in Shapes, combined \in BOOLEAN}
  \cup {Fetching(<<"INTEGER", "VARCHAR">>, <<"INVALID", "DATE">>, <<<<<<Is(1), Is(9)>>, <<NullOver(0), Is(1)>>>>>>, FALSE),
        [Fetching(<<"INTEGER">>, <<"INVALID">>, <<>>, FALSE) EXCEPT !.affected = 2],
        [Fetching(<<>>, <<>>, <<>>, FALSE) EXCEPT !.fails = TRUE]}

Browsing == [Fetching(<<>>, <<>>, <<>>, FALSE) EXCEPT !.op = "browse", !.tables = <<[name |-> "t", columns |-> 2], [name |-> "u", columns |-> 1]>>]

ASSUME AreClientQueries == \A q \in Fetches \cup {Browsing} : IsClientQuery(q)

-----------------------------------------------------------------------------
(* Scripts: any statement and then one that would meet what it left, or two *)
(* statements in two threads. Tables t and w of one and two columns and a    *)
(* view v of t.                                                             *)

Ref(is, n, format, place) == [is |-> is, name |-> <<n, 0>>, format |-> format, alias |-> "", place |-> place, fault |-> ""]
As(r, n) == [r EXCEPT !.alias = n]
But(r, fault) == [r EXCEPT !.fault = fault]
From == <<"from", 1>>
InCte == <<"cte", 1>>
Sub == <<"expression", 0>>
Tab(n, place) == Ref("table", n, "", place)
File(n, place) == Ref("file", n, "csv", place)
Reader(format) == Ref("read", "f", format, From)
Nest(place) == Ref("select", "", "", place)
Of(refs) == [is |-> "select", refs |-> refs, ctes |-> <<>>, fails |-> ""]
With(ctes, refs) == [Of(refs) EXCEPT !.ctes = ctes]
Cte(n, recursive) == <<[name |-> n, recursive |-> recursive]>>
Fails(part, s) == [s EXCEPT !.fails = part]
DerivedT == <<Tab("t", <<"derived", 2>>), Nest(From)>>

Answers ==
  {Of(<<r>>) : r \in {Tab("t", From), Tab("v", From), Tab("u", From), But(File("f", From), "missing"), As(File("f", From), "x"),
                      As(File("f", From), "t"), As(Reader("csv"), "x"), But(Reader("parquet"), "late"), As(But(Reader("parquet"), "late"), "x"),
                      Ref("series", "n", "", From), But(Ref("series", "n", "", From), "late")}}
  \cup {Of(<<Ref("file", "f", k, From)>>) : k \in {"csv", "json", "parquet", "arrow", "other"}}
  \cup {Of(<<Reader(k)>>) : k \in {"csv", "json", "parquet", "arrow"}}
  \cup {Of(<<Tab("t", From), File("f", From)>>), Of(<<File("f", From), Tab("v", From)>>),
        Of(<<Tab("v", From), Tab("t", From), As(File("f", From), "x"), File("g", From)>>), Of(<<File("f", From), File("g", From)>>),
        Of(<<Reader("csv"), Reader("csv")>>), Of(<<File("f", From), File("g", <<"from", 2>>)>>),
        Of(<<As(File("f", From), "x"), As(File("g", From), "y")>>),
        Of(DerivedT), Fails("derived", Of(DerivedT)), Of(<<File("f", <<"derived", 2>>), Nest(From)>>),
        Of(<<Tab("t", <<"derived", 2>>), Nest(<<"derived", 3>>), Nest(From), Tab("t", <<"derived", 5>>), Nest(From)>>),
        With(Cte("x", FALSE), <<Tab("t", InCte), Tab("x", From)>>), With(Cte("x", FALSE), <<File("f", InCte), Tab("x", From), Tab("t", From)>>),
        With(Cte("x", FALSE), <<[Reader("csv") EXCEPT !.place = InCte], Tab("x", From)>>),
        With(Cte("x", FALSE), <<As([Reader("csv") EXCEPT !.place = InCte], "y"), Tab("x", From)>>),
        With(Cte("x", FALSE), <<[Reader("json") EXCEPT !.place = InCte], Tab("x", From)>>),
        With(Cte("x", FALSE), <<Tab("t", <<"derived", 2>>), Nest(InCte), Tab("x", From)>>),
        With(Cte("x", FALSE) \o Cte("y", FALSE), <<Tab("t", InCte), Tab("x", <<"cte", 2>>), Tab("y", From)>>),
        With(Cte("t", FALSE), <<File("f", InCte), Tab("t", From)>>), With(Cte("x", TRUE), <<File("f", InCte), Tab("x", From)>>),
        Fails("cte", With(Cte("x", TRUE), <<Tab("t", InCte), Tab("x", From)>>)),
        Fails("cte", With(Cte("x", FALSE), <<File("f", InCte), Tab("x", From)>>)), With(Cte("x", FALSE), <<Tab("v", InCte), Tab("x", From)>>),
        Of(<<Tab("t", From), File("f", Sub)>>), Of(<<Tab("t", From), Ref("file", "f", "arrow", Sub)>>),
        Of(<<Tab("t", From), Tab("t", <<"derived", 3>>), Nest(Sub)>>), Fails("run", Of(<<File("f", From)>>))}

Into(is, n, s) == [is |-> is, name |-> <<n, 0>>, refs |-> s.refs, ctes |-> <<>>, fails |-> s.fails, replace |-> FALSE, unlessExists |-> FALSE, of |-> s]
To(is, n) == [is |-> is, name |-> <<n, 0>>, refs |-> <<>>, ctes |-> <<>>, fails |-> "", unlessExists |-> FALSE, ifExists |-> FALSE]
Alter(t, action, n) == To("alter", t) @@ [action |-> action, column |-> n, to |-> "b"]
OfT == Of(<<Tab("t", From)>>)

Makes ==
  {Into("create as", n, s) : n \in {"t", "u"}, s \in {OfT, Fails("run", OfT), Of(DerivedT), Fails("derived", Of(DerivedT)), Of(<<File("f", From)>>)}}
  \cup {[Into("create as", "t", s) EXCEPT !.replace = TRUE] : s \in {Of(DerivedT), Fails("run", OfT), Of(<<Tab("u", From)>>)} }
  \cup {[Into("create as", "t", OfT) EXCEPT !.unlessExists = TRUE]}
  \cup {[Into("view", n, s) EXCEPT !.replace = r, !.refs = <<>>] : n \in {"u", "t"}, s \in {Of(<<Reader("json")>>), Of(<<File("f", From)>>)}, r \in BOOLEAN}
  \cup {[Into("view", "u", OfT) EXCEPT !.refs = <<>>]}
  \cup {[Into(is, "t", s) EXCEPT !.refs = IF is = "describe" THEN <<>> ELSE s.refs] :
          is \in {"describe", "explain", "copy", "insert"},
          s \in {OfT, Of(<<File("f", From)>>), Of(<<But(File("f", From), "missing")>>)}}
  \cup {Into("insert", "t", Of(DerivedT)), Into("insert", "u", OfT), Into("insert", "t", Fails("run", OfT)), Into("copy", "", Fails("run", OfT)),
        Into("copy", "", Of(<<Reader("csv"), File("g", From)>>))}
  \cup {To(is, n) : is \in {"create", "drop", "truncate", "values", "columns", "tables"}, n \in {"t", "u"}}
  \cup {[To("create", "t") EXCEPT !.unlessExists = TRUE], [To("drop", "u") EXCEPT !.ifExists = TRUE], Alter("v", "add", "b")}
  \cup {Alter(t, action, n) : t \in {"t", "w"}, action \in {"add", "drop", "rename"}, n \in {"a", "b"}}

Then ==
  {Of(<<Tab("t", From)>>), Of(<<Tab("v", From)>>), Of(<<File("f", From)>>), Of(<<Reader("csv"), Reader("parquet")>>), Of(DerivedT),
   With(Cte("x", FALSE), <<File("f", InCte), Tab("x", From)>>), With(Cte("x", TRUE), <<File("f", InCte), Tab("x", From)>>),
   Into("create as", "u", OfT), Into("copy", "", Of(<<File("f", From)>>)), To("drop", "t"), To("tables", "t")}

Beside ==
  {Of(<<File("f", From)>>), Of(<<Tab("v", From), Reader("csv")>>), Of(DerivedT), Of(<<Reader("json")>>), Into("copy", "", Of(<<File("f", From)>>)),
   With(Cte("x", FALSE), <<[Reader("csv") EXCEPT !.place = InCte], Tab("x", From)>>), With(Cte("y", TRUE), <<Tab("t", InCte), Tab("y", From)>>),
   Of(<<Tab("t", From), Tab("t", <<"derived", 3>>), Nest(Sub)>>), Into("create as", "u", Of(DerivedT)), Alter("w", "drop", "a")}

Script(scripts) ==
  [op |-> "session", scripts |-> scripts,
   tables |-> (<<"t", 0>> :> [rows |-> <<"t">>, cols |-> <<"a">>, view |-> <<>>])
              @@ (<<"w", 0>> :> [rows |-> <<"w">>, cols |-> <<"a", "b">>, view |-> <<>>])
              @@ (<<"v", 0>> :> [rows |-> <<>>, cols |-> <<"a">>, view |-> <<OfT>>])]
Scripts == {Script(<<<<s, n>>>>) : s \in Answers \cup Makes, n \in Then} \cup {Script(<<<<s>>, <<n>>>>) : s, n \in Beside}

-----------------------------------------------------------------------------
NoQuery == [op |-> "none"]

InitialState == CASE query.op = "parse" -> P!Unparsed
                  [] query.op \in {"fetch", "browse"} -> Fresh(query)
                  [] query.op = "session" -> N!Fresh(query)
                  [] query.op = "none" -> NoQuery

Asked ==
  \/ "parse" \in Questions /\ query \in Parses
  \/ "fetch" \in Questions /\ query \in Fetches \cup {Browsing}
  \/ "session" \in Questions /\ query \in Scripts

MCInit ==
  /\ Init
  /\ \/ query = NoQuery /\ "view" \in Questions
     \/ Asked /\ file = (CHOOSE f \in Files : TRUE) /\ eligible
  /\ state = InitialState
  /\ out = IF query.op = "parse" THEN <<>> ELSE IF query.op = "session" THEN N!Nothing ELSE Nothing

MCNext ==
  \/ query = NoQuery /\ Next /\ UNCHANGED <<query, state, out>>
  \/ P!Next /\ UNCHANGED vars
  \/ ClientNext /\ UNCHANGED vars
  \/ N!Next /\ UNCHANGED vars

MCSpec == MCInit /\ [][MCNext]_<<vars, query, state, out>>

ParsedAsMeant == P!ParsedAsMeant
ReadsWhatItNames == N!ReadsWhatItNames
CatalogAsTold    == N!CatalogAsTold
=============================================================================
