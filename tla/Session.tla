------------------------------ MODULE Session ------------------------------
(***************************************************************************)
(* The statements of Connection::Query and the tables they keep in the     *)
(* catalog: the user's own, and the ones a statement makes for a while -   *)
(* for a file, a derived table, a CTE.  Connections in different threads  *)
(* share the catalog and interleave between its calls, each of which locks *)
(* it.  A table is looked up, dropped, created and filled in steps of      *)
(* their own; a GetTable whose only use is to drop what it found is one    *)
(* step with the DropTable.  The numbers in generated names come from      *)
(* plain static ints: reading one and writing it back are two steps.  Rows *)
(* are abstract: a table holds the sequence of the files and tables it was *)
(* filled from.                                                            *)
(*                                                                         *)
(* A statement lists the references of its FROM clauses in refs; a place   *)
(* says whose clause one is in: <<"from", branch>>, <<"cte", i>>,         *)
(* <<"expression", 0>> for a subquery of an expression and <<"derived", i>>*)
(* for the FROM (SELECT ...) that is reference i, listed after its own.    *)
(***************************************************************************)
EXTENDS Integers, Sequences, FiniteSets, SequencesExt, TLC

VARIABLES query, state, out

Named(n) == <<n, 0>>
Threads  == DOMAIN query.scripts
Numbers  == {"__read_csv_", "__cte_read_csv_", "__subq_", "__copy_csv_"}
\* Where a COPY's plan may be allocated.
Addresses == 1 .. 2

\* The catalog: one map from names to tables, a lock around every call.
CreateTable(s, name, cols) ==
  [s EXCEPT !.catalog = (name :> [id |-> s.made, rows |-> <<>>, cols |-> cols, view |-> <<>>]) @@ @, !.made = @ + 1]
DropTable(s, name) == [s EXCEPT !.catalog = [n \in DOMAIN @ \ {name} |-> @[n]]]
Has(s, name) == name \in DOMAIN s.catalog
Plain(rows) == [rows |-> rows, cols |-> <<"a">>, view |-> <<>>]

Fresh(q) == [catalog |-> [n \in DOMAIN q.tables |-> [id |-> 0] @@ q.tables[n]], made |-> 1, uid |-> [c \in DOMAIN q.scripts |-> 0],
             ids |-> [p \in Numbers |-> 0], count |-> [c \in DOMAIN q.scripts |-> 0], clash |-> FALSE,
             frames |-> [c \in DOMAIN q.scripts |-> <<>>], answer |-> [c \in DOMAIN q.scripts |-> <<>>],
             next |-> [c \in DOMAIN q.scripts |-> 1], told |-> [tables |-> q.tables, left |-> {}]]
Nothing == [how |-> "none"]
-----------------------------------------------------------------------------
(* What a statement has to do, in the order of the code                    *)

At(stmt, place) == SelectSeq([i \in DOMAIN stmt.refs |-> i], LAMBDA i : stmt.refs[i].place = place)
In(stmt, kind) == SelectSeq([i \in DOMAIN stmt.refs |-> i], LAMBDA i : stmt.refs[i].place[1] = kind)
Each(do, is) == [n \in DOMAIN is |-> [do |-> do, at |-> is[n]]]
Do(do) == <<[do |-> do, at |-> 0]>>
Branches(stmt) == {stmt.refs[i].place[2] : i \in {j \in DOMAIN stmt.refs : stmt.refs[j].place[1] = "from"}}

\* The reference joined to the right of one, if there is one.
RightOf(stmt, i) == SelectSeq(At(stmt, stmt.refs[i].place), LAMBDA j : j > i)
Upto(is, n) == SubSeq(is, 1, IF Len(is) < n THEN Len(is) ELSE n)

\* One pass over a reference and the one right of it.
Pass(stmt, i) ==
  LET both == <<i>> \o Upto(RightOf(stmt, i), 1)
  IN  [n \in DOMAIN both |-> [do |-> "view", at |-> both[n], root |-> i]] \o Each("csv", both) \o Each("file", <<i>>)
\* Fault: what is joined to the root keeps its file.
PassesRoot(stmt, b) == Do("branch") \o Pass(stmt, At(stmt, <<"from", b>>)[1])

\* The root first, then what is joined to it, from the last to the first.
Passes(stmt, b) ==
  LET is == At(stmt, <<"from", b>>)
  IN  Do("branch") \o FlattenSeq([n \in DOMAIN is |-> Pass(stmt, IF n = 1 THEN is[1] ELSE is[Len(is) + 2 - n])])

\* The reference of the statement that a FROM (SELECT ...) belongs to.
Outermost(stmt, i) ==
  LET RECURSIVE Outer(_)
      Outer(j) == IF stmt.refs[j].place[1] = "derived" THEN Outer(stmt.refs[j].place[2]) ELSE j
  IN  Outer(i)
InExpression(stmt, i) == stmt.refs[Outermost(stmt, i)].place[1] = "expression"
DerivedTables(stmt) ==
  Each("derive", SelectSeq([i \in DOMAIN stmt.refs |-> i], LAMBDA i : stmt.refs[i].is = "select" /\ ~InExpression(stmt, i)))

\* Binding finds the tables of the FROM clauses, then goes through the
\* expressions and makes the derived tables of their subqueries.
Look(list, is) == [n \in DOMAIN is |-> [do |-> "look", at |-> is[n], list |-> list]]
Subqueries(stmt, i) ==
  Each("derive", SelectSeq([j \in DOMAIN stmt.refs |-> j], LAMBDA j : stmt.refs[j].is = "select" /\ Outermost(stmt, j) = i))
Binding(stmt) ==
  LET is == In(stmt, "expression")
  IN  Look("bound", In(stmt, "from")) \o FlattenSeq([n \in DOMAIN is |-> Subqueries(stmt, is[n]) \o Look("bound", <<is[n]>>)])

Drop(name) == <<[do |-> "drop", into |-> name]>>
\* A table is made: list names the ones to drop at the end, from the moment
\* it exists or when it is full.
Make(name, cols, list) == <<[do |-> "create", into |-> name, cols |-> cols, list |-> list]>>
Fill(name, with) ==
  <<with @@ [do |-> "fill", into |-> name, from |-> "", rows |-> <<>>, view |-> <<>>, list |-> "", ref |-> 0, fails |-> FALSE]>>

Cte(stmt, k) ==
  LET is == At(stmt, <<"cte", k>>)
  IN  IF stmt.ctes[k].recursive THEN <<[do |-> "recursive", at |-> k]>>
      ELSE Each("cte_csv", Upto(is, 2)) \o <<[do |-> "cte", at |-> k]>>

SelectTasks(stmt) ==
  Each("nested", In(stmt, "expression") \o In(stmt, "cte"))
  \o FlattenSeq([b \in 1 .. Cardinality(Branches(stmt)) |-> Passes(stmt, b)])
  \o DerivedTables(stmt)
  \o FlattenSeq([k \in DOMAIN stmt.ctes |-> Cte(stmt, k)])
  \o Binding(stmt) \o Do("run")

Replacing(stmt) == IF stmt.replace THEN Drop(stmt.name) ELSE <<>>
Tasks(stmt) ==
  CASE stmt.is = "select"    -> SelectTasks(stmt)
    [] stmt.is = "create"    -> Do("unless exists") \o Make(stmt.name, <<"a">>, "") \o Fill(stmt.name, <<>>) \o Do("end")
    [] stmt.is = "create as" -> Do("unless exists") \o DerivedTables(stmt) \o Replacing(stmt) \o Do("make")
    [] stmt.is = "insert"    -> DerivedTables(stmt) \o Binding(stmt) \o Do("target") \o Do("append")
    [] stmt.is = "view"      -> Do("ask") \o Replacing(stmt) \o Do("keep")
    [] stmt.is = "describe"  -> Do("ask") \o Do("end")
    [] stmt.is = "copy"      -> Each("copy_csv", Upto(In(stmt, "from"), 2)) \o Binding(stmt) \o Do("copy")
    [] stmt.is = "explain"   -> Binding(stmt) \o Do("end")
    [] stmt.is = "alter"     -> Do("alter")
    [] OTHER                 -> Do("change")

Frame(stmt) == [stmt |-> stmt, todo |-> Tasks(stmt), temp_tables |-> <<>>, cte_tables |-> <<>>, cte_temp_tables |-> <<>>, bound |-> <<>>, inner |-> <<>>, entry |-> 0]
-----------------------------------------------------------------------------
(* Statements of one call on the catalog                                   *)

Positions(cols, name) == {i \in DOMAIN cols : cols[i] = name}
Altered(cols, stmt) ==
  CASE stmt.action = "add"    -> Append(cols, stmt.column)
    [] stmt.action = "drop"   -> RemoveAt(cols, CHOOSE i \in Positions(cols, stmt.column) : TRUE)
    [] stmt.action = "rename" -> [cols EXCEPT ![CHOOSE i \in Positions(cols, stmt.column) : TRUE] = stmt.to]
\* The size of a copied chunk is that of its values: without a column, none.
RowsKept(rows, cols) == IF cols = <<>> THEN <<>> ELSE rows

Changed(stmt, s) ==
  CASE stmt.is = "drop"     -> DropTable(s, stmt.name)
    [] stmt.is = "truncate" -> [s EXCEPT !.catalog[stmt.name].rows = <<>>]
    [] stmt.is = "values"   -> [s EXCEPT !.catalog[stmt.name].rows = Append(@, "row")]
    [] OTHER -> s
Possible(stmt, s) == stmt.is = "tables" \/ Has(s, stmt.name)
Passed(stmt, s) == stmt.is = "drop" /\ stmt.ifExists /\ ~Has(s, stmt.name)

ContentsOf(ref) == <<ref.name[1]>>

Prefix(ref) ==
  CASE ref.is = "series"                          -> "__generate_series_"
    [] ref.is = "file"                            -> "__auto_file_"
    [] ref.is = "read" /\ ref.format = "json"     -> "__read_json_"
    [] ref.is = "read" /\ ref.format = "parquet"  -> "__read_parquet_"
    [] ref.is = "read"                            -> "__read_arrow_"

-----------------------------------------------------------------------------
(* What the statements mean, for the properties: the tables the user was   *)
(* told of, and the names that statements leave behind                     *)

PlacesRead(stmt) == In(stmt, "from") \o In(stmt, "expression")
CteNames(stmt) == {Named(stmt.ctes[k].name) : k \in DOMAIN stmt.ctes}

RECURSIVE Meaning(_, _, _)
Meaning(stmt, told, is) ==
  LET Of(i) ==
        LET ref == stmt.refs[i]
            k   == {j \in DOMAIN stmt.ctes : Named(stmt.ctes[j].name) = ref.name}
        IN  IF ref.is = "select" THEN Meaning(stmt, told, At(stmt, <<"derived", i>>))
            ELSE IF ref.is # "table" THEN ContentsOf(ref)
            ELSE IF k # {} THEN Meaning(stmt, told, At(stmt, <<"cte", CHOOSE j \in k : TRUE>>))
            ELSE IF told.tables[ref.name].view = <<>> THEN told.tables[ref.name].rows
            ELSE Meaning(told.tables[ref.name].view[1], told, PlacesRead(told.tables[ref.name].view[1]))
  IN  FlattenSeq([n \in DOMAIN is |-> Of(is[n])])

\* The references each place can have.
Streams == {"csv", "json", "parquet"}
Accepted(stmt, ref, n) ==
  \/ ref.is = "table"
  \/ ref.is = "select" /\ (stmt.is \in {"select", "create as", "insert"} \/ ref.place[1] = "expression")
  \/ ref.is = "file" /\ ref.format \in Streams /\ stmt.is = "select" /\ ref.place[1] # "derived"
  \/ ref.is = "read" /\ stmt.is = "select" /\ ref.place[1] = "from"
  \/ ref.is = "read" /\ ref.format = "csv" /\ stmt.is = "select" /\ ref.place[1] = "cte" /\ n <= 2 /\ ~stmt.ctes[ref.place[2]].recursive
  \/ ref.is \in {"file", "read"} /\ ref.format = "csv" /\ stmt.is = "copy" /\ n <= 2
  \/ ref.is = "series" /\ stmt.is = "select" /\ ref.place[1] = "from"

\* CREATE OR REPLACE drops the table before the SELECT is bound.
ReadsItself(stmt) == stmt.is = "create as" /\ stmt.replace /\ \E i \in DOMAIN stmt.refs : stmt.refs[i].place = <<"from", 1>> /\ stmt.refs[i].name = stmt.name

RECURSIVE Sound(_, _)
Sound(stmt, told) ==
  LET known == DOMAIN told.tables
      target == CASE stmt.is \in {"create as", "view"} -> (stmt.replace \/ stmt.name \notin known) /\ ~ReadsItself(stmt)
                  [] stmt.is = "insert" -> stmt.name \in known
                  [] OTHER -> TRUE
      ofRefs == /\ stmt.fails = ""
                /\ \A i \in DOMAIN stmt.refs :
                      LET ref == stmt.refs[i]
                          n   == CHOOSE m \in DOMAIN At(stmt, ref.place) : At(stmt, ref.place)[m] = i
                      IN  /\ Accepted(stmt, ref, n) /\ ref.fault = ""
                          /\ ref.is = "table" => ref.name \in known \cup CteNames(stmt)
                          /\ (ref.is = "table" /\ ref.name \in known /\ told.tables[ref.name].view # <<>>) =>
                                Sound(told.tables[ref.name].view[1], told)
                /\ \A k \in DOMAIN stmt.ctes : Named(stmt.ctes[k].name) \notin known /\ stmt.ctes[k].name \notin told.left
  IN  IF stmt.is \in {"view", "describe"} THEN target /\ Sound(stmt.of, told)
      ELSE IF stmt.is \in {"select", "create as", "insert", "copy", "explain"}
      THEN (stmt.is = "create as" /\ stmt.unlessExists /\ stmt.name \in known) \/ (target /\ ofRefs)
      ELSE CASE stmt.is = "create" -> stmt.unlessExists \/ stmt.name \notin known
             [] stmt.is = "drop"   -> stmt.ifExists \/ stmt.name \in known
             [] stmt.is = "alter"  -> stmt.name \in known /\ (stmt.action = "add" \/ stmt.column \in ToSet(told.tables[stmt.name].cols))
             [] OTHER -> stmt.is = "tables" \/ stmt.name \in known

\* An alias names a table of its own, whatever had that name.
Aliases(stmt) == {Named(stmt.refs[i].alias) : i \in {j \in DOMAIN stmt.refs : stmt.refs[j].is \in {"file", "read", "series"}
                                                      /\ stmt.refs[j].place[1] # "expression" /\ stmt.refs[j].alias # ""}}
LeftBy(stmt) ==
  LET late == {i \in DOMAIN stmt.refs : stmt.refs[i].fault = "late"}
  IN  {Prefix(stmt.refs[i]) : i \in late} \cup {stmt.refs[i].alias : i \in late}
      \cup (IF stmt.is = "copy" THEN {"__copy_csv_", "__copy_src_"} ELSE {})
      \cup (IF stmt.fails = "derived" \/ \E i \in DOMAIN stmt.refs : stmt.refs[i].is = "select" /\ stmt.refs[i].place[1] = "expression"
             THEN {"__subq_"} ELSE {})
      \cup (IF stmt.fails = "cte" THEN {stmt.ctes[k].name : k \in {j \in DOMAIN stmt.ctes : ~stmt.ctes[j].recursive}} ELSE {})

\* ALTER TABLE keeps the rows - save when it takes the only column away -
\* and not that the table was a view.
ToldAltered(stmt, table) ==
  LET rest == SelectSeq(table.cols, LAMBDA n : n # stmt.column)
  IN  CASE stmt.action = "add"    -> [Plain(table.rows) EXCEPT !.cols = table.cols \o <<stmt.column>>]
        [] stmt.action = "rename" -> [Plain(table.rows) EXCEPT !.cols = [i \in DOMAIN table.cols |-> IF table.cols[i] = stmt.column THEN stmt.to ELSE table.cols[i]]]
        [] stmt.action = "drop"   -> [Plain(IF Len(table.cols) = 1 THEN <<>> ELSE table.rows) EXCEPT !.cols = rest]
ToldChange(stmt, tables) ==
  CASE stmt.is = "create"   -> tables @@ (stmt.name :> Plain(<<>>))
    [] stmt.is = "drop"     -> [n \in DOMAIN tables \ {stmt.name} |-> tables[n]]
    [] stmt.is = "truncate" -> [tables EXCEPT ![stmt.name].rows = <<>>]
    [] stmt.is = "values"   -> [tables EXCEPT ![stmt.name].rows = @ \o <<"row">>]
    [] stmt.is = "alter"    -> [tables EXCEPT ![stmt.name] = ToldAltered(stmt, @)]
    [] OTHER -> tables

MadeOf(stmt, told) == Meaning(stmt, told, In(stmt, "from"))
ToldNext(stmt, told, how) ==
  LET known == DOMAIN told.tables
      keeps(t) == [tables |-> [n \in DOMAIN t \ Aliases(stmt) |-> t[n]], left |-> told.left \cup LeftBy(stmt)]
      made(rows) == (stmt.name :> [Plain(rows) EXCEPT !.view = IF stmt.is = "view" THEN <<stmt.of>> ELSE <<>>]) @@ told.tables
      replaces == stmt.is = "create as" /\ stmt.replace /\ stmt.fails # "derived"
      fills == stmt.is = "create as" /\ stmt.fails = "run" /\ (stmt.replace \/ stmt.name \notin known) /\ ~ReadsItself(stmt)
  IN  keeps(IF how # "ok"
            THEN IF fills THEN made(<<>>) ELSE IF replaces THEN [n \in known \ {stmt.name} |-> told.tables[n]] ELSE told.tables
            ELSE CASE stmt.is = "create as" ->
                        IF stmt.unlessExists /\ stmt.name \in known THEN told.tables ELSE made(MadeOf(stmt, told))
                   [] stmt.is = "view" -> made(<<>>)
                   [] stmt.is = "insert" -> [told.tables EXCEPT ![stmt.name].rows = @ \o MadeOf(stmt, told)]
                   [] OTHER -> ToldChange(stmt, told.tables))
-----------------------------------------------------------------------------
(* The frame of the running Query; one calls another for a view            *)

Top(c) == Last(state.frames[c])
Task(c) == Head(Top(c).todo)
Stmt(c) == Top(c).stmt
Ref(c) == Stmt(c).refs[Task(c).at]

\* The counter that the task at hand numbers its table with, if any.
IsMissing(ref) == ref.fault = "missing"
IsCsv(ref) == ref.is = "read" /\ ref.format = "csv"
Counter(c) ==
  CASE Task(c).do = "csv" /\ IsCsv(Ref(c)) /\ ~IsMissing(Ref(c)) /\ Ref(c).alias = ""     -> "__read_csv_"
    [] Task(c).do = "cte_csv" /\ IsCsv(Ref(c)) /\ ~IsMissing(Ref(c)) /\ Ref(c).alias = "" -> "__cte_read_csv_"
    [] Task(c).do = "derive" -> "__subq_"
    [] Task(c).do = "copy_csv" /\ Ref(c).is \in {"file", "read"} /\ Ref(c).format = "csv" /\ ~IsMissing(Ref(c)) -> "__copy_csv_"
    [] OTHER -> ""
Numbering(c) == state.frames[c] # <<>> /\ Counter(c) # "" /\ state.count[c] = 0
Doing(c, do) == state.frames[c] # <<>> /\ Task(c).do = do /\ ~Numbering(c)

WithTop(s, c, f) == [s EXCEPT !.frames[c] = Append(Front(@), f)]
TopOf(s, c) == Last(s.frames[c])
Popped(s, c) == WithTop(s, c, [TopOf(s, c) EXCEPT !.todo = Tail(@)])
Before(s, c, tasks) == WithTop(s, c, [TopOf(s, c) EXCEPT !.todo = tasks \o @])
Renamed(s, c, i, name) ==
  WithTop(s, c, [TopOf(s, c) EXCEPT !.stmt.refs[i] = [@ EXCEPT !.is = "table", !.name = name]])
Pushed(s, c, list, name) == WithTop(s, c, [TopOf(s, c) EXCEPT ![list] = Append(@, name)])

Goes(c, s) == state' = Popped(s, c) /\ out' = Nothing
GoesOn(c, s, tasks) == state' = Before(Popped(s, c), c, tasks) /\ out' = Nothing

\* Fault: the tables of a CTE's own files are not dropped.
CleansUpHalf(s, f) == FoldLeft(DropTable, s, f.temp_tables \o f.cte_tables)
\* TableCleanupGuard and the guards of CREATE TABLE AS and INSERT.
CleansUp(s, f) == FoldLeft(DropTable, s, f.cte_temp_tables \o f.temp_tables \o f.cte_tables)
CleansAll(s, c) == [FoldLeft(CleansUp, s, Reverse(s.frames[c])) EXCEPT !.frames[c] = <<>>, !.answer[c] = <<>>]

Outcome(c, s, how, answer) ==
  LET stmt == query.scripts[c][state.next[c] - 1]
  IN  /\ state' = [s EXCEPT !.told = ToldNext(stmt, @, how)]
      /\ out' = [how |-> how, stmt |-> stmt, answer |-> answer, told |-> state.told]

Throws(c, s) == Outcome(c, CleansAll(s, c), "threw", <<>>)
\* A table is used that is no more.
Dangles(c) == Outcome(c, CleansAll(state, c), "undefined", <<>>)

\* The result goes to the caller: the Query that asked for it, or the user.
Returns(c, s, rows) ==
  LET ended == [CleansUp(s, TopOf(s, c)) EXCEPT !.frames[c] = Front(@), !.answer[c] = rows]
  IN  IF Len(s.frames[c]) > 1 THEN state' = ended /\ out' = Nothing ELSE Outcome(c, ended, "ok", rows)

\* Names are numbered by a counter of the thread or of the process.  The
\* latter is read, and written with the step that uses the number.
Thread(s, c, prefix)  == <<prefix, s.uid[c]>>
Alias(ref, name)      == IF ref.alias = "" THEN name ELSE Named(ref.alias)
Number(c)   == <<Counter(c), state.count[c]>>
Numbered(c) == IF Counter(c) = "" THEN state ELSE [state EXCEPT !.ids[Counter(c)] = state.count[c], !.count[c] = 0]
ReadCounter(c) ==
  /\ Numbering(c)
  /\ state' = [state EXCEPT !.count[c] = state.ids[Counter(c)] + 1,
                            !.clash = @ \/ \E d \in Threads \ {c} : state.count[d] # 0 /\ Counter(d) = Counter(c)]
  /\ out' = Nothing

\* The three calls for the table of a file, and what then is done with it.
FromFile(c, i, list) == [rows |-> ContentsOf(Stmt(c).refs[i]), list |-> list, ref |-> i, fails |-> Stmt(c).refs[i].fault = "late"]
Temporary(c, i, name) == Drop(name) \o Make(name, <<"a">>, "") \o Fill(name, FromFile(c, i, "temp_tables"))

DropOld(c) == Doing(c, "drop") /\ Goes(c, DropTable(state, Task(c).into))
Create(c) ==
  /\ Doing(c, "create")
  /\ LET task == Task(c)
         s == WithTop(CreateTable(state, task.into, task.cols), c, [Top(c) EXCEPT !.entry = state.made])
     IN  IF Has(state, task.into) THEN Throws(c, state)
         ELSE Goes(c, IF task.list = "" THEN s ELSE Pushed(s, c, task.list, task.into))

\* The storage of the table just created; an exception leaves the table,
\* which no list may name yet.
Pointed(s, id) == {n \in DOMAIN s.catalog : s.catalog[n].id = id}
Alive(ids) == \A n \in DOMAIN ids : Pointed(state, ids[n]) # {}
RowsAt(ids) == FlattenSeq([n \in DOMAIN ids |-> state.catalog[CHOOSE m \in Pointed(state, ids[n]) : TRUE].rows])
FillTable(c) ==
  /\ Doing(c, "fill")
  /\ LET task   == Task(c)
         ids    == IF task.from = "" THEN <<>> ELSE Top(c)[task.from]
         filled == [state EXCEPT !.catalog[task.into].rows = task.rows \o RowsAt(ids), !.catalog[task.into].view = task.view]
         named  == IF task.ref = 0 THEN filled ELSE Renamed(filled, c, task.ref, task.into)
     IN  IF task.fails THEN Throws(c, state)
         ELSE IF ~Alive(<<Top(c).entry>> \o ids) THEN Dangles(c)
         ELSE Goes(c, IF task.list = "" THEN named ELSE Pushed(named, c, task.list, task.into))
-----------------------------------------------------------------------------
(* Files: below the top level, then at the top                             *)

\* materialize_nested_file
NestedFile(c) ==
  /\ Doing(c, "nested")
  /\ LET s == [state EXCEPT !.uid[c] = @ + 1]
     IN  IF Ref(c).is # "file" THEN Goes(c, state)
         ELSE IF Ref(c).format \notin {"csv", "json", "parquet"} THEN Goes(c, s)
         ELSE IF IsMissing(Ref(c)) THEN Throws(c, s)
         ELSE GoesOn(c, s, Temporary(c, Task(c).at, Thread(s, c, "__nested_file_")))

Branch(c) == Doing(c, "branch") /\ Goes(c, [state EXCEPT !.uid[c] = @ + 1])

IsTable(ref) == ref.is = "table"
IsView(s, name) == Has(s, name) /\ s.catalog[name].view # <<>>

\* expand_view: the view's own query, then its rows.
ExpandView(c) ==
  /\ Doing(c, "view")
  /\ LET name == Ref(c).name
         asks == [do |-> "refresh", at |-> Task(c).at, id |-> state.catalog[name].id]
     IN  IF IsTable(Stmt(c).refs[Task(c).root]) /\ IsTable(Ref(c)) /\ IsView(state, name)
         THEN /\ state' = [Before(Popped(state, c), c, <<asks>>)
                             EXCEPT !.frames[c] = Append(@, Frame(state.catalog[name].view[1]))]
              /\ out' = Nothing
         ELSE Goes(c, state)
RefreshView(c) ==
  /\ Doing(c, "refresh")
  /\ LET name == Ref(c).name
     IN  IF Has(state, name) /\ state.catalog[name].id = Task(c).id
         THEN Goes(c, [state EXCEPT !.catalog[name].rows = state.answer[c]])
         ELSE Dangles(c)

\* process_read_csv
ReadCsv(c) ==
  /\ Doing(c, "csv")
  /\ IF ~IsCsv(Ref(c)) THEN Goes(c, state)
     ELSE IF IsMissing(Ref(c)) THEN Throws(c, state)
     ELSE GoesOn(c, Numbered(c), Temporary(c, Task(c).at, Alias(Ref(c), Number(c))))

\* The table exists before its last check; only then is it to be dropped.
\* 'f.arrow' becomes a READ_ARROW that nothing looks at any more.
FileTable(c) ==
  /\ Doing(c, "file")
  /\ LET ref == Ref(c)
     IN  IF ref.is \notin {"file", "read", "series"} \/ (ref.is = "file" /\ ref.format = "arrow") THEN Goes(c, state)
         ELSE IF IsMissing(ref) \/ (ref.is = "file" /\ ref.format = "other") THEN Throws(c, state)
         ELSE GoesOn(c, state, Temporary(c, Task(c).at, Alias(ref, Thread(state, c, Prefix(ref)))))
-----------------------------------------------------------------------------
(* A SELECT into a new table: bound, created, then filled                  *)

Unbound(s, c) == WithTop(s, c, [TopOf(s, c) EXCEPT !.inner = <<>>])
Materialize(is, name, early, with) ==
  Look("inner", is) \o Make(name, <<"a">>, early) \o Fill(name, [from |-> "inner"] @@ with)

\* MaterializeFromSubqueries; that of an expression is never dropped.
DerivedTable(c) ==
  /\ Doing(c, "derive")
  /\ GoesOn(c, Unbound(Numbered(c), c),
            Materialize(At(Stmt(c), <<"derived", Task(c).at>>), Number(c), "",
                        [list |-> IF InExpression(Stmt(c), Task(c).at) THEN "" ELSE "cte_tables", ref |-> Task(c).at,
                         fails |-> Stmt(c).fails = "derived"]))

\* CREATE TABLE, CREATE TABLE ... AS.
UnlessExists(c) ==
  /\ Doing(c, "unless exists")
  /\ IF Stmt(c).unlessExists /\ Has(state, Stmt(c).name) THEN Returns(c, state, <<>>) ELSE Goes(c, state)
CreateTableAs(c) ==
  /\ Doing(c, "make")
  /\ IF Has(state, Stmt(c).name) THEN Throws(c, state)
     ELSE GoesOn(c, Unbound(state, c), Materialize(At(Stmt(c), <<"from", 1>>), Stmt(c).name, "", [fails |-> Stmt(c).fails = "run"]) \o Do("end"))

\* The file of a CTE; nothing is dropped for it.
CteCsv(c) ==
  /\ Doing(c, "cte_csv")
  /\ LET name == Alias(Ref(c), Number(c))
     IN  IF ~IsCsv(Ref(c)) THEN Goes(c, state)
         ELSE IF IsMissing(Ref(c)) THEN Throws(c, state)
         ELSE GoesOn(c, Numbered(c), Make(name, <<"a">>, "") \o Fill(name, FromFile(c, Task(c).at, "cte_temp_tables")))
IntoCte(c, early, late) ==
  GoesOn(c, Unbound(state, c),
         Materialize(At(Stmt(c), <<"cte", Task(c).at>>), Named(Stmt(c).ctes[Task(c).at].name), early, [list |-> late, fails |-> Stmt(c).fails = "cte"]))
CteTable(c) == Doing(c, "cte") /\ IntoCte(c, "", "cte_tables")
\* The one that refers to itself is to be dropped from the moment it exists.
RecursiveCte(c) == Doing(c, "recursive") /\ IntoCte(c, "cte_tables", "")
-----------------------------------------------------------------------------
(* Binding and running                                                     *)

BindTable(c) ==
  /\ Doing(c, "look")
  /\ IF IsTable(Ref(c)) /\ Has(state, Ref(c).name) THEN Goes(c, Pushed(state, c, Task(c).list, state.catalog[Ref(c).name].id))
     ELSE Throws(c, state)

\* The plan keeps pointers to the tables it found.
Run(c) ==
  /\ Doing(c, "run")
  /\ IF ~Alive(Top(c).bound) THEN Dangles(c)
     ELSE IF Stmt(c).fails = "run" THEN Throws(c, state)
     ELSE Returns(c, state, RowsAt(Top(c).bound))

\* INSERT ... SELECT
Target(c) ==
  /\ Doing(c, "target")
  /\ IF Has(state, Stmt(c).name) THEN Goes(c, WithTop(state, c, [Top(c) EXCEPT !.entry = state.catalog[Stmt(c).name].id])) ELSE Throws(c, state)
AppendRows(c) ==
  /\ Doing(c, "append")
  /\ IF ~Alive(<<Top(c).entry>> \o Top(c).bound) THEN Dangles(c)
     ELSE IF Stmt(c).fails = "run" THEN Throws(c, state)
     ELSE Returns(c, [state EXCEPT !.catalog[Stmt(c).name].rows = @ \o RowsAt(Top(c).bound)], <<>>)

\* COPY (SELECT ...) TO, whose tables stay.  The table of the rows is named
\* by the address of the plan, which is another's once the rows are there.
CopyCsv(c) ==
  /\ Doing(c, "copy_csv")
  /\ IF Ref(c).is \notin {"file", "read"} \/ Ref(c).format # "csv" THEN Goes(c, state)
     ELSE IF IsMissing(Ref(c)) THEN Throws(c, state)
     ELSE GoesOn(c, Numbered(c), Make(Number(c), <<"a">>, "") \o Fill(Number(c), FromFile(c, Task(c).at, "")))

CopiesInto(d, name) == state.frames[d] # <<>> /\ \E n \in DOMAIN Top(d).todo : Top(d).todo[n].do = "write" /\ Top(d).todo[n].into = name
Copy(c) ==
  /\ Doing(c, "copy")
  /\ \E a \in Addresses :
       LET name == <<"__copy_src_", a>>
           others == {d \in Threads : CopiesInto(d, name)}
       IN  /\ \A d \in others : Task(d).do = "write"
           /\ GoesOn(c, [state EXCEPT !.clash = @ \/ others # {}],
                     Drop(name) \o Make(name, <<"a">>, "") \o Fill(name, [from |-> "bound", fails |-> Stmt(c).fails = "run"])
                     \o <<[do |-> "write", into |-> name]>>)
WriteFile(c) ==
  /\ Doing(c, "write")
  /\ IF Has(state, Task(c).into) THEN Returns(c, state, state.catalog[Task(c).into].rows) ELSE Throws(c, state)

\* CREATE VIEW and DESCRIBE 'file' run a query of their own.
Ask(c) ==
  /\ Doing(c, "ask")
  /\ state' = [Popped(state, c) EXCEPT !.frames[c] = Append(@, Frame(Stmt(c).of))]
  /\ out' = Nothing
KeepView(c) ==
  /\ Doing(c, "keep")
  /\ GoesOn(c, state, Make(Stmt(c).name, <<"a">>, "") \o Fill(Stmt(c).name, [rows |-> state.answer[c], view |-> <<Stmt(c).of>>]) \o Do("end"))
Ends(c) == Doing(c, "end") /\ Returns(c, state, <<>>)

\* The rows are copied, then the table is replaced by one of the same name;
\* what is not a column or a row, a view's query, is not kept.
AlterTable(c) ==
  /\ Doing(c, "alter")
  /\ LET name  == Stmt(c).name
         table == state.catalog[name]
         cols  == Altered(table.cols, Stmt(c))
     IN  IF ~Has(state, name) \/ (Stmt(c).action # "add" /\ Positions(table.cols, Stmt(c).column) = {}) THEN Throws(c, state)
         ELSE GoesOn(c, state, Drop(name) \o Make(name, cols, "") \o Fill(name, [rows |-> RowsKept(table.rows, cols)]) \o Do("end"))
Listed(stmt, s) ==
  CASE stmt.is = "columns" -> s.catalog[stmt.name].cols
    [] stmt.is = "tables"  -> SetToSeq({n[1] : n \in DOMAIN s.catalog})
    [] OTHER -> <<>>
Change(c) ==
  /\ Doing(c, "change")
  /\ IF Passed(Stmt(c), state) THEN Returns(c, state, <<>>)
     ELSE IF ~Possible(Stmt(c), state) THEN Throws(c, state)
     ELSE Returns(c, Changed(Stmt(c), state), Listed(Stmt(c), state))
-----------------------------------------------------------------------------
Begin(c) ==
  /\ state.frames[c] = <<>> /\ state.next[c] <= Len(query.scripts[c])
  /\ state' = [state EXCEPT !.frames[c] = <<Frame(query.scripts[c][state.next[c]])>>, !.next[c] = @ + 1]
  /\ out' = Nothing

Steps(c) ==
  \/ Begin(c) \/ NestedFile(c) \/ Branch(c) \/ ExpandView(c) \/ RefreshView(c) \/ ReadCsv(c) \/ FileTable(c)
  \/ ReadCounter(c) \/ DropOld(c) \/ Create(c) \/ FillTable(c)
  \/ DerivedTable(c) \/ UnlessExists(c) \/ CreateTableAs(c) \/ CteCsv(c) \/ CteTable(c) \/ RecursiveCte(c)
  \/ BindTable(c) \/ Run(c) \/ Target(c) \/ AppendRows(c) \/ CopyCsv(c) \/ Copy(c) \/ WriteFile(c)
  \/ Ask(c) \/ KeepView(c) \/ Ends(c) \/ AlterTable(c) \/ Change(c)

Next == query.op = "session" /\ UNCHANGED query /\ \E c \in Threads : Steps(c)
-----------------------------------------------------------------------------
(* Properties                                                              *)

\* The references whose table is named by the counter of the thread.
Counted(ref) == ref.alias = "" /\ (ref.is \in {"file", "series"} \/ (ref.is = "read" /\ ref.format # "csv"))
Query(stmt) == IF stmt.is \in {"view", "describe"} THEN stmt.of ELSE stmt
Temporaries(stmt) ==
  LET counted == {stmt.refs[i] : i \in {j \in DOMAIN stmt.refs : stmt.is # "copy" /\ Counted(stmt.refs[j])}}
  IN  {Named(IF r.place[1] = "from" THEN Prefix(r) ELSE "__nested_file_") : r \in counted} \cup Aliases(stmt) \cup CteNames(stmt)
Reads(stmt) == {stmt.refs[i].name : i \in {j \in DOMAIN stmt.refs : stmt.refs[j].is = "table"}}
IsViewName(n) == n \in DOMAIN query.tables /\ query.tables[n].view # <<>>

\* The tables a statement makes, changes or, for a view, refills; and those
\* that it reads or that a view it reads is made of.
Touches(stmt) ==
  Temporaries(Query(stmt)) \cup {n \in Reads(Query(stmt)) : IsViewName(n)}
  \cup (IF stmt.is \in {"select", "describe", "explain", "copy"} THEN {} ELSE {stmt.name})
Uses(stmt) ==
  Touches(stmt) \cup Reads(Query(stmt)) \cup UNION {Reads(query.tables[n].view[1]) : n \in {m \in Reads(Query(stmt)) : IsViewName(m)}}

\* Threads none of which touches a table that another one uses, no two of
\* which were inside the increment of one counter or in a COPY with a plan
\* at one address ...
Apart ==
  /\ ~state.clash
  /\ \A c, d \in Threads : c # d =>
       \A i \in DOMAIN query.scripts[c], j \in DOMAIN query.scripts[d] :
         Touches(query.scripts[c][i]) \cap Uses(query.scripts[d][j]) = {}
\* ... a statement that asks for no two tables of one name ...
SameName(stmt) ==
  \E i, j \in DOMAIN stmt.refs :
    /\ i < j /\ stmt.refs[i].place = stmt.refs[j].place /\ stmt.refs[i].place[1] = "from" /\ stmt.is = "select"
    /\ Counted(stmt.refs[i]) /\ Counted(stmt.refs[j]) /\ Prefix(stmt.refs[i]) = Prefix(stmt.refs[j])
\* ... and reads a view only where a SELECT expands it.
Stale(stmt, told) ==
  \E i \in DOMAIN stmt.refs :
    /\ stmt.refs[i].is = "table" /\ stmt.refs[i].name \in DOMAIN told.tables /\ told.tables[stmt.refs[i].name].view # <<>>
    /\ stmt.is # "select" \/ stmt.refs[i].place[1] # "from"

(***************************************************************************)
(* A statement reads the tables and the files that it names, and is        *)
(* refused exactly when one of them is not there or cannot be used in its  *)
(* place, whatever the statements before it did and wherever the steps of  *)
(* another thread fall between its own: as long as no two increments of a  *)
(* counter of Connection::Query overlap and no plan's address is given     *)
(* away while it still names a table, the generated names never meet.      *)
(***************************************************************************)
ReadsWhatItNames ==
  (query.op = "session" /\ out.how # "none" /\ Apart) =>
    LET stmt == IF out.stmt.is = "describe" THEN out.stmt.of ELSE out.stmt
    IN  stmt.is \in {"select", "create as", "insert", "copy"} =>
          \/ (SameName(stmt) \/ Stale(stmt, out.told))
          \/ /\ out.how = IF Sound(out.stmt, out.told) THEN "ok" ELSE "threw"
             /\ (out.how = "ok" /\ out.stmt.is \in {"select", "copy"}) => out.answer = Meaning(stmt, out.told, PlacesRead(stmt))

(***************************************************************************)
(* Between statements the catalog has the tables that the statements made  *)
(* and their rows, however each of them ended, and of the tables that they *)
(* made for a while only those that are known to stay: a COPY's, a derived *)
(* table's below an expression, and the table whose filling failed.  What  *)
(* is made of a table by ALTER TABLE keeps the rows, however the columns   *)
(* are changed, save when no column is left.                               *)
(***************************************************************************)
CatalogAsTold ==
  (query.op = "session" /\ Apart /\ \A c \in Threads : state.frames[c] = <<>>) =>
    /\ DOMAIN state.told.tables \subseteq DOMAIN state.catalog
    /\ \A n \in DOMAIN state.catalog :
         IF n \in DOMAIN state.told.tables
         THEN LET table == state.catalog[n]
                  told  == state.told.tables[n]
              IN  table.view = told.view /\ table.cols = told.cols /\ (told.view = <<>> => table.rows = told.rows)
         ELSE n[1] \in state.told.left
=============================================================================
