----------------------------- MODULE MCStorage -----------------------------
(* What is kept in files and in memory: a database file, the format it is  *)
(* written in, CSV files and the rows of a table.  The four share nothing  *)
(* but the disk, so a behaviour is one of one part; the others rest.       *)
EXTENDS DatabaseFile, Checkpoint, DataTable, CsvFile

CONSTANTS saver, visitor, c1, c2, c3, f1, f2, f3, s1, t1, t2,
          Parts           \* the parts that may run

VARIABLE part

-----------------------------------------------------------------------------
(* Databases of up to two tables, two columns and two rows.                *)

AllTypes == {"BOOLEAN", "TINYINT", "SMALLINT", "INTEGER", "DATE", "BIGINT", "TIMESTAMP", "TIME",
             "TIMESTAMP_TZ", "HUGEINT", "UTINYINT", "USMALLINT", "UINTEGER", "UBIGINT",
             "FLOAT", "DOUBLE", "VARCHAR", "BLOB"}

ASSUME AllTypes = Types

InRange(t) == CASE t = "BOOLEAN"  -> {0, 1}
                [] t = "TINYINT"  -> {-128, -1, 127}
                [] t = "SMALLINT" -> {-32768, -1, 32767}
                [] OTHER          -> {-1, 7}

Column(t) == [type |-> t, notNull |-> FALSE, pk |-> FALSE]
Table(cols, rows) == [cols |-> cols, rows |-> rows, live |-> FALSE]

(* One table of one column and at most one row.                            *)
Narrow(of) ==
  UNION {{[a |-> Table(<<Column(t)>>, rows)] :
            rows \in {<<>>} \cup {<<<<v>>>> : v \in InRange(t) \cup {Null}}} : t \in of}

(* Two tables; one has two columns and two rows.                           *)
Wide ==
  {[a |-> Table(<<Column("TINYINT"), Column("VARCHAR")>>, <<<<x, 7>>, <<Null, y>>>>),
    b |-> Table(<<Column("BIGINT")>>, rows)] :
     x \in {-128, 127}, y \in {7, Null}, rows \in {<<>>, <<<<7>>>>}}

(* More tables, or more rows, than Load accepts.                           *)
OverLimit == {[a |-> Table(<<Column("DATE")>>, <<<<7>>, <<7>>, <<7>>>>)],
              [n \in {"a", "b", "c"} |-> Table(<<Column("DATE")>>, <<>>)]}

(* A column constraint, and a live view.                                   *)
Marked == {[a |-> Table(<<[Column("INTEGER") EXCEPT !.pk = TRUE, !.notNull = TRUE]>>, <<<<7>>>>),
            b |-> [Table(<<Column("INTEGER")>>, <<<<7>>>>) EXCEPT !.live = TRUE]]}

SavedCatalogs == Narrow(AllTypes) \cup Wide \cup OverLimit \cup Marked \cup {<<>>}

-----------------------------------------------------------------------------
(* Files of two columns and up to three rows: every kind of cell in one    *)
(* row, cells that break a field or a line in the last of two, columns of  *)
(* one class and of several in three.                                      *)

Simple == {Null, <<>>, <<Letter>>, <<Digit>>, <<Decimal>>, <<Stamp>>}
Broken == {<<Letter, Delimiter>>, <<Letter, NL>>}
Others == {<<Quote, Letter>>, <<Letter, CR>>, <<Minus, Digit>>}

Rows(first, second) == {<<a, b>> : a \in first, b \in second}

OneRow    == {<<r>> : r \in LET every == Simple \cup Broken \cup Others IN Rows(every, every)}
TwoRows   == {<<r, s>> : r \in Rows(Simple, Simple), s \in Rows(Broken, Broken \cup {<<Digit>>})}
ThreeRows ==
  {<<q, r, s>> : q \in Rows({<<Digit>>}, Simple),
                 r \in Rows({<<Minus, Digit>>, Null}, {<<Letter>>, <<Digit>>, Null, <<Letter, NL>>}),
                 s \in Rows({<<Digit>>, <<Letter>>}, {<<Letter>>, <<Digit>>, Null})}

SmallTables == {<<>>} \cup OneRow \cup TwoRows \cup ThreeRows

-----------------------------------------------------------------------------
MCInit ==
  /\ part \in Parts
  /\ Init
  /\ part # "checkpoint" => source = <<>>
  /\ CheckpointInit
  /\ part # "csv" => csv = <<>> /\ form = [header |-> TRUE, eol |-> <<NL>>, ended |-> TRUE]
  /\ CsvInit
  /\ TableInit

MCNext ==
  /\ UNCHANGED part
  /\ \/ part = "database"   /\ Next   /\ UNCHANGED <<imageVars, csvVars, tableVars>>
     \/ part = "checkpoint" /\ CheckpointNext /\ UNCHANGED <<vars, csvVars, tableVars>>
     \/ part = "csv"        /\ CsvNext /\ UNCHANGED <<vars, imageVars, tableVars>>
     \/ part = "table"      /\ TableNext /\ UNCHANGED <<vars, imageVars, csvVars>>

MCSpec == MCInit /\ [][MCNext]_<<part, vars, imageVars, csvVars, tableVars>>

=============================================================================
