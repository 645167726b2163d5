---------------------------- MODULE Checkpoint -----------------------------
(***************************************************************************)
(* Checkpoint::Save and Checkpoint::Load: a catalog is written to a file   *)
(* as a sequence of fields, the file may lose its tail, and a load builds  *)
(* a catalog from what is left or throws.                                  *)
(*                                                                         *)
(* A value is an integer, whatever its type, or Null; a string, a date or  *)
(* a double is the integer that names it.  What matters is which bytes a   *)
(* type is written as and which member of the Value union is read back.    *)
(***************************************************************************)
EXTENDS Vectors, Integers, Sequences, FiniteSets

CONSTANTS Catalogs,   \* the catalogs that may be saved
          Garbage,
          MaxTables,  \* Load refuses a file of more tables (100 000) ...
          MaxRows     \* ... or a table of more rows (10^9); Save writes both

VARIABLES phase,      \* "save", "load", "loaded" or "thrown"
          source,     \* the catalog being saved: name -> table
          left,       \* the names still to be saved
          file,       \* the fields written so far
          lost,       \* whether the file has lost its tail
          pos,        \* the next field Load reads
          counts,     \* the tables and the rows Load still expects
          loaded      \* the catalog Load has built

imageVars == <<phase, source, left, file, lost, pos, counts, loaded>>
-----------------------------------------------------------------------------
(* Values                                                                  *)

Unsigned(x, n) == x % n
Signed(x, n)   == ((x + n \div 2) % n) - n \div 2

(* The member of the union a vector of this type stores.                   *)
PhysicalType ==
  [BOOLEAN |-> "boolean", TINYINT |-> "int8", SMALLINT |-> "int16",
   INTEGER |-> "int32", DATE |-> "int32",
   BIGINT |-> "int64", TIMESTAMP |-> "int64", TIME |-> "int64",
   TIMESTAMP_TZ |-> "int64", HUGEINT |-> "int128", UTINYINT |-> "uint8",
   USMALLINT |-> "uint16", UINTEGER |-> "uint32", UBIGINT |-> "uint64",
   FLOAT |-> "float", DOUBLE |-> "double", VARCHAR |-> "string", BLOB |-> "string"]

Types == DOMAIN PhysicalType

(* The types WriteValue and ReadValue have a case for; the others go       *)
(* through their text.                                                     *)
Encoded == {"BOOLEAN", "TINYINT", "SMALLINT", "INTEGER", "DATE", "BIGINT",
            "TIMESTAMP", "TIME", "FLOAT", "DOUBLE", "VARCHAR", "BLOB"}

WriteValue(t, v) ==
  IF v = Null THEN <<"null">>
  ELSE CASE t = "BOOLEAN"  -> <<"u8", IF v = 0 THEN 0 ELSE 1>>
         [] t = "TINYINT"  -> <<"u8", Unsigned(v, 256)>>
         [] OTHER          -> <<"bytes", v>>

(* The member that the constructor ReadValue calls sets.                   *)
ReadMember(t) == IF t \in Encoded THEN PhysicalType[t] ELSE "string"

(* Fault: a byte is read back without its sign.                            *)
ReadUnsigned(t, b) ==
  IF b = <<"null">> THEN Null
  ELSE IF t = "SMALLINT" THEN Signed(b[2], 65536) ELSE b[2]

ReadValue(t, b) ==
  IF b = <<"null">> THEN Null
  ELSE CASE t = "TINYINT"  -> Signed(b[2], 256)
         [] t = "SMALLINT" -> Signed(b[2], 65536)
         [] OTHER          -> b[2]

(* Vector::SetValue reads the member its own type uses.  A Value made from *)
(* a string has bigint_ = 0, and the upper half of its hugeint_ is never   *)
(* set: the column gets 0, or something else.                              *)
SetValue(t, v) ==
  IF v = Null \/ ReadMember(t) = PhysicalType[t] THEN {v}
  ELSE IF PhysicalType[t] = "int128" THEN {0, Garbage} ELSE {0}

Restored(t, v) == SetValue(t, ReadValue(t, WriteValue(t, v)))

(* A vector holds values of its type.                                      *)
HasWidth(v, n) == -(n \div 2) <= v /\ v < n \div 2
Fits(t, v) ==
  \/ v = Null
  \/ /\ t = "BOOLEAN"  => v \in {0, 1}
     /\ t = "TINYINT"  => HasWidth(v, 256)
     /\ t = "SMALLINT" => HasWidth(v, 65536)

IsTable(table) ==
  /\ table \in [cols : Seq([type : Types, notNull : BOOLEAN, pk : BOOLEAN]),
                rows : Seq(Seq(Int \cup {Null})), live : BOOLEAN]
  /\ \A r \in DOMAIN table.rows :
       /\ DOMAIN table.rows[r] = DOMAIN table.cols
       /\ \A i \in DOMAIN table.cols : Fits(table.cols[i].type, table.rows[r][i])

ASSUME CheckpointAssumption ==
  /\ MaxTables \in Nat /\ MaxRows \in Nat
  /\ \A catalog \in Catalogs :
       IsFiniteSet(DOMAIN catalog) /\ \A n \in DOMAIN catalog : IsTable(catalog[n])
-----------------------------------------------------------------------------
(* Save: the tables in the order of a hash map, so in any order.  Of a     *)
(* column only its name and type are written, and nothing says that a      *)
(* table is a view.                                                        *)

ColumnTypes(table) == [i \in DOMAIN table.cols |-> table.cols[i].type]

Fields(n) ==
  LET table == source[n]
  IN  <<[is |-> "table", name |-> n, types |-> ColumnTypes(table)],
        [is |-> "rows", n |-> Len(table.rows)]>>
      \o [r \in DOMAIN table.rows |->
            [is |-> "row",
             cells |-> [i \in DOMAIN table.cols |->
                          WriteValue(table.cols[i].type, table.rows[r][i])]]]

CheckpointInit ==
        /\ source \in Catalogs
        /\ phase = "save"
        /\ left = DOMAIN source
        /\ file = <<[is |-> "tables", n |-> Cardinality(DOMAIN source)]>>
        /\ lost = FALSE
        /\ pos = 1
        /\ counts = [tables |-> 0, rows |-> 0]
        /\ loaded = [n \in {} |-> {}]

SaveTable(n) == /\ phase = "save" /\ n \in left
                /\ file' = file \o Fields(n)
                /\ left' = left \ {n}
                /\ UNCHANGED <<phase, source, lost, pos, counts, loaded>>

(* Save returns and the file is loaded, possibly after it lost its tail: a *)
(* crash before the last flush, or a flush whose error was ignored.        *)
Reopen == /\ phase = "save"
          /\ \/ left = {} /\ UNCHANGED <<file, lost>>
             \/ \E k \in 0 .. Len(file) :
                  /\ k < Len(file) \/ left # {}
                  /\ file' = SubSeq(file, 1, k)
                  /\ lost' = TRUE
          /\ phase' = "load"
          /\ UNCHANGED <<source, left, pos, counts, loaded>>
-----------------------------------------------------------------------------
(* Load                                                                    *)

Field == file[pos]
Has(kind) == pos \in DOMAIN file /\ Field.is = kind
Step == pos' = pos + 1

LoadTableCount == /\ phase = "load" /\ pos = 1 /\ Has("tables")
                  /\ Field.n <= MaxTables
                  /\ counts' = [counts EXCEPT !.tables = Field.n]
                  /\ Step
                  /\ UNCHANGED <<phase, source, left, file, lost, loaded>>

Between == phase = "load" /\ pos > 1 /\ counts.rows = 0

NewTable(types) ==
  [cols |-> [i \in DOMAIN types |-> [type |-> types[i], notNull |-> FALSE, pk |-> FALSE]],
   rows |-> <<>>, live |-> FALSE]

(* The new table has no constraints, and the row count follows at once.    *)
LoadTable ==
  /\ Between /\ counts.tables > 0
  /\ Has("table") /\ pos + 1 \in DOMAIN file
  /\ file[pos + 1].n <= MaxRows
  /\ loaded' = [n \in DOMAIN loaded \cup {Field.name} |->
                  IF n = Field.name THEN NewTable(Field.types) ELSE loaded[n]]
  /\ counts' = [tables |-> counts.tables - 1, rows |-> file[pos + 1].n]
  /\ pos' = pos + 2
  /\ UNCHANGED <<phase, source, left, file, lost>>

LastTable == LET at == CHOOSE i \in 1 .. pos - 1 :
                         /\ file[i].is = "table"
                         /\ \A j \in i + 1 .. pos - 1 : file[j].is # "table"
             IN  file[at].name

LoadRow ==
  /\ phase = "load" /\ counts.rows > 0 /\ Has("row")
  /\ LET t == LastTable
         type(i) == loaded[t].cols[i].type
     IN  \E row \in [DOMAIN Field.cells -> UNION {SetValue(type(i), ReadValue(type(i), Field.cells[i])) :
                                                    i \in DOMAIN Field.cells}] :
           /\ \A i \in DOMAIN row :
                row[i] \in SetValue(type(i), ReadValue(type(i), Field.cells[i]))
           /\ loaded' = [loaded EXCEPT ![t].rows = Append(@, row)]
  /\ counts' = [counts EXCEPT !.rows = @ - 1]
  /\ Step
  /\ UNCHANGED <<phase, source, left, file, lost>>

(* Fault: the end of the file is the end of the tables.                    *)
FinishAtEnd == /\ Between /\ (counts.tables = 0 \/ pos \notin DOMAIN file)
               /\ phase' = "loaded"
               /\ UNCHANGED <<source, left, file, lost, pos, counts, loaded>>

Finish == /\ Between /\ counts.tables = 0
          /\ phase' = "loaded"
          /\ UNCHANGED <<source, left, file, lost, pos, counts, loaded>>

(* A read past the end of the file or a count over its limit throws, and   *)
(* so does the constructor of the database.                                *)
Throw == /\ phase = "load"
         /\ ~(Between /\ counts.tables = 0)
         /\ \/ pos \notin DOMAIN file
            \/ Has("tables") /\ Field.n > MaxTables
            \/ Between /\ (pos + 1 \in DOMAIN file => file[pos + 1].n > MaxRows)
         /\ phase' = "thrown"
         /\ UNCHANGED <<source, left, file, lost, pos, counts, loaded>>

CheckpointNext ==
        \/ \E n \in left : SaveTable(n)
        \/ Reopen
        \/ LoadTableCount \/ LoadTable \/ LoadRow \/ Finish \/ Throw

CheckpointSpec == CheckpointInit /\ [][CheckpointNext]_imageVars
-----------------------------------------------------------------------------
(* A file that lost its tail is never taken for a smaller database.        *)
TornIsRejected == phase = "loaded" => ~lost

(* A complete file is refused for its size only, and what is loaded from   *)
(* it has every table, column type and row that was saved; a table without *)
(* constraints that is no live view, all of whose columns have a type the  *)
(* format knows, comes back as it was.                                     *)
Plain(table) == /\ ~table.live
                /\ \A i \in DOMAIN table.cols :
                     /\ table.cols[i].type \in Encoded
                     /\ ~table.cols[i].notNull /\ ~table.cols[i].pk

TooLarge == \/ Cardinality(DOMAIN source) > MaxTables
            \/ \E n \in DOMAIN source : Len(source[n].rows) > MaxRows

RoundTrip ==
  /\ phase = "thrown" => lost \/ TooLarge
  /\ phase = "loaded" =>
       /\ DOMAIN loaded = DOMAIN source
       /\ \A n \in DOMAIN source :
            /\ ColumnTypes(loaded[n]) = ColumnTypes(source[n])
            /\ Len(loaded[n].rows) = Len(source[n].rows)
            /\ Plain(source[n]) => loaded[n] = source[n]
=============================================================================
