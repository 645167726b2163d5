----------------------------- MODULE ClientApi -----------------------------
(* The C API: the result of a query, the cells and columns a client fetches *)
(* from it in any order, and the pointers it is given.                      *)
(*                                                                          *)
(* A cell of a chunk is whether it is NULL and the bits its place holds; a  *)
(* value is a cell that knows its type. Bits are an integer; of a VARCHAR   *)
(* they name the text. A text is what formats to it: a type and bits.       *)
EXTENDS Integers, Sequences, SequencesExt

CONSTANTS MaxCalls,    \* pointers a client asks for
          LastInline,  \* VARCHARs above it do not fit into a std::string itself
          Wide         \* 2^31: the first number that is no int32

ASSUME ClientApiAssumption == MaxCalls \in Nat /\ LastInline \in Int /\ Wide \in Nat \ {0}

VARIABLES query, state, out

clientVars == <<query, state, out>>

NoText     == [of |-> "", bits |-> 0]
NullText   == [of |-> "NULL", bits |-> 0]
Nothing    == [call |-> "none"]

-----------------------------------------------------------------------------
(* The result of a query. *)

\* The types whose values a client can have.
ResultTypes == {"BOOLEAN", "INTEGER", "BIGINT", "FLOAT", "DOUBLE", "VARCHAR", "DATE", "TIME", "TIMESTAMP", "TIMESTAMP_TZ"}

Cell       == [null : BOOLEAN, bits : Int]
TableEntry == [name : STRING, columns : Nat]

\* What a client asks, and what the plan returns for it: nothing if the query fails.
IsClientQuery(q) ==
  /\ q.op \in {"fetch", "browse"}
  /\ q.types \in Seq(ResultTypes) /\ q.display \in Seq(ResultTypes \cup {"INVALID"}) /\ Len(q.display) = Len(q.types)
  /\ q.chunks \in Seq(Seq([DOMAIN q.types -> Cell]))
  /\ q.affected \in Int /\ q.combined \in BOOLEAN /\ q.fails \in BOOLEAN
  /\ q.fails => q.types = <<>> /\ q.chunks = <<>> /\ q.affected < 0
  /\ q.tables \in Seq(TableEntry)

\* The engine carries the dates of a Parquet file as integers of the same width.
Fits(display, type) == <<display, type>> \in {<<"DATE", "INTEGER">>, <<"TIMESTAMP", "BIGINT">>}

Retagged(display, types) ==
  [c \in DOMAIN types |-> IF Fits(display[c], types[c]) THEN display[c] ELSE types[c]]

\* Vector::GetValue.
BoxedType(type) == IF type = "TIMESTAMP_TZ" THEN "TIMESTAMP" ELSE type
Boxed(cell, type) ==
  IF cell.null THEN [type |-> "SQLNULL", null |-> TRUE, bits |-> 0]
  ELSE [type |-> BoxedType(type), null |-> FALSE, bits |-> cell.bits]

Cells(result) == FlattenSeq(result.chunks)

MaterialisedRows(result) ==
  IF result.rows # <<>> THEN result.rows
  ELSE LET cells == Cells(result)
       IN  [r \in DOMAIN cells |-> [c \in DOMAIN result.types |-> Boxed(cells[r][c], result.types[c])]]

Counted(n) == [types |-> <<"BIGINT">>, chunks |-> <<>>, rows |-> <<<<Boxed([null |-> FALSE, bits |-> n], "BIGINT")>>>>]

\* Only chunks with rows are kept.
Filled(chunks) == FlattenSeq([k \in DOMAIN chunks |-> IF chunks[k] = <<>> THEN <<>> ELSE <<chunks[k]>>])

\* Chunks as the plan returns them; a set operation boxes and drops them, a statement that writes counts.
Answer(q) ==
  LET streamed == [types |-> Retagged(q.display, q.types), rows |-> <<>>, chunks |-> Filled(q.chunks)]
  IN  IF q.affected >= 0 /\ streamed.chunks = <<>> THEN Counted(q.affected)
      ELSE IF q.combined THEN [streamed EXCEPT !.rows = MaterialisedRows(streamed), !.chunks = <<>>]
      ELSE streamed

NoResult == [types |-> <<>>, chunks |-> <<>>, rows |-> <<>>]

RowCount(result)    == IF result.rows # <<>> THEN Len(result.rows) ELSE Len(Cells(result))
ColumnCount(result) == Len(result.types)

-----------------------------------------------------------------------------
(* The state of a client: its result with what the API keeps beside it, the *)
(* strings of the calling thread, and the pointers it was given.            *)

Kinds == {"int32", "int64", "double", "varchar"}

Unbuilt   == [values |-> <<>>, built |-> FALSE]
NoBuffers == [of |-> [kind \in Kinds |-> Unbuilt], validity |-> <<>>, hasNulls |-> FALSE]

Fresh(q) == [at |-> "connected", result |-> NoResult, buffers |-> <<>>, cache |-> <<>>, capacity |-> 0, moves |-> 0,
             tables |-> q.tables, arena |-> <<>>, arenaMoves |-> 0, held |-> {}, calls |-> 0]

\* slothdb_query: a failure leaves a result that holds nothing but the message.
QueryCall ==
  /\ state.at = "connected" /\ query.op = "fetch"
  /\ state' = [state EXCEPT !.at = "result", !.result = IF query.fails THEN NoResult ELSE Answer(query)]
  /\ out' = [call |-> "query", ok |-> ~query.fails]

\* Pointers into a result end with it.
FreeResult ==
  /\ state.at = "result"
  /\ state' = [state EXCEPT !.at = "freed", !.result = NoResult, !.cache = <<>>, !.capacity = 0, !.buffers = <<>>, !.held = {}]
  /\ out' = Nothing

HasResult == state.at = "result"

-----------------------------------------------------------------------------
(* Cell by cell. *)

MemberOf(type) ==
  CASE type \in {"INTEGER", "DATE"} -> "int32"
    [] type \in {"BIGINT", "TIMESTAMP", "TIME"} -> "int64"
    [] OTHER -> type

Low(n) == ((n + Wide) % (2 * Wide)) - Wide

\* Value::GetValue<T> reads a member of the union, whichever one is set: <<>> is any number.
GetAs(v, member) ==
  CASE MemberOf(v.type) = member -> <<v.bits>>
    [] MemberOf(v.type) = "int64" /\ member = "int32" -> <<Low(v.bits)>>
    [] OTHER -> <<>>

ToText(v) == [of |-> v.type, bits |-> v.bits]

\* QueryResult::GetValue boxes all rows when the first cell is asked for.
WithRows == [state EXCEPT !.result.rows = MaterialisedRows(state.result)]
InRange(r) == r <= RowCount(state.result)
ValueAt(r, c) == MaterialisedRows(state.result)[r][c]

\* A row behind the last one is answered without a look at the columns.
Fetch(call, r, c, Of(_), default) ==
  /\ HasResult /\ (InRange(r) => c \in DOMAIN state.result.types)
  /\ state' = IF InRange(r) THEN WithRows ELSE state
  /\ out' = [call |-> call, row |-> r, col |-> c,
             answer |-> IF InRange(r) /\ ~ValueAt(r, c).null THEN Of(ValueAt(r, c)) ELSE default]

ValueIsNull(r, c) == Fetch("is_null", r, c, LAMBDA v : <<0>>, <<1>>)
ValueInt32(r, c)  == Fetch("int32", r, c, LAMBDA v : GetAs(v, "int32"), <<0>>)
ValueInt64(r, c)  == Fetch("int64", r, c, LAMBDA v : GetAs(v, IF v.type = "INTEGER" THEN "int32" ELSE "int64"), <<0>>)
ValueDouble(r, c) == Fetch("double", r, c, LAMBDA v : GetAs(v, "DOUBLE"), <<0>>)

\* Fault: one string serves all calls.
PushedOnce(s, text) == [s EXCEPT !.cache = <<text>>, !.capacity = 1]

\* std::vector::push_back: when it is full all strings move.
Inline(text) == text.of # "TIMESTAMP" /\ (text.of = "VARCHAR" => text.bits <= LastInline)
Pushed(s, text) ==
  LET full == Len(s.cache) = s.capacity
  IN  [s EXCEPT !.cache = Append(@, text),
                !.capacity = IF ~full THEN @ ELSE IF @ = 0 THEN 1 ELSE 2 * @,
                !.moves = IF full THEN @ + 1 ELSE @]

CachePointer(s) == [into |-> "cache", at |-> Len(s.cache), moves |-> s.moves, text |-> Last(s.cache)]

Given(s, pointer) == [s EXCEPT !.held = @ \cup {pointer}, !.calls = @ + 1]

ValueVarchar(r, c) ==
  /\ HasResult /\ InRange(r) /\ c \in DOMAIN state.result.types /\ state.calls < MaxCalls
  /\ LET v      == ValueAt(r, c)
         pushed == Pushed(WithRows, ToText(v))
     IN  /\ state' = IF v.null THEN WithRows ELSE Given(pushed, CachePointer(pushed))
         /\ out' = [call |-> "varchar", row |-> r, col |-> c, answer |-> <<IF v.null THEN NullText ELSE ToText(v)>>]

-----------------------------------------------------------------------------
(* Column by column. *)

\* slothdb_column_type: dates are shown as texts.
ColumnType(type) ==
  CASE type \in {"DATE", "TIME", "TIMESTAMP", "TIMESTAMP_TZ"} -> "VARCHAR"
    [] type \in {"BOOLEAN", "INTEGER", "BIGINT", "FLOAT", "DOUBLE", "VARCHAR"} -> type
    [] OTHER -> "INVALID"

Offers(kind, type) ==
  CASE kind = "int32"   -> ColumnType(type) = "INTEGER"
    [] kind = "int64"   -> ColumnType(type) \in {"BIGINT", "INTEGER"} \/ type \in {"TIMESTAMP", "TIMESTAMP_TZ", "TIME"}
    [] kind = "double"  -> ColumnType(type) \in {"DOUBLE", "FLOAT"}
    [] kind = "varchar" -> ColumnType(type) = "VARCHAR"

EnsureColBuf(s) ==
  IF Len(s.buffers) = ColumnCount(s.result) THEN s
  ELSE [s EXCEPT !.buffers = [c \in DOMAIN s.result.types |-> NoBuffers]]

NullsOf(chunk, c) == [i \in DOMAIN chunk |-> IF chunk[i][c].null THEN 0 ELSE 1]

\* Fault: every chunk marks the rows of the first.
ValidityOfFirst(result, c) ==
  LET n == RowCount(result)
      Marked(r) == \E k \in DOMAIN result.chunks : r \in DOMAIN result.chunks[k] /\ result.chunks[k][r][c].null
  IN  IF result.chunks # <<>> THEN [r \in 1 .. n |-> IF Marked(r) THEN 0 ELSE 1]
      ELSE [r \in DOMAIN result.rows |-> IF result.rows[r][c].null THEN 0 ELSE 1]

\* From the masks of the chunks, which stay when rows were boxed.
ValidityOf(result, c) ==
  IF result.chunks # <<>> THEN FlattenSeq([k \in DOMAIN result.chunks |-> NullsOf(result.chunks[k], c)])
  ELSE [r \in DOMAIN result.rows |-> IF result.rows[r][c].null THEN 0 ELSE 1]

BuildValidity(s, c) ==
  IF s.buffers[c].validity # <<>> THEN s
  ELSE LET valid == ValidityOf(s.result, c)
       IN  [s EXCEPT !.buffers[c].validity = valid, !.buffers[c].hasNulls = 0 \in Range(valid)]

\* Chunks are copied with whatever a NULL's place holds, rows are read value by value.
Numbers(result, kind, c) ==
  IF result.chunks # <<>> THEN LET cells == Cells(result) IN [r \in DOMAIN cells |-> <<cells[r][c].bits>>]
  ELSE LET member(v) == CASE kind = "int64" /\ ColumnType(result.types[c]) # "BIGINT" -> "int32"
                          [] kind = "double" -> result.types[c]
                          [] OTHER -> kind
       IN  [r \in DOMAIN result.rows |->
              IF result.rows[r][c].null THEN <<0>> ELSE GetAs(result.rows[r][c], member(result.rows[r][c]))]

\* Texts of VARCHAR chunks are copied; those of dates are formatted, which boxes the rows.
Formats(result, c) == result.chunks = <<>> \/ result.types[c] # "VARCHAR"
Texts(result, c) ==
  IF Formats(result, c)
  THEN LET rows == MaterialisedRows(result) IN [r \in DOMAIN rows |-> IF rows[r][c].null THEN NoText ELSE ToText(rows[r][c])]
  ELSE LET cells == Cells(result)
       IN  [r \in DOMAIN cells |-> IF cells[r][c].null THEN NoText ELSE [of |-> "VARCHAR", bits |-> cells[r][c].bits]]

Built(s, kind, c) ==
  IF s.buffers[c].of[kind].built THEN s
  ELSE LET values == IF kind = "varchar" THEN Texts(s.result, c) ELSE Numbers(s.result, kind, c)
           boxed  == IF kind = "varchar" /\ Formats(s.result, c) THEN [s EXCEPT !.result.rows = MaterialisedRows(s.result)] ELSE s
       IN  BuildValidity([boxed EXCEPT !.buffers[c].of[kind] = [values |-> values, built |-> TRUE]], c)

ColumnBuffer(kind, c) ==
  /\ HasResult /\ c \in DOMAIN state.result.types
  /\ LET ready == EnsureColBuf(state)
         done  == IF Offers(kind, state.result.types[c]) THEN Built(ready, kind, c) ELSE ready
     IN  /\ state' = done
         /\ out' = [call |-> "buffer", kind |-> kind, col |-> c,
                    offered |-> Offers(kind, state.result.types[c]), values |-> done.buffers[c].of[kind].values]

ValidityBuffer(c) ==
  /\ HasResult /\ c \in DOMAIN state.result.types
  /\ state' = BuildValidity(EnsureColBuf(state), c)
  /\ out' = [call |-> "validity", col |-> c, valid |-> IF state'.buffers[c].hasNulls THEN state'.buffers[c].validity ELSE <<>>]

-----------------------------------------------------------------------------
(* The catalog. Every call looks the table up anew by its number.           *)

Slots == [table |-> 1, column |-> 2]

\* introspection_slot: the strings of a thread, which move when the vector grows.
IntoSlot(s, slot, text) ==
  LET grown == IF slot <= Len(s.arena) THEN s.arena ELSE [i \in 1 .. slot + 15 |-> IF i <= Len(s.arena) THEN s.arena[i] ELSE NoText]
  IN  [s EXCEPT !.arena = [grown EXCEPT ![slot] = text],
                !.arenaMoves = IF slot <= Len(s.arena) THEN @ ELSE @ + 1]

\* What the same function returned before is given up.
ArenaPointer(s, slot) == [into |-> "arena", at |-> slot, moves |-> s.arenaMoves, text |-> s.arena[slot]]
GivenUp(s, slot) == [s EXCEPT !.held = {p \in @ : p.into # "arena" \/ p.at # slot}]

Introspect(slot, text) ==
  LET stored == IntoSlot(GivenUp(state, slot), slot, text) IN state' = Given(stored, ArenaPointer(stored, slot))

TableName(t) ==
  /\ query.op = "browse" /\ t \in DOMAIN state.tables /\ state.calls < MaxCalls
  /\ Introspect(Slots.table, [of |-> state.tables[t].name, bits |-> 0])
  /\ out' = Nothing

ColumnName(t, c) ==
  /\ query.op = "browse" /\ t \in DOMAIN state.tables /\ c <= state.tables[t].columns /\ state.calls < MaxCalls
  /\ Introspect(Slots.column, [of |-> state.tables[t].name, bits |-> c])
  /\ out' = Nothing

\* Another connection drops a table between two calls.
TableDropped ==
  /\ query.op = "browse" /\ state.tables # <<>>
  /\ \E t \in DOMAIN state.tables : state' = [state EXCEPT !.tables = RemoveAt(@, t)]
  /\ out' = Nothing

-----------------------------------------------------------------------------
RowNumbers    == 1 .. 3
ColumnNumbers == 1 .. 2

ClientInit == IsClientQuery(query) /\ state = Fresh(query) /\ out = Nothing

\* A new result for the next query: one is enough.
ClientNext ==
  /\ query.op \in {"fetch", "browse"}
  /\ UNCHANGED query
  /\ \/ QueryCall
     \/ FreeResult
     \/ \E r \in RowNumbers, c \in ColumnNumbers :
          ValueIsNull(r, c) \/ ValueInt32(r, c) \/ ValueInt64(r, c) \/ ValueDouble(r, c) \/ ValueVarchar(r, c)
     \/ \E c \in ColumnNumbers : ValidityBuffer(c) \/ \E kind \in Kinds : ColumnBuffer(kind, c)
     \/ \E t \in 1 .. 2 : TableName(t) \/ \E c \in ColumnNumbers : ColumnName(t, c)
     \/ TableDropped

ClientSpec == ClientInit /\ [][ClientNext]_clientVars

-----------------------------------------------------------------------------
(* What the header promises. *)

\* The cells of the answer by definition, of the types that are shown.
Shown == LET a     == Answer(query)
             cells == Cells(a)
         IN  IF a.rows # <<>> THEN a.rows
             ELSE [r \in DOMAIN cells |-> [c \in DOMAIN a.types |-> Boxed(cells[r][c], a.types[c])]]

\* Which of them are not NULL.
Mask(c) == [r \in DOMAIN Shown |-> IF Shown[r][c].null THEN 0 ELSE 1]

\* The types for which a call has a number to give.
Numeric(call) == CASE call = "int32" -> {"INTEGER"} [] call = "int64" -> {"INTEGER", "BIGINT"} [] call = "double" -> {"DOUBLE"}

\* A NULL of a chunk is whatever the vector holds in its place, and a date or time of boxed rows is read as an int32:
\* the number of a row is then another one.
Unreliable(kind, r, c) ==
  \/ Shown[r][c].null /\ Answer(query).chunks # <<>>
  \/ kind = "int64" /\ Answer(query).chunks = <<>> /\ MemberOf(Shown[r][c].type) = "int64" /\ Shown[r][c].type # "BIGINT"

BufferIsRight(kind, c, values) ==
  LET Expected(v) == IF v.null THEN <<0>> ELSE <<v.bits>>
  IN  IF kind = "varchar"
      THEN values = [r \in DOMAIN Shown |-> IF Shown[r][c].null THEN NoText ELSE ToText(Shown[r][c])]
      ELSE /\ Len(values) = Len(Shown)
           /\ \A r \in DOMAIN Shown : Unreliable(kind, r, c) \/ values[r] = Expected(Shown[r][c])

CellIsRight(o) ==
  LET v == Shown[o.row][o.col]
  IN  CASE o.row > Len(Shown) -> TRUE
        [] o.row <= Len(Shown) /\ o.call = "is_null" -> o.answer = <<IF v.null THEN 1 ELSE 0>>
        [] o.row <= Len(Shown) /\ o.call = "varchar" -> o.answer = <<IF v.null THEN NullText ELSE ToText(v)>>
        [] o.row <= Len(Shown) /\ o.call \notin {"is_null", "varchar"} ->
             v.null \/ v.type \in Numeric(o.call) => o.answer = <<IF v.null THEN 0 ELSE v.bits>>

IsRight(o) ==
  CASE o.call \in {"is_null", "int32", "int64", "double", "varchar"} -> CellIsRight(o)
    [] o.call = "buffer" -> o.offered => BufferIsRight(o.kind, o.col, o.values)
    [] o.call = "validity" ->
         o.valid = IF \A r \in DOMAIN Shown : ~Shown[r][o.col].null THEN <<>> ELSE Mask(o.col)
    [] OTHER -> TRUE

\* slothdb.h: whatever was fetched before and however the result is kept, a cell, a column and its mask of NULLs are
\* what the query returned.
FetchesAgree == query.op = "fetch" => IsRight(out)

\* slothdb.h: a string that the client was given is where it was until the result is freed, or the same function of the
\* catalog is called again - but for short strings once the vector that holds them has grown.
PointersStay ==
  query.op \in {"fetch", "browse"} =>
  \A p \in state.held :
    LET kept  == IF p.into = "cache" THEN state.cache ELSE state.arena
        moved == p.moves # IF p.into = "cache" THEN state.moves ELSE state.arenaMoves
    IN  /\ p.at \in DOMAIN kept /\ kept[p.at] = p.text
        /\ moved /\ Inline(p.text) => p.into = "cache"
=============================================================================
