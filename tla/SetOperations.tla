--------------------------- MODULE SetOperations ---------------------------
(* UNION, INTERSECT and EXCEPT, a chain of SELECTs that the connection walks  *)
(* itself: Connection::Query for the statement, MaterializeSelectIntoTable    *)
(* for a subquery in FROM or a CTE. The planner has no such node.             *)
(*                                                                            *)
(* A branch has one column of a type; a value is a type and a number. The     *)
(* text of a number is that number again, the text of anything else another. *)
EXTENDS Question, Integers, Sequences, FiniteSets, SequencesExt

\* query: the branches, the operators between them, ORDER BY, LIMIT and OFFSET;
\* state: the common type, the branches that were taken and their rows; out:
\* the rows of the result.
IsSetOp == query.op = "set"

-----------------------------------------------------------------------------
(* Types and values. *)

SignedTypes   == <<"TINYINT", "SMALLINT", "INTEGER", "BIGINT">>
UnsignedTypes == <<"UTINYINT", "USMALLINT", "UINTEGER", "UBIGINT">>
FloatTypes    == {"FLOAT", "DOUBLE"}

ColumnTypes ==
  Range(SignedTypes) \cup Range(UnsignedTypes) \cup FloatTypes \cup {"VARCHAR", "BOOLEAN", "DATE", "SQLNULL"}

ASSUME NullHasNoType == Null \notin [type : ColumnTypes, n : Int]

IsSigned(t)   == t \in Range(SignedTypes)
IsUnsigned(t) == t \in Range(UnsignedTypes)

\* Twice the bytes for each next one; FLOAT is as wide as an INTEGER.
Width(t) == CASE IsSigned(t) -> CHOOSE i \in 1 .. 4 : SignedTypes[i] = t
              [] IsUnsigned(t) -> CHOOSE i \in 1 .. 4 : UnsignedTypes[i] = t
              [] t = "FLOAT" -> 3
              [] t = "DOUBLE" -> 4
              [] OTHER -> 0

Wider(a, b) == IF Width(a) >= Width(b) THEN a ELSE b

ComputeSetOpCommonType(a, b) ==
  CASE a = b \/ b = "SQLNULL" -> a
    [] a # b /\ a = "SQLNULL" -> b
    [] a # b /\ "SQLNULL" \notin {a, b} ->
       CASE "VARCHAR" \in {a, b} -> "VARCHAR"
         [] "VARCHAR" \notin {a, b} /\ {a, b} \cap FloatTypes # {} ->
              IF "DOUBLE" \in {a, b} \/ Width(a) >= 3 \/ Width(b) >= 3 THEN "DOUBLE" ELSE "FLOAT"
         [] (IsSigned(a) /\ IsUnsigned(b)) \/ (IsUnsigned(a) /\ IsSigned(b)) ->
              LET wider == Width(Wider(a, b)) IN SignedTypes[IF wider < 4 THEN wider + 1 ELSE 4]
         [] (IsSigned(a) /\ IsSigned(b)) \/ (IsUnsigned(a) /\ IsUnsigned(b)) -> Wider(a, b)
         [] OTHER -> "VARCHAR"

AsText(v) == CASE v.type = "DATE" -> v.n + 1000
               [] v.type = "BOOLEAN" -> v.n + 2000
               [] OTHER -> v.n

CoerceValueForSetOp(v, target) ==
  IF v = Null \/ v.type = target THEN v
  ELSE [type |-> target, n |-> IF target = "VARCHAR" THEN AsText(v) ELSE v.n]

\* Value::operator== and operator<, which have no case for a DATE.
Equal(a, b) == \/ a = Null /\ b = Null
               \/ a # Null /\ b # Null /\ a = b /\ a.type # "DATE"

Less(a, b) == a # Null /\ b # Null /\ a.type = b.type /\ a.type # "DATE" /\ a.n < b.n

-----------------------------------------------------------------------------
(* A chain of branches, whose values have the type of their branch. *)

IsBranch(b) ==
  b.type \in ColumnTypes /\ b.rows \in Seq({Null} \cup [type : {b.type}, n : Int])

IsChain(q) ==
  /\ q.branches # <<>> /\ q.branches \in Seq(Range(q.branches))
  /\ \A i \in DOMAIN q.branches : IsBranch(q.branches[i])
  /\ q.ops \in [1 .. Len(q.branches) - 1 -> {"UNION ALL", "UNION", "INTERSECT", "EXCEPT"}]
  /\ q.order \in {"none", "asc", "desc"} /\ q.nullsFirst \in BOOLEAN
  /\ q.limit \in Int /\ q.offset \in Nat /\ q.derived \in BOOLEAN

-----------------------------------------------------------------------------
(* ORDER BY, LIMIT and OFFSET. *)

Before(a, b) ==
  CASE a = Null /\ b = Null -> FALSE
    [] a = Null /\ b # Null -> query.nullsFirst
    [] a # Null /\ b = Null -> ~query.nullsFirst
    [] OTHER -> IF query.order = "asc" THEN Less(a, b) ELSE Less(b, a)

\* std::sort: rows of which neither comes before the other may end up in any order.
Sorted(rows) ==
  IF query.order = "none" THEN {rows}
  ELSE {[i \in DOMAIN rows |-> rows[p[i]]] :
          p \in {p \in [DOMAIN rows -> DOMAIN rows] :
                   IsInjective(p) /\ \A i, j \in DOMAIN rows : i < j => ~Before(rows[p[j]], rows[p[i]])}}

Trimmed(rows) ==
  LET last == query.offset + query.limit
  IN  SubSeq(rows, query.offset + 1, IF query.limit < 0 \/ last > Len(rows) THEN Len(rows) ELSE last)

-----------------------------------------------------------------------------
(* The chain. *)

Unbound == [phase |-> "bind", type |-> "SQLNULL", taken |-> 0, rows |-> <<>>]

SetInit == IsSetOp /\ IsChain(query) /\ state = Unbound /\ out = <<>>

InStep(phase) == IsSetOp /\ state.phase = phase

CommonType[i \in 1 .. Len(query.branches)] ==
  IF i = 1 THEN query.branches[1].type
  ELSE ComputeSetOpCommonType(CommonType[i - 1], query.branches[i].type)

\* All branches are bound, and their types unified, before any value is compared.
Bind ==
  /\ InStep("bind")
  /\ IF \E i \in DOMAIN query.branches : query.branches[i].columns # query.branches[1].columns
     THEN state' = [state EXCEPT !.phase = "threw"]
     ELSE state' = [state EXCEPT !.phase = "walk", !.type = CommonType[Len(query.branches)]]
  /\ UNCHANGED <<query, out>>

Coerced(i) ==
  LET rows == query.branches[i].rows
  IN  [x \in DOMAIN rows |-> CoerceValueForSetOp(rows[x], state.type)]

\* A subquery's last branch keeps its ORDER BY and LIMIT.
Drained(i) ==
  IF query.derived /\ i = Len(query.branches) THEN {Trimmed(s) : s \in Sorted(Coerced(i))}
  ELSE {Coerced(i)}

Has(rows, v) == \E i \in DOMAIN rows : Equal(rows[i], v)

Those(rows, S) == FlattenSeq([x \in DOMAIN rows |-> IF x \in S THEN <<rows[x]>> ELSE <<>>])

\* Fault: the set of what was seen is not added to.
UnionOfLeft(left, right) == left \o Those(right, {x \in DOMAIN right : ~Has(left, right[x])})

\* The rows on the left stay as they are; of those on the right, each is seen once.
Union(left, right) ==
  left \o Those(right, {x \in DOMAIN right : /\ ~Has(left, right[x])
                                             /\ \A y \in 1 .. x - 1 : ~Equal(right[y], right[x])})

Combined(op, left, right) ==
  CASE op = "UNION ALL" -> left \o right
    [] op = "UNION" -> Union(left, right)
    [] op = "INTERSECT" -> Those(left, {x \in DOMAIN left : Has(right, left[x])})
    [] op = "EXCEPT" -> Those(left, {x \in DOMAIN left : ~Has(right, left[x])})

TakeBranch ==
  /\ InStep("walk") /\ state.taken < Len(query.branches)
  /\ LET i == state.taken + 1
     IN  \E rows \in Drained(i) :
           state' = [state EXCEPT !.taken = i,
                       !.rows = IF i = 1 THEN rows ELSE Combined(query.ops[i - 1], @, rows)]
  /\ UNCHANGED <<query, out>>

\* For the statement, ORDER BY and LIMIT were taken off the last branch.
Finish ==
  /\ InStep("walk") /\ state.taken = Len(query.branches)
  /\ IF query.derived THEN out' = state.rows
     ELSE \E s \in Sorted(state.rows) : out' = Trimmed(s)
  /\ state' = [state EXCEPT !.phase = "done"]
  /\ UNCHANGED query

SetNext == Bind \/ TakeBranch \/ Finish

SetSpec == SetInit /\ [][SetNext]_queryVars

-----------------------------------------------------------------------------
(* What the operators mean: how often a row is in the result. *)

AllValues == UNION {Range(Coerced(i)) : i \in DOMAIN query.branches}

Once(cond) == IF cond THEN 1 ELSE 0

TimesIn(op, left, right) ==
  CASE op = "UNION ALL" -> left + right
    [] op = "UNION" -> Once(left + right > 0)
    [] op = "INTERSECT" -> Once(left > 0 /\ right > 0)
    [] op = "EXCEPT" -> Once(left > 0 /\ right = 0)

\* After so many branches.
TimesAfter[i \in 1 .. Len(query.branches)] ==
  [v \in AllValues |-> IF i = 1 THEN Times(Coerced(1), v)
                      ELSE TimesIn(query.ops[i - 1], TimesAfter[i - 1][v], Times(Coerced(i), v))]

RightTimes(v) == TimesAfter[Len(query.branches)][v]

\* How many rows with one of these values the result has.
Total(S) == Cardinality(UNION {{v} \X (1 .. RightTimes(v)) : v \in S})

\* ORDER BY, LIMIT and OFFSET are for the whole, or there are none.
ForTheWhole == query.derived => query.order = "none" /\ query.limit < 0 /\ query.offset = 0

\* What is on the left of an operator has nothing twice.
NoDuplicates ==
  /\ IsInjective(query.branches[1].rows)
  /\ \A i \in DOMAIN query.ops : query.ops[i] = "UNION ALL" => i = Len(query.ops)

(* Connection::Query, MaterializeSelectIntoTable: a chain of set operations,  *)
(* taken from the left, gives each row as often as the operators say, NULL    *)
(* equal to NULL and numbers compared in the common type, and the rows in     *)
(* order and from OFFSET on. Duplicates on the left stay, dates are never     *)
(* equal, and in a subquery the last branch alone is ordered.                 *)
SetOpsAreRight ==
  (InStep("done") /\ NoDuplicates /\ ForTheWhole /\ state.type # "DATE")
  => LET all == Total(AllValues)
         left == IF all < query.offset THEN 0 ELSE all - query.offset
     IN  /\ Len(out) = IF query.limit < 0 \/ left < query.limit THEN left ELSE query.limit
         /\ \A v \in AllValues : Times(out, v) <= RightTimes(v)
         /\ Range(out) \subseteq AllValues
         /\ query.order # "none" =>
              \A i \in DOMAIN out :
                LET ahead == Total({v \in AllValues : Before(v, out[i])})
                IN  ahead < query.offset + i /\ query.offset + i <= ahead + RightTimes(out[i])

(* "UNION - combine and deduplicate" (DOCUMENTATION.md:712): the result of a  *)
(* statement that ends with a UNION has no row twice, on whichever side it    *)
(* was. Dates, which no comparison finds equal, are left out.                 *)
UnionDeduplicates ==
  (InStep("done") /\ ~query.derived /\ Last(query.ops) = "UNION" /\ state.type # "DATE") => IsInjective(out)
=============================================================================
