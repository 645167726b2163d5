------------------------------ MODULE Question ------------------------------
(* One query on small tables: what it asks, what the operators that answer   *)
(* it have done so far, and the rows that are out.                           *)
EXTENDS Vectors, FiniteSets

VARIABLES query, state, out

queryVars == <<query, state, out>>

\* How often a sequence has a value.
Times(rows, v) == Cardinality({i \in DOMAIN rows : rows[i] = v})
=============================================================================
