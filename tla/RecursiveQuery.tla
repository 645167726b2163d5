--------------------------- MODULE RecursiveQuery ---------------------------
(* WITH RECURSIVE (Connection::Query): the first SELECT fills a table, and    *)
(* the second one, which reads that table, is run again and again; what it    *)
(* returns is appended to the table it reads, chunk by chunk.                 *)
(*                                                                            *)
(* Rows are numbers; query.yields says which rows the second SELECT makes of  *)
(* one row. A filter returns what it made of a chunk, a join fills its result *)
(* with what it made of several (query.fills).                                *)
EXTENDS Question, Integers, Sequences, FiniteSets, SequencesExt

CONSTANTS MaxIterations,   \* how often the second SELECT is run at most
          MaxRecursiveRows \* MAX_RECURSIVE_ROWS

ASSUME RecursionAssumption == MaxIterations \in Nat /\ MaxRecursiveRows \in Nat

IsRecursive == query.op = "recursive"

\* state: the table, the iteration, its scan and what it made; out: the rows
\* that were read from the table at the end.
Unstarted == [phase |-> "base", table |-> <<>>, iteration |-> 0,
              count |-> 0, read |-> 0, made |-> <<>>, ended |-> FALSE]

\* The second SELECT makes rows of rows, of which it makes some again.
IsRecursion(q) ==
  /\ q.yields \in Seq(Seq(DOMAIN q.yields)) /\ q.base \in Seq(DOMAIN q.yields)
  /\ q.fills \in BOOLEAN

RecursiveInit == IsRecursive /\ IsRecursion(query) /\ state = Unstarted /\ out = <<>>

\* What the second SELECT makes of rows.
MadeOf(rows) == FlattenSeq([i \in DOMAIN rows |-> query.yields[rows[i]]])

InPhase(phase) == IsRecursive /\ state.phase = phase

\* The first SELECT is drained into the table.
Base ==
  /\ InPhase("base")
  /\ state' = [state EXCEPT !.table = query.base, !.phase = "between"]
  /\ UNCHANGED <<query, out>>

\* The second SELECT is planned anew, and its scan begins with the first row.
Iterate ==
  /\ InPhase("between") /\ state.iteration < MaxIterations
  /\ state' = IF Len(state.table) > MaxRecursiveRows
              THEN [state EXCEPT !.phase = "threw"]
              ELSE [state EXCEPT !.phase = "scan", !.count = Len(state.table),
                                 !.read = 0, !.ended = FALSE]
  /\ UNCHANGED <<query, out>>

ChunkFull == Len(state.made) >= VectorSize
Returns == state.made # <<>> /\ (~query.fills \/ ChunkFull \/ state.ended)

FetchRows ==
  /\ InPhase("scan") /\ ~state.ended /\ ~Returns
  /\ LET last == state.read + VectorSize
         chunk == SubSeq(state.table, state.read + 1,
                         IF last < Len(state.table) THEN last ELSE Len(state.table))
     IN  state' = [state EXCEPT !.read = @ + Len(chunk), !.ended = (chunk = <<>>),
                     !.made = @ \o MadeOf(chunk)]
  /\ UNCHANGED <<query, out>>

\* The scan has not seen its end, and will meet these rows too.
AppendRows ==
  /\ InPhase("scan") /\ Returns
  /\ LET n == IF query.fills /\ ChunkFull THEN VectorSize ELSE Len(state.made)
     IN  state' = [state EXCEPT !.table = @ \o SubSeq(state.made, 1, n),
                                !.made = SubSeq(@, n + 1, Len(@))]
  /\ UNCHANGED <<query, out>>

\* Fault: the loop ends when the table got no more than one row.
EndEarly ==
  /\ InPhase("scan") /\ state.ended /\ ~Returns
  /\ state' = [state EXCEPT !.iteration = @ + 1,
                 !.phase = IF Len(state.table) <= state.count + 1 THEN "read" ELSE "between"]
  /\ UNCHANGED <<query, out>>

EndIteration ==
  /\ InPhase("scan") /\ state.ended /\ ~Returns
  /\ state' = [state EXCEPT !.iteration = @ + 1,
                 !.phase = IF Len(state.table) = state.count THEN "read" ELSE "between"]
  /\ UNCHANGED <<query, out>>

\* The statement reads the table.
ReadTable ==
  /\ \/ InPhase("read")
     \/ InPhase("between") /\ state.iteration = MaxIterations
  /\ out' = state.table
  /\ state' = [state EXCEPT !.phase = "done"]
  /\ UNCHANGED query

RecursiveNext == Base \/ Iterate \/ FetchRows \/ AppendRows \/ EndIteration \/ ReadTable

RecursiveSpec == RecursiveInit /\ [][RecursiveNext]_queryVars

-----------------------------------------------------------------------------
(* What recursion is: every level is made of the one before. *)

Level[n \in 0 .. MaxIterations] ==
  IF n = 0 THEN query.base
  ELSE MadeOf(Level[n - 1])

Levels == FlattenSeq([n \in 1 .. MaxIterations + 1 |-> Level[n - 1]])
(* Connection::Query: the rows of the first SELECT and all that follow from   *)
(* them in as many steps as there may be iterations are in the result, and no *)
(* others, wherever chunks end and whether or not a scan meets rows that were *)
(* appended under it.                                                         *)
NothingUnreached ==
  InPhase("done") => /\ \A v \in Range(Levels) : Times(out, v) >= Times(Levels, v)
                     /\ Range(out) \subseteq DOMAIN query.yields
                     /\ \A v \in Range(out) : v \in Range(query.base)
                          \/ \E w \in Range(out) : v \in Range(query.yields[w])

(* "Recursive CTE - org chart traversal" (DOCUMENTATION.md:621), "generate a  *)
(* sequence" (line 631): a row of a level is there once, not once more for    *)
(* every iteration that follows.                                              *)
RecursionIsRight ==
  InPhase("done") => \A v \in Range(out) : Times(out, v) = Times(Levels, v)
=============================================================================
