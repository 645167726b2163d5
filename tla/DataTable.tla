----------------------------- MODULE DataTable -----------------------------
(***************************************************************************)
(* slothdb::DataTable: rows in row groups, filled by Append and            *)
(* AppendRowGroups, read by sequential scans and by parallel scans that    *)
(* hand out morsels of VECTOR_SIZE rows to tasks.                          *)
(*                                                                         *)
(* A step is a call, except that a ParallelScan is two: it claims a morsel *)
(* with an atomic increment and then reads it.  Scan takes no lock; a      *)
(* statement calls Append between its own calls of Scan, and nothing is    *)
(* appended while tasks scan.                                              *)
(***************************************************************************)
EXTENDS Integers, Sequences, SequencesExt

CONSTANTS VECTOR_SIZE, ROW_GROUP_SIZE,
          Scans,        \* the sequential scans
          Tasks,        \* the tasks of a parallel scan
          None,
          MaxTableRows  \* bound on the rows appended

ASSUME DataTableAssumption ==
  /\ VECTOR_SIZE \in Nat \ {0}
  /\ ROW_GROUP_SIZE \in Nat /\ VECTOR_SIZE <= ROW_GROUP_SIZE
  /\ MaxTableRows \in Nat
  /\ None \notin Int
  /\ Tasks # {}

VARIABLES row_groups,  \* each a start_row and the rows of the group
          total_rows,
          state,       \* the TableScanState of each sequential scan
          got,         \* what each sequential scan has delivered
          ended,       \* the sequential scans whose last call returned false
          total_morsels, next_morsel,   \* the ParallelScanState; None before
          morsel,      \* what each task has claimed and not read, or None
          finished,    \* the tasks that were told there is no more
          delivered    \* the chunks the tasks were given, in any order

table    == <<row_groups, total_rows>>
seqscan  == <<state, got, ended>>
parallel == <<total_morsels, next_morsel, morsel, finished, delivered>>
tableVars == <<table, seqscan, parallel>>

Count(g) == Len(row_groups[g].rows)
Contents == FlattenSeq([g \in DOMAIN row_groups |-> row_groups[g].rows])

(* A row is the number it was made with.                                   *)
NewRows(from, n) == [i \in 1 .. n |-> from + i]

Smaller(a, b) == IF a <= b THEN a ELSE b

TableInit == /\ row_groups = <<>> /\ total_rows = 0
             /\ state = [s \in Scans |-> [group |-> 0, row |-> 0]]
             /\ got = [s \in Scans |-> <<>>]
             /\ ended = {}
             /\ total_morsels = None /\ next_morsel = 0
             /\ morsel = [t \in Tasks |-> None]
             /\ finished = {} /\ delivered = <<>>
-----------------------------------------------------------------------------
(* Append and AppendRowGroups                                              *)

Quiescent == total_morsels = None

(* A new group of rows comes behind the others, unless it is empty.        *)
Push(to, rows) ==
  IF rows = <<>> THEN to
  ELSE [groups |-> Append(to.groups, [start_row |-> to.total, rows |-> rows]),
        total  |-> to.total + Len(rows)]

(* A chunk has at most VECTOR_SIZE rows, so the loop runs at most twice:   *)
(* the last group takes what it has room for, a new one takes the rest.    *)
Append_(chunk) ==
  /\ Quiescent
  /\ LET last == Len(row_groups)
         room == IF last = 0 THEN 0 ELSE ROW_GROUP_SIZE - Count(last)
         n    == Smaller(room, Len(chunk))
         head == IF n = 0 THEN row_groups
                 ELSE [row_groups EXCEPT ![last].rows = @ \o SubSeq(chunk, 1, n)]
         to   == Push([groups |-> head, total |-> total_rows + n], SubSeq(chunk, n + 1, Len(chunk)))
     IN  row_groups' = to.groups /\ total_rows' = to.total
  /\ UNCHANGED <<seqscan, parallel>>

(* Groups built by loader threads come behind the others one by one.       *)
AppendRowGroups(groups) ==
  /\ Quiescent
  /\ LET to[n \in 0 .. Len(groups)] ==
           IF n = 0 THEN [groups |-> row_groups, total |-> total_rows]
                    ELSE Push(to[n - 1], groups[n])
     IN  row_groups' = to[Len(groups)].groups /\ total_rows' = to[Len(groups)].total
  /\ UNCHANGED <<seqscan, parallel>>
-----------------------------------------------------------------------------
(* InitScan and Scan                                                       *)

InitScan(s) == /\ state' = [state EXCEPT ![s] = [group |-> 0, row |-> 0]]
               /\ got' = [got EXCEPT ![s] = <<>>]
               /\ ended' = ended \ {s}
               /\ UNCHANGED <<table, parallel>>

(* Fault: the row of the cursor is kept when it moves to the next group.   *)
PositionKeepsRow(s) ==
  IF /\ state[s].group < Len(row_groups)
     /\ state[s].row = Count(state[s].group + 1)
  THEN [state[s] EXCEPT !.group = @ + 1]
  ELSE state[s]

(* The cursor moves to the next group only when a call finds the current   *)
(* one read up to its present end.  No group is empty, so it moves once.   *)
Position(s) ==
  IF /\ state[s].group < Len(row_groups)
     /\ state[s].row = Count(state[s].group + 1)
  THEN [group |-> state[s].group + 1, row |-> 0]
  ELSE state[s]

(* Fault: the cursor leaves a group as soon as it has read all there is.   *)
ScanEager(s) ==
  /\ s \notin ended
  /\ LET at == state[s]
         g  == at.group + 1
     IN  IF at.group < Len(row_groups)
         THEN LET n == Smaller(Count(g) - at.row, VECTOR_SIZE)
              IN  /\ got' = [got EXCEPT ![s] = @ \o SubSeq(row_groups[g].rows, at.row + 1, at.row + n)]
                  /\ state' = [state EXCEPT ![s] =
                                 IF at.row + n = Count(g) THEN [group |-> g, row |-> 0]
                                 ELSE [at EXCEPT !.row = @ + n]]
                  /\ UNCHANGED ended
         ELSE ended' = ended \cup {s} /\ UNCHANGED <<state, got>>
  /\ UNCHANGED <<table, parallel>>

(* No caller calls Scan again once it has returned false: the cursor may   *)
(* have left a group that has room.                                        *)
Scan(s) ==
  /\ s \notin ended
  /\ LET at == Position(s)
         g  == at.group + 1
     IN  IF at.group < Len(row_groups)
         THEN LET n == Smaller(Count(g) - at.row, VECTOR_SIZE)
              IN  /\ got' = [got EXCEPT ![s] = @ \o SubSeq(row_groups[g].rows, at.row + 1, at.row + n)]
                  /\ state' = [state EXCEPT ![s] = [at EXCEPT !.row = @ + n]]
                  /\ UNCHANGED ended
         ELSE /\ state' = [state EXCEPT ![s] = at]
              /\ ended' = ended \cup {s}
              /\ UNCHANGED got
  /\ UNCHANGED <<table, parallel>>
-----------------------------------------------------------------------------
(* InitParallelScan and ParallelScan                                       *)

CeilDiv(a, b) == (a + b - 1) \div b
(* Fault: the rows after the last full vector of a group have no morsel.   *)
FullMorsels(g) == Count(g) \div VECTOR_SIZE

Morsels(g) == CeilDiv(Count(g), VECTOR_SIZE)
MorselsBefore(g) ==
  LET sum[h \in 0 .. Len(row_groups)] == IF h = 0 THEN 0 ELSE sum[h - 1] + Morsels(h)
  IN  sum[g - 1]

InitParallelScan ==
  /\ total_morsels = None
  /\ total_morsels' = MorselsBefore(Len(row_groups) + 1)
  /\ next_morsel' = 0
  /\ finished' = {} /\ delivered' = <<>>
  /\ UNCHANGED <<table, seqscan, morsel>>

(* Fault: the increment is a load and a store, and the load may be stale.  *)
ClaimStale(t) ==
  /\ total_morsels # None
  /\ t \notin finished /\ morsel[t] = None
  /\ \E seen \in {next_morsel - 1, next_morsel} \cap Nat :
       /\ next_morsel' = seen + 1
       /\ IF seen < total_morsels
          THEN morsel' = [morsel EXCEPT ![t] = seen] /\ UNCHANGED finished
          ELSE finished' = finished \cup {t} /\ UNCHANGED morsel
  /\ UNCHANGED <<table, seqscan, total_morsels, delivered>>

Claim(t) ==
  /\ total_morsels # None
  /\ t \notin finished /\ morsel[t] = None
  /\ next_morsel' = next_morsel + 1
  /\ IF next_morsel < total_morsels
     THEN morsel' = [morsel EXCEPT ![t] = next_morsel] /\ UNCHANGED finished
     ELSE finished' = finished \cup {t} /\ UNCHANGED morsel
  /\ UNCHANGED <<table, seqscan, total_morsels, delivered>>

Read(t) ==
  /\ morsel[t] # None
  /\ \E g \in DOMAIN row_groups :
       /\ MorselsBefore(g) <= morsel[t] /\ morsel[t] < MorselsBefore(g) + Morsels(g)
       /\ LET start == (morsel[t] - MorselsBefore(g)) * VECTOR_SIZE
              n     == Smaller(VECTOR_SIZE, Count(g) - start)
          IN  delivered' = Append(delivered, SubSeq(row_groups[g].rows, start + 1, start + n))
  /\ morsel' = [morsel EXCEPT ![t] = None]
  /\ UNCHANGED <<table, seqscan, total_morsels, next_morsel, finished>>

(* The ParallelScanState is destroyed after the last task is done.         *)
EndParallelScan ==
  /\ total_morsels # None /\ finished = Tasks
  /\ total_morsels' = None
  /\ UNCHANGED <<table, seqscan, next_morsel, morsel, finished, delivered>>
-----------------------------------------------------------------------------
Room(n) == total_rows + n <= MaxTableRows

TableNext ==
  \/ \E n \in 1 .. VECTOR_SIZE : Room(n) /\ Append_(NewRows(total_rows, n))
  \/ \E m, n \in 0 .. ROW_GROUP_SIZE :
       Room(m + n) /\ AppendRowGroups(<<NewRows(total_rows, m), NewRows(total_rows + m, n)>>)
  \/ \E s \in Scans : InitScan(s) \/ Scan(s)
  \/ InitParallelScan \/ EndParallelScan
  \/ \E t \in Tasks : Claim(t) \/ Read(t)

TableSpec == TableInit /\ [][TableNext]_tableVars

-----------------------------------------------------------------------------
(* A scan that was told there is no more has delivered all the table had   *)
(* at that moment, however many appends overtook it.                       *)
EndsAtTheEnd ==
  [][\A s \in Scans : s \in ended' \ ended => got'[s] = Contents]_tableVars

(* The table is a sequence that grows at its end, and a scan delivers it   *)
(* in order, each row once and none missing when it ends.                  *)
Store == INSTANCE RowStore WITH VectorSize <- VECTOR_SIZE,
                                rows <- Contents
ScansInOrderOnce == Store!Spec /\ EndsAtTheEnd

(* No two tasks are given the same row, wherever their claims and reads    *)
(* interleave, and when all have finished every row was given to one.      *)
DeliveredRows == FlattenSeq(delivered)
EachRowOnce ==
  /\ IsInjective(DeliveredRows)
  /\ total_morsels # None /\ finished = Tasks => ToSet(DeliveredRows) = ToSet(Contents)

=============================================================================
