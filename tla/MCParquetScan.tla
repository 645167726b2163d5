--------------------------- MODULE MCParquetScan ----------------------------
(* A file whose second group has no rows and whose third has more than a   *)
(* chunk; the last one may be broken.                                      *)
EXTENDS ParquetScan

SmallSizes == [g \in Groups |-> CASE g = 1 -> 0 [] g = 2 -> 3 [] OTHER -> 1]

Plain == [mode |-> "rows", limit |-> NoLimit, offset |-> 0, pruned |-> {}, broken |-> {},
          enough |-> FALSE, leftOfJoin |-> FALSE]

SmallRequests ==
  {[Plain EXCEPT !.leftOfJoin = TRUE],
   [Plain EXCEPT !.pruned = {0, 4}, !.broken = {4}],
   [Plain EXCEPT !.broken = {4}],
   [Plain EXCEPT !.limit = 0],
   [Plain EXCEPT !.limit = 1, !.broken = {0}],
   [Plain EXCEPT !.limit = 1, !.offset = 1],
   [Plain EXCEPT !.limit = 2, !.offset = 3]}
  \cup
  {[Plain EXCEPT !.mode = "groups", !.enough = e, !.broken = b, !.pruned = p] :
     <<e, b, p>> \in {<<TRUE, {}, {}>>, <<FALSE, {4}, {}>>, <<FALSE, {0}, {0, 2}>>}}
=============================================================================
