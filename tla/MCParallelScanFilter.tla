----------------------- MODULE MCParallelScanFilter ------------------------
(* Two calls share two workers; the last morsel has no row that passes,    *)
(* and the second may make a task of the first call throw.                 *)
EXTENDS ParallelScanFilter

CONSTANTS a, b, w1, w2

TwoTasksEach == [c \in Callers |-> 2]
SecondOfA    == [c \in Callers |-> IF c = a THEN {1} ELSE {}]
=============================================================================
