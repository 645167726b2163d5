----------------------------- MODULE RowStore ------------------------------
(***************************************************************************)
(* What the storage of a table promises: a sequence of rows that only      *)
(* grows at its end, and scans that deliver it in order, each row once.    *)
(* A scan may be overtaken by appends: it then delivers the new rows too.  *)
(* DataTable implements this specification.                                *)
(***************************************************************************)
EXTENDS Naturals, Sequences

CONSTANTS Scans,     \* the scans of the table
          VectorSize \* the most rows one call delivers

VARIABLES rows,  \* the content of the table
          got    \* what each scan has delivered

rvars == <<rows, got>>

Init == /\ rows = <<>>
        /\ got = [s \in Scans |-> <<>>]

Grow == /\ Len(rows') > Len(rows)
        /\ rows = SubSeq(rows', 1, Len(rows))
        /\ UNCHANGED got

Deliver(s, n) == /\ Len(got[s]) + n <= Len(rows)
                 /\ got' = [got EXCEPT ![s] = SubSeq(rows, 1, Len(@) + n)]
                 /\ UNCHANGED rows

Restart(s) == /\ got' = [got EXCEPT ![s] = <<>>]
              /\ UNCHANGED rows

Next == \/ Grow
        \/ \E s \in Scans : Restart(s) \/ \E n \in 1 .. VectorSize : Deliver(s, n)

Spec == Init /\ [][Next]_rvars
=============================================================================
