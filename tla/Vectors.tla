------------------------------- MODULE Vectors -------------------------------
(* A vector holds VECTOR_SIZE values, any of which may be NULL: what all that *)
(* works on rows is written with.                                             *)
EXTENDS Integers

CONSTANTS VectorSize, \* VECTOR_SIZE
          Null        \* NULL

ASSUME VectorAssumption == VectorSize \in Nat \ {0}
=============================================================================
