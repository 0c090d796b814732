--------------------------- MODULE MCReplication ---------------------------
(***************************************************************************)
(* TLC instance of Replication.  The writers differ in nothing but their   *)
(* names.                                                                  *)
(***************************************************************************)
EXTENDS Replication

Symmetry == Permutations(Writer)
=============================================================================
