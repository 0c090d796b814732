--------------------------- MODULE MCCommandLog -----------------------------
(* Model checking of CommandLog: the clients are interchangeable.          *)
EXTENDS CommandLog

Symmetry == Permutations(Client)
=============================================================================
