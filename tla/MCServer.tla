------------------------------ MODULE MCServer ------------------------------
(***************************************************************************)
(* TLC instance of Server: one client that sends good and bad commands,    *)
(* and one that blocks or becomes a replica.                               *)
(***************************************************************************)
EXTENDS Server

CONSTANTS c1, c2

TwoSends == (c1 :> {"write", "bad"}) @@ (c2 :> {"blocks", "PSYNC"})
TwoBounds == (c1 :> 2) @@ (c2 :> 1)
=============================================================================
