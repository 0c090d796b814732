--------------------------- MODULE MCBlockingList ---------------------------
(***************************************************************************)
(* TLC instances of BlockingList.                                          *)
(***************************************************************************)
EXTENDS BlockingList, TLC

CONSTANTS p1, p2, v1, v2, v3

\* Two pushers, the second one with two values.
TwoPushes == (p1 :> <<v1>>) @@ (p2 :> <<v2, v3>>)

\* One pusher of one value.
OnePush == (p1 :> <<v1>>)
=============================================================================
