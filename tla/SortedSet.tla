----------------------------- MODULE SortedSet ------------------------------
(***************************************************************************)
(* What the sorted-set commands promise on one key: a set of members, each *)
(* with a score, the number of members each command added or removed, and *)
(* a refusal when the key holds something else.                            *)
(***************************************************************************)
CONSTANTS Member, Score, Other

VARIABLES value, reply

vars == <<value, reply>>

Init == value = {} /\ reply = "none"

Has(m) == \E e \in value : e.member = m
Others(m) == {e \in value : e.member # m}

Add(m, s) ==
  /\ value # Other
  /\ reply' = IF Has(m) THEN "0" ELSE "1"
  /\ value' = Others(m) \cup {[member |-> m, score |-> s]}

Remove(m) ==
  /\ value # Other
  /\ reply' = IF Has(m) THEN "1" ELSE "0"
  /\ value' = Others(m)

Refuse == reply' = "WRONGTYPE" /\ value = Other /\ value' = value

\* Another command gives the key another type, or the key goes away.
Replace == reply' = "none" /\ value' = Other
Vanish == reply' = "none" /\ value' = {}

Next ==
  \/ \E m \in Member : Remove(m) \/ \E s \in Score : Add(m, s)
  \/ Refuse \/ Replace \/ Vanish

Spec == Init /\ [][Next]_vars
=============================================================================
