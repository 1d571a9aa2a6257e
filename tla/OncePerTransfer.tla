-------------------------- MODULE OncePerTransfer --------------------------
(***************************************************************************)
(* What deposits promise: a bank transfer becomes wallet money at most once *)
(* and only if the bank knows it.                                           *)
(***************************************************************************)
CONSTANTS
  Transfers,   \* the bank's transfers, by reference
  Users

VARIABLE paidTo   \* transfer -> the user it was credited to, as far as it was

Init == paidTo = [t \in {} |-> t]

Credit(t, u) ==
  /\ t \notin DOMAIN paidTo
  /\ paidTo' = [x \in DOMAIN paidTo \cup {t} |-> IF x = t THEN u ELSE paidTo[x]]

Next == \E t \in Transfers, u \in Users : Credit(t, u)

Spec == Init /\ [][Next]_paidTo
=============================================================================
