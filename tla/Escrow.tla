------------------------------- MODULE Escrow -------------------------------
(***************************************************************************)
(* What withdrawals promise: money set aside for a payout is either paid    *)
(* out or given back, all of it and once, and a user has one payout coming  *)
(* at a time.                                                               *)
(***************************************************************************)
EXTENDS Naturals

CONSTANTS Users, Amounts, InitialWallet

VARIABLES
  free,    \* what a user can spend, in his wallet or on a table
  held,    \* what is set aside for his payout
  paid     \* what has been sent to his bank

vars == <<free, held, paid>>

Init ==
  /\ free = [u \in Users |-> InitialWallet]
  /\ held = [u \in Users |-> 0]
  /\ paid = [u \in Users |-> 0]

SetAside(u, amount) ==
  /\ held[u] = 0
  /\ amount <= free[u]
  /\ free' = [free EXCEPT ![u] = @ - amount]
  /\ held' = [held EXCEPT ![u] = amount]
  /\ UNCHANGED paid

PayOut(u) ==
  /\ paid' = [paid EXCEPT ![u] = @ + held[u]]
  /\ held' = [held EXCEPT ![u] = 0]
  /\ UNCHANGED free

GiveBack(u) ==
  /\ free' = [free EXCEPT ![u] = @ + held[u]]
  /\ held' = [held EXCEPT ![u] = 0]
  /\ UNCHANGED paid

Next ==
  \E u \in Users :
    \/ \E amount \in Amounts : SetAside(u, amount)
    \/ PayOut(u)
    \/ GiveBack(u)

Spec == Init /\ [][Next]_vars
=============================================================================
