------------------------------ MODULE MCAccounts ------------------------------
(* Accounts with two requests at a time. *)
EXTENDS Accounts, TLC

CONSTANTS r1, r2, t1, t2

TwoRequests == {r1, r2}
TwoTokens == {t1, t2}
Interchangeable == Permutations(TwoRequests) \cup Permutations(TwoTokens)
=============================================================================
