---------------------------- MODULE MCWithdrawals ----------------------------
(* Instances of Withdrawals; users and requests are told apart by nothing. *)
EXTENDS Withdrawals, TLC

AnyOrder == Permutations(Users) \cup Permutations(Requests)
=============================================================================
