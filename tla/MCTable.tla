------------------------------ MODULE MCTable ------------------------------
(* Instances of Table. *)
EXTENDS Table, TLC

CONSTANTS ann, bob

NoReferrers == [u \in {} |-> u]
AnnReferredBob == [u \in {bob} |-> ann]

\* Users are told apart by nothing; only safety is checked under symmetry.
AnyOrder == Permutations(Users)
=============================================================================
