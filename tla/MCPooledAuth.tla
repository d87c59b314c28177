---------------------------- MODULE MCPooledAuth ----------------------------
(* Instances of PooledAuth for TLC; symmetric as AuthService is.           *)
EXTENDS PooledAuth, TLC

Symmetry == Permutations(Users) \cup Permutations(Tokens) \cup Permutations(Requests)
=============================================================================
