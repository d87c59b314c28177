------------------------------- MODULE MCAuth -------------------------------
(***************************************************************************)
(* Instances of AuthService for TLC.  Requests, tokens and users are       *)
(* interchangeable: no action of AuthService names one of them.            *)
(***************************************************************************)
EXTENDS AuthService, TLC

Symmetry == Permutations(Users) \cup Permutations(Tokens) \cup Permutations(Requests)
=============================================================================
