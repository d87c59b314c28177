----------------------------- MODULE MCJwtTokens -----------------------------
(* The TTLs differ, and one is shorter than a second; users are            *)
(* interchangeable.                                                        *)
EXTENDS JwtTokens, TLC

Symmetry == Permutations(Users)
=============================================================================
