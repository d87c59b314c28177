----------------------------- MODULE MCSignaling -----------------------------
(***************************************************************************)
(* Instances of Signaling for TLC: one user with one or two connections.   *)
(* Streams and sessions are interchangeable, and so are the connections.   *)
(***************************************************************************)
EXTENDS Signaling, TLC

CONSTANT User

OneUser == [c \in Clients |-> User]

Symmetry == Permutations(Streams) \cup Permutations(Sessions) \cup Permutations(Clients)
=============================================================================
