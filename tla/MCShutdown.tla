------------------------------ MODULE MCShutdown ------------------------------
(* The instance of Shutdown that TLC checks.                               *)
EXTENDS Shutdown, TLC
=============================================================================
