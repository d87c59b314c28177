----------------------------- MODULE MCClientQueue -----------------------------
(* The instances of ClientQueue that TLC checks: one stream of the         *)
(* connection and one of a connection that was resumed on it.              *)
EXTENDS ClientQueue, TLC

OwnReaders == {"own"}
ForeignReaders == {"foreign"}
=============================================================================
