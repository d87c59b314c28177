----------------------------- MODULE MCKeepAlive -----------------------------
(* The times leave 4 units of PongWait, and readPump may be behind longer: *)
(* a client that is alive is dropped too.                                  *)
EXTENDS KeepAlive
=============================================================================
