----------------------------- MODULE StreamSlots -----------------------------
(***************************************************************************)
(* What the SFU is promised by the signaling service: a connection has one *)
(* signal stream open at a time, and a new one is opened only after the    *)
(* one before it has broken or been cancelled.  A stream belongs to the    *)
(* connection it was opened for and is never handed to another.  Signaling *)
(* implements this with the slot Client.signalStream, the mutex            *)
(* streamInitMu and TakeSignalStream.                                      *)
(***************************************************************************)
CONSTANTS
    Connections,
    Streams         \* names of streams; a closed one may be used again

VARIABLE open       \* the streams of each connection that are open

Init == open = [c \in Connections |-> {}]

Open(c, s) ==
    /\ open[c] = {}
    /\ \A d \in Connections : s \notin open[d]
    /\ open' = [open EXCEPT ![c] = {s}]

Close(c) ==
    /\ open[c] # {}
    /\ open' = [open EXCEPT ![c] = {}]

Next == \E c \in Connections : Close(c) \/ \E s \in Streams : Open(c, s)

Spec == Init /\ [][Next]_open
=============================================================================
