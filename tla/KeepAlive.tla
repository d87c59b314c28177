------------------------------ MODULE KeepAlive ------------------------------
(***************************************************************************)
(* Pings, pongs and the read deadline of a WebSocket (configureConn,       *)
(* writePump and readPump in internal/handlers/ws.go), with time in        *)
(* discrete units.                                                         *)
(*                                                                         *)
(* writePump sends a ping on every tick of its ticker, some time later if  *)
(* it is writing.  The client answers with a pong.  Only the handler of a  *)
(* pong moves the read deadline, and it runs inside ReadMessage.  readPump *)
(* serves the requests of the client itself, in the order they came, so a  *)
(* pong waits behind the requests that came before it, and a read after    *)
(* the deadline may fail whatever has arrived.  Nothing bounds the time    *)
(* the requests take.                                                      *)
(***************************************************************************)
EXTENDS Integers

CONSTANTS
    PingPeriod, \* WSHandlerConfig.PingPeriod (50 s unless configured)
    PongWait,   \* WSHandlerConfig.PongWait (60 s unless configured)
    Lag,        \* longest time from a tick to the ping being written
    RoundTrip,  \* longest time from a ping to its pong, while the client lives
    MaxBusy     \* bounds the time readPump is behind

ASSUME TimesAssumption ==
    /\ PingPeriod \in Nat \ {0} /\ PongWait \in Nat
    /\ Lag \in Nat /\ RoundTrip \in Nat /\ MaxBusy \in Nat

VARIABLES
    toTick,     \* time to the next tick
    due,        \* time since a tick that has not led to a ping, or None
    pings,      \* times since the pings were sent that have no pong yet
    pongs,      \* how many pongs have arrived and are unread
    busy,       \* how long readPump has not caught up with the client, or None
    longest,    \* history: the longest that readPump has been behind
    deadline,   \* time to the read deadline, negative when it is over
    client,     \* alive or vanished
    conn,       \* up or down
    silent      \* time since the client has vanished

vars == <<toTick, due, pings, pongs, busy, longest, deadline, client, conn, silent>>

None == -1

Init ==
    /\ toTick = PingPeriod
    /\ due = None /\ busy = None /\ longest = 0
    /\ pings = {} /\ pongs = 0
    /\ deadline = PongWait
    /\ client = "alive" /\ conn = "up"
    /\ silent = 0

Reading == conn = "up" /\ busy = None
-----------------------------------------------------------------------------
\* ReadMessage has returned a request and its handler runs in readPump.  The
\* requests behind it are served in one run with it.
Handle ==
    /\ Reading /\ deadline > 0
    /\ busy' = 0
    /\ UNCHANGED <<toTick, due, pings, pongs, longest, deadline, client, conn, silent>>

\* Nothing is left to read.
ReadAgain ==
    /\ conn = "up" /\ busy # None /\ pongs = 0
    /\ busy' = None
    /\ UNCHANGED <<toTick, due, pings, pongs, longest, deadline, client, conn, silent>>

\* The next thing read is a pong.  Between two requests it may be in the
\* buffer of the connection already and be read after the deadline.
ReadPong ==
    /\ conn = "up" /\ pongs > 0
    /\ deadline > 0 \/ busy # None
    /\ pongs' = pongs - 1

\* A version of HandlePong that leaves the deadline of configureConn.
HandlePongIgnored ==
    /\ ReadPong
    /\ UNCHANGED <<toTick, due, pings, busy, longest, deadline, client, conn, silent>>

\* A version of HandlePong that adds PongWait to the old deadline.
HandlePongAdds ==
    /\ ReadPong
    /\ deadline' = deadline + PongWait
    /\ UNCHANGED <<toTick, due, pings, busy, longest, client, conn, silent>>

\* The PongHandler.
HandlePong ==
    /\ ReadPong
    /\ deadline' = PongWait
    /\ UNCHANGED <<toTick, due, pings, busy, longest, client, conn, silent>>

\* ReadMessage returns a timeout, also when a pong has come too late, and
\* between two requests when the next one has to be read from the network.
ReadTimesOut ==
    /\ conn = "up" /\ deadline <= 0
    /\ conn' = "down"
    /\ UNCHANGED <<toTick, due, pings, pongs, busy, longest, deadline, client, silent>>

SendPing ==
    /\ conn = "up" /\ due # None
    /\ due' = None
    /\ pings' = pings \cup {0}
    /\ UNCHANGED <<toTick, pongs, busy, longest, deadline, client, conn, silent>>

PongArrives(age) ==
    /\ client = "alive" /\ age \in pings
    /\ pings' = pings \ {age}
    /\ pongs' = pongs + 1
    /\ UNCHANGED <<toTick, due, busy, longest, deadline, client, conn, silent>>

Vanish ==
    /\ client = "alive" /\ conn = "up"
    /\ client' = "vanished"
    /\ pings' = {}
    /\ UNCHANGED <<toTick, due, pongs, busy, longest, deadline, conn, silent>>

\* Nothing that has to happen now is left to do.
MayWait ==
    /\ conn = "up"
    /\ due # Lag
    /\ client = "alive" => RoundTrip \notin pings
    /\ busy # MaxBusy
    /\ ~(Reading /\ (pongs > 0 \/ deadline <= 0))

\* One unit of time.  The channel of the ticker holds one tick.
TimePasses ==
    /\ MayWait
    /\ toTick' = IF toTick = 1 THEN PingPeriod ELSE toTick - 1
    /\ due' = IF due # None THEN due + 1 ELSE IF toTick = 1 THEN 0 ELSE None
    /\ pings' = IF client = "alive" THEN {age + 1 : age \in pings} ELSE {}
    /\ busy' = IF busy = None THEN None ELSE busy + 1
    /\ longest' = IF busy' > longest THEN busy' ELSE longest
    /\ deadline' = deadline - 1
    /\ silent' = IF client = "alive" THEN 0 ELSE silent + 1
    /\ UNCHANGED <<pongs, client, conn>>

Down == conn = "down" /\ UNCHANGED vars

Next ==
    \/ Handle \/ ReadAgain \/ HandlePong \/ ReadTimesOut
    \/ SendPing \/ (\E age \in pings : PongArrives(age))
    \/ Vanish \/ TimePasses \/ Down

Spec == Init /\ [][Next]_vars
-----------------------------------------------------------------------------
\* A client that answers pings loses its connection only when readPump has
\* been behind for what the ping period, the lag of the ping and the round
\* trip leave of PongWait: ticks lost, pings under way and pongs read late do
\* not add up (configureConn, writePump, readPump).  Nothing in the code keeps
\* requests from taking that long.
LiveKept ==
    client = "alive" /\ conn = "down" => PongWait <= PingPeriod + Lag + RoundTrip + longest

\* A client that has vanished is found out in time: the deadline that its
\* last pong has set, which may have been read as late as readPump was behind,
\* and what readPump is behind once more when it is over.
VanishedDropped == conn = "up" => silent <= PongWait + 2 * longest
=============================================================================
