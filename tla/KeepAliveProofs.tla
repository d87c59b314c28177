---------------------------- MODULE KeepAliveProofs ----------------------------
(***************************************************************************)
(* When a client that answers may lose its connection, and how long one    *)
(* that has vanished may keep it, for all periods and delays and however   *)
(* long readPump is behind; also when PingPeriod is shorter than Lag or    *)
(* RoundTrip, so that ticks are lost and several pings are out.            *)
(***************************************************************************)
EXTENDS KeepAlive, TLAPS

\* The range of every clock.
Clocks ==
    /\ toTick \in 1 .. PingPeriod
    /\ due = None \/ due \in 0 .. Lag
    /\ busy = None \/ busy \in 0 .. longest
    /\ longest \in Nat /\ silent \in Nat /\ pongs \in Nat
    /\ deadline \in Int /\ deadline <= PongWait
    /\ pings \subseteq Nat
    /\ client \in {"alive", "vanished"} /\ conn \in {"up", "down"}

\* While the client lives it is not silent and none of its pings is too old.
PingsFresh == client = "alive" => silent = 0 /\ \A age \in pings : age <= RoundTrip

\* The time since the deadline was set, and how long it may take from then on
\* until the next pong arrives.
Elapsed == PongWait - deadline
Budget  == PingPeriod + Lag + RoundTrip

\* How long readPump is behind now.
Behind == IF busy = None THEN 0 ELSE busy

\* The next pong is in time, wherever it is on its way: it waits for readPump,
\* or is still to come for a ping that has been sent, for a tick that writePump
\* has not taken, or for the next tick.  Of several pings that are out it is
\* enough that the oldest is answered in time.
PongsInTime ==
    client = "alive" /\ conn = "up" =>
        /\ pongs > 0 => Elapsed <= Budget + Behind
        /\ pongs = 0 /\ pings # {} =>
              \E age \in pings : Elapsed + RoundTrip - age <= Budget
        /\ pongs = 0 /\ pings = {} /\ due # None =>
              Elapsed + Lag - due + RoundTrip <= Budget
        /\ pongs = 0 /\ pings = {} /\ due = None =>
              Elapsed + toTick + Lag + RoundTrip <= Budget

\* How long the client may have been silent: a pong that is unread arrived
\* while readPump was behind, the deadline was last moved no later than that,
\* and nobody waits for long when it is over.
SilenceBounded ==
    conn = "up" =>
        /\ pongs > 0 => silent <= Behind
        /\ silent + deadline <= PongWait + longest
        /\ busy # None => 0 <= deadline + busy
        /\ 0 <= deadline + longest

\* The inductive invariant.
KeepAliveInv == Clocks /\ PingsFresh /\ PongsInTime /\ SilenceBounded /\ LiveKept

\* What the lengths are.
LEMMA Lengths ==
    ASSUME Clocks
    PROVE  /\ Behind \in Nat /\ Behind <= longest
           /\ Elapsed \in Nat /\ Budget \in Nat
<1>1. Behind \in Nat /\ Behind <= longest
  BY DEF Clocks, Behind, None
<1>2. Elapsed \in Nat
  BY TimesAssumption DEF Clocks, Elapsed
<1>3. Budget \in Nat
  BY TimesAssumption DEF Budget
<1> QED
  BY <1>1, <1>2, <1>3

\* A request, a read and a ping do not move the deadline.
LEMMA PumpsStep ==
    ASSUME KeepAliveInv, Handle \/ ReadAgain \/ SendPing
    PROVE  KeepAliveInv'
<1> USE TimesAssumption DEF KeepAliveInv, None, Elapsed, Budget, Behind
<1>1. ASSUME Handle
      PROVE  KeepAliveInv'
  <2>1. Clocks' /\ PingsFresh' /\ LiveKept'
    BY <1>1 DEF Handle, Clocks, PingsFresh, LiveKept
  <2>2. PongsInTime'
    BY <1>1 DEF Handle, Reading, PongsInTime, Clocks
  <2>3. SilenceBounded'
    BY <1>1 DEF Handle, Reading, SilenceBounded, Clocks
  <2> QED
    BY <2>1, <2>2, <2>3
<1>2. ASSUME ReadAgain
      PROVE  KeepAliveInv'
  <2>1. Clocks' /\ PingsFresh' /\ LiveKept'
    BY <1>2 DEF ReadAgain, Clocks, PingsFresh, LiveKept
  <2>2. PongsInTime'
    BY <1>2 DEF ReadAgain, PongsInTime, Clocks
  <2>3. SilenceBounded'
    BY <1>2 DEF ReadAgain, SilenceBounded, Clocks
  <2> QED
    BY <2>1, <2>2, <2>3
<1>3. ASSUME SendPing
      PROVE  KeepAliveInv'
  <2>1. Clocks' /\ LiveKept' /\ SilenceBounded'
    BY <1>3 DEF SendPing, Clocks, LiveKept, SilenceBounded
  <2>2. PingsFresh'
    BY <1>3 DEF SendPing, PingsFresh, Clocks
  <2>3. PongsInTime'
    <3>1. /\ conn = "up" /\ due # None /\ pings' = pings \cup {0}
          /\ UNCHANGED <<toTick, pongs, busy, longest, deadline, client, conn>>
      BY <1>3 DEF SendPing
    <3>2. Elapsed' = Elapsed /\ Behind' = Behind /\ 0 \in pings'
      BY <3>1
    <3>3. CASE pongs = 0 /\ pings = {} /\ client = "alive"
      <4>1. Elapsed + RoundTrip - 0 <= Budget
        BY <3>1, <3>3 DEF PongsInTime, Clocks
      <4> QED
        BY <3>1, <3>2, <3>3, <4>1 DEF PongsInTime
    <3>4. CASE ~(pongs = 0 /\ pings = {})
      BY <3>1, <3>2, <3>4 DEF PongsInTime
    <3> QED
      BY <3>1, <3>3, <3>4 DEF PongsInTime
  <2> QED
    BY <2>1, <2>2, <2>3
<1> QED
  BY <1>1, <1>2, <1>3

\* A pong that is read moves the deadline; one that arrives waits for readPump.
LEMMA PongsStep ==
    ASSUME KeepAliveInv, HandlePong \/ ReadTimesOut \/ (\E age \in pings : PongArrives(age))
    PROVE  KeepAliveInv'
<1> USE TimesAssumption DEF KeepAliveInv, None
<1>1. ASSUME HandlePong
      PROVE  KeepAliveInv'
  <2>1. Clocks' /\ PingsFresh' /\ LiveKept'
    BY <1>1 DEF HandlePong, ReadPong, Clocks, PingsFresh, LiveKept
  <2>2. PongsInTime'
    <3>1. deadline' = PongWait /\ UNCHANGED <<toTick, due, pings, busy, client, conn>>
      BY <1>1 DEF HandlePong
    <3>2. 0 <= Behind
      BY DEF Clocks, Behind
    <3>3. ASSUME client = "alive", NEW age \in pings
          PROVE  RoundTrip - age <= Budget
      BY <3>3 DEF Clocks, Budget
    <3>4. Lag - due + RoundTrip <= Budget \/ due = None
      BY DEF Clocks, Budget
    <3>5. toTick + Lag + RoundTrip <= Budget
      BY DEF Clocks, Budget
    <3>6. Elapsed' = 0 /\ Behind' = Behind /\ Budget \in Nat /\ 0 <= Budget + Behind
      <4>1. Elapsed' = 0 /\ Behind' = Behind
        BY <3>1 DEF Elapsed, Behind
      <4> QED
        BY <4>1, Lengths
    <3>7. client' = "alive" /\ pings' # {} => \E age \in pings' : RoundTrip - age <= Budget
      BY <3>1, <3>3
    <3> QED
      BY <3>1, <3>4, <3>5, <3>6, <3>7 DEF PongsInTime, Budget, Clocks
  <2>3. SilenceBounded'
    BY <1>1 DEF HandlePong, ReadPong, SilenceBounded, Clocks, Behind
  <2> QED
    BY <2>1, <2>2, <2>3
<1>2. ASSUME ReadTimesOut
      PROVE  KeepAliveInv'
  <2>1. LiveKept'
    <3> SUFFICES ASSUME client = "alive"
                 PROVE  PongWait <= Budget + longest
      BY <1>2 DEF ReadTimesOut, LiveKept, Budget
    <3>1. PongWait <= Elapsed /\ conn = "up"
      BY <1>2 DEF ReadTimesOut, Elapsed, Clocks
    <3>2. CASE pongs > 0
      <4>1. Elapsed <= Budget + Behind
        BY <3>1, <3>2 DEF PongsInTime
      <4> QED
        BY <3>1, <4>1, Lengths DEF Clocks
    <3>3. CASE pongs = 0 /\ pings # {}
      <4>1. PICK age \in pings : Elapsed + RoundTrip - age <= Budget
        BY <3>1, <3>3 DEF PongsInTime
      <4>2. age \in Nat /\ age <= RoundTrip
        BY DEF Clocks, PingsFresh
      <4> QED
        BY <3>1, <4>1, <4>2 DEF Clocks, Elapsed, Budget
    <3>4. CASE pongs = 0 /\ pings = {}
      BY <3>1, <3>4 DEF PongsInTime, Clocks, Elapsed, Budget
    <3> QED
      BY <3>2, <3>3, <3>4 DEF Clocks
  <2> QED
    BY <1>2, <2>1 DEF ReadTimesOut, Clocks, PingsFresh, PongsInTime, SilenceBounded
<1>3. ASSUME NEW age \in pings, PongArrives(age)
      PROVE  KeepAliveInv'
  <2>1. Clocks' /\ PingsFresh' /\ LiveKept'
    BY <1>3 DEF PongArrives, Clocks, PingsFresh, LiveKept
  <2>2. PongsInTime'
    <3> SUFFICES ASSUME conn = "up"
                 PROVE  Elapsed <= Budget + Behind
      <4>1. /\ pongs' = pongs + 1 /\ pongs' > 0 /\ pongs' # 0
            /\ UNCHANGED <<busy, longest, deadline, conn>>
        BY <1>3 DEF PongArrives, Clocks
      <4>2. Elapsed' = Elapsed /\ Behind' = Behind
        BY <4>1 DEF Elapsed, Behind
      <4> QED
        BY <4>1, <4>2 DEF PongsInTime
    <3>1. client = "alive" /\ pings # {}
      BY <1>3 DEF PongArrives
    <3>2. CASE pongs > 0
      BY <3>1, <3>2 DEF PongsInTime
    <3>3. CASE pongs = 0
      <4>1. PICK oldest \in pings : Elapsed + RoundTrip - oldest <= Budget
        BY <3>1, <3>3 DEF PongsInTime
      <4>2. oldest \in Nat /\ oldest <= RoundTrip
        BY <3>1 DEF Clocks, PingsFresh
      <4> QED
        BY <4>1, <4>2, Lengths
    <3> QED
      BY <3>2, <3>3 DEF Clocks
  <2>3. SilenceBounded'
    BY <1>3 DEF PongArrives, SilenceBounded, Clocks, PingsFresh, Behind
  <2> QED
    BY <2>1, <2>2, <2>3
<1> QED
  BY <1>1, <1>2, <1>3

\* Time brings the next pong nearer as fast as the deadline.
LEMMA TimeStep ==
    ASSUME KeepAliveInv, TimePasses
    PROVE  KeepAliveInv'
<1> USE TimesAssumption DEF KeepAliveInv, None
<1>1. Clocks'
  <2>1. toTick' \in 1 .. PingPeriod /\ silent' \in Nat
    BY DEF TimePasses, Clocks
  <2>2. due' = None \/ due' \in 0 .. Lag
    BY DEF TimePasses, MayWait, Clocks
  <2>3. /\ longest' \in Nat /\ (busy' = None \/ busy' \in 0 .. longest')
        /\ deadline' \in Int /\ deadline' <= PongWait
    BY DEF TimePasses, Clocks
  <2>4. pings' \subseteq Nat
    BY DEF TimePasses, Clocks
  <2> QED
    BY <2>1, <2>2, <2>3, <2>4 DEF TimePasses, Clocks
<1>2. PingsFresh'
  BY DEF TimePasses, MayWait, PingsFresh, Clocks
<1>3. PongsInTime'
  <2> SUFFICES ASSUME client = "alive", conn = "up"
               PROVE  PongsInTime'
    BY DEF PongsInTime, TimePasses
  <2>1. CASE pongs > 0
    <3>1. /\ busy # None /\ busy' = busy + 1 /\ busy' # None
          /\ deadline' = deadline - 1 /\ pongs' = pongs
      BY <2>1 DEF TimePasses, MayWait, Reading, Clocks
    <3>2. Elapsed' = Elapsed + 1 /\ Behind' = Behind + 1
      BY <3>1 DEF Elapsed, Behind, Clocks
    <3>3. Elapsed <= Budget + Behind
      BY <2>1 DEF PongsInTime
    <3>4. Elapsed' <= Budget + Behind'
      BY <3>2, <3>3, Lengths
    <3> QED
      BY <2>1, <3>1, <3>4 DEF PongsInTime, Clocks
  <2>2. CASE pongs = 0 /\ pings # {}
    <3>1. PICK age \in pings : Elapsed + RoundTrip - age <= Budget
      BY <2>2 DEF PongsInTime
    <3>2. age \in Nat /\ age <= RoundTrip /\ age + 1 \in pings'
      BY DEF TimePasses, Clocks, PingsFresh
    <3>3. Elapsed' + RoundTrip - (age + 1) <= Budget
      BY <3>1, <3>2 DEF TimePasses, Clocks, Elapsed, Budget
    <3> QED
      <4>1. pongs' = 0 /\ pings' # {}
        BY <2>2, <3>2 DEF TimePasses
      <4> QED
        BY <3>2, <3>3, <4>1 DEF PongsInTime
  <2>3. CASE pongs = 0 /\ pings = {}
    <3>1. pings' = {} /\ pongs' = pongs
      BY <2>3 DEF TimePasses
    <3>2. CASE due # None
      BY <2>3, <3>1, <3>2 DEF TimePasses, MayWait, PongsInTime, Clocks, Elapsed, Budget
    <3>3. CASE due = None
      BY <2>3, <3>1, <3>3 DEF TimePasses, PongsInTime, Clocks, Elapsed, Budget
    <3> QED
      BY <3>2, <3>3
  <2> QED
    BY <2>1, <2>2, <2>3 DEF Clocks
<1>4. SilenceBounded'
  BY DEF TimePasses, MayWait, Reading, SilenceBounded, Clocks, PingsFresh, Behind
<1>5. LiveKept'
  BY DEF TimePasses, MayWait, LiveKept
<1> QED
  BY <1>1, <1>2, <1>3, <1>4, <1>5

\* Every step keeps the invariant.
LEMMA KeepAliveStep == KeepAliveInv /\ [Next]_vars => KeepAliveInv'
<1> SUFFICES ASSUME KeepAliveInv, [Next]_vars
             PROVE  KeepAliveInv'
  OBVIOUS
<1>1. ASSUME Vanish
      PROVE  KeepAliveInv'
  <2>1. Clocks' /\ PingsFresh' /\ LiveKept' /\ PongsInTime'
    BY <1>1 DEF Vanish, KeepAliveInv, Clocks, PingsFresh, LiveKept, PongsInTime
  <2>2. SilenceBounded'
    BY <1>1 DEF Vanish, KeepAliveInv, SilenceBounded, Behind
  <2> QED
    BY <2>1, <2>2 DEF KeepAliveInv
<1>2. CASE UNCHANGED vars
  BY <1>2 DEF vars, KeepAliveInv, Clocks, PingsFresh, PongsInTime, SilenceBounded, LiveKept,
              Elapsed, Budget, Behind
<1>3. Down => UNCHANGED vars
  BY DEF Down
<1> QED
  BY <1>1, <1>2, <1>3, PumpsStep, PongsStep, TimeStep DEF Next

\* The invariant holds in every reachable state.
LEMMA KeepAliveCorrect == Spec => []KeepAliveInv
<1>1. Init => KeepAliveInv
  <2> SUFFICES ASSUME Init
               PROVE  KeepAliveInv
    OBVIOUS
  <2> USE TimesAssumption DEF Init, None
  <2>1. Clocks /\ PingsFresh /\ LiveKept
    BY DEF Clocks, PingsFresh, LiveKept
  <2>2. PongsInTime
    BY DEF PongsInTime, Elapsed, Budget
  <2>3. SilenceBounded
    BY DEF SilenceBounded
  <2> QED
    BY <2>1, <2>2, <2>3 DEF KeepAliveInv
<1> QED
  BY <1>1, KeepAliveStep, PTL DEF Spec
-----------------------------------------------------------------------------
\* A client that answers pings loses its connection only when readPump has been
\* behind for what PingPeriod, Lag and RoundTrip leave of PongWait, for all
\* values of these times.
THEOREM AliveIsKept == Spec => []LiveKept
<1>1. KeepAliveInv => LiveKept
  BY DEF KeepAliveInv
<1> QED
  BY <1>1, KeepAliveCorrect, PTL

\* A client that has vanished is found out PongWait and twice the longest time
\* readPump has been behind later, at the latest.
THEOREM VanishedIsDropped == Spec => []VanishedDropped
<1>1. KeepAliveInv => VanishedDropped
  BY TimesAssumption DEF KeepAliveInv, SilenceBounded, VanishedDropped, Clocks
<1> QED
  BY <1>1, KeepAliveCorrect, PTL
=============================================================================
