--------------------------- MODULE SignalingProofs ---------------------------
(***************************************************************************)
(* What Signaling guarantees for any number of connections, sessions and   *)
(* streams.  The inductive invariant is built in layers, each proved from  *)
(* the ones before it.                                                     *)
(***************************************************************************)
EXTENDS Signaling, FiniteSetTheorems, TLAPS

HandlerLabels ==
    Ensuring \cup {"idle", "call", "rejoin", "token", "get", "send", "check", "take",
                   "unregister", "detach", "detachAndLeave", "leave", "gone"}
ReaderLabels == {"dead", "recv", "check", "take", "schedule", "start"}
LoopLabels   == Ensuring \cup {"dead", "wait", "finish"}

Ending  == {"unregister", "detach", "detachAndLeave", "leave", "gone"}
Opening == {"connect", "publish"}

\* Each thread runs the code of its kind.
LabelsOK ==
    /\ pc \in [Threads -> HandlerLabels \cup ReaderLabels \cup LoopLabels]
    /\ \A c \in Clients : pc[Handler(c)] \in HandlerLabels
    /\ \A s \in Streams : pc[Reader(s)] \in ReaderLabels /\ pc[Loop(s)] \in LoopLabels

\* A connection without a session has an idle handler, one that asks for a
\* session, or has left.
Located ==
    \A c \in Clients :
        /\ pc[Handler(c)] \notin {"idle", "call", "unregister", "detach", "gone"}
             => sessionOf[c] # Nil
        /\ pc[Handler(c)] \in Ending <=> ended[c]
        /\ ended[c] => ~connUp[c]

\* A stream that is or was in use was opened for a connection.
Used(s) ==
    \/ pc[Reader(s)] # "dead" \/ pc[Loop(s)] # "dead" \/ link[s] # "idle"
    \/ \E c \in Clients : current[c] = s
    \/ \E th \in Threads : hand[th] = s

Owned == \A s \in Streams : Used(s) => owner[s] \in Clients

Types == TypeOK /\ Located /\ Owned

\* Each thread is of one kind.
LEMMA ThreadKinds ==
    /\ \A c \in Clients :
           /\ Handler(c) \in Threads /\ Handler(c) \in Handlers
           /\ Handler(c) \notin Readers /\ Handler(c) \notin Loops
    /\ \A s \in Streams :
           /\ Reader(s) \in Threads /\ Reader(s) \in Readers
           /\ Reader(s) \notin Handlers /\ Reader(s) \notin Loops
           /\ Loop(s) \in Threads /\ Loop(s) \in Loops
           /\ Loop(s) \notin Handlers /\ Loop(s) \notin Readers
    /\ Nil \notin Threads
BY NilAssumption DEF Handler, Reader, Loop, Handlers, Readers, Loops, Threads

\* Threads of different kinds, or named by different things, are different.
LEMMA ThreadNames ==
    /\ \A x, y : /\ Handler(x) = Handler(y) => x = y
                 /\ Reader(x) = Reader(y) => x = y
                 /\ Loop(x) = Loop(y) => x = y
                 /\ Handler(x) # Reader(y) /\ Handler(x) # Loop(y) /\ Reader(x) # Loop(y)
BY DEF Handler, Reader, Loop

\* Whom a thread works for.
LEMMA ThreadClients ==
    /\ \A c \in Clients : Handler(c)[2] = c /\ ClientOf(Handler(c)) = c
    /\ \A s \in Streams : /\ Reader(s)[2] = s /\ ClientOf(Reader(s)) = owner[s]
                          /\ Loop(s)[2] = s /\ ClientOf(Loop(s)) = owner[s]
BY ThreadKinds DEF Handler, Reader, Loop, ClientOf

\* Where ensureSignalStream goes on.
LEMMA AfterLabels ==
    /\ \A s \in Streams : After(Loop(s), TRUE) = "finish" /\ After(Loop(s), FALSE) = "wait"
    /\ \A c \in Clients : /\ After(Handler(c), TRUE) \in {"token", "get"}
                          /\ After(Handler(c), FALSE) = "idle"
BY ThreadKinds DEF After


\* A step of a thread to a label of its kind.
LEMMA GotoLabel ==
    ASSUME LabelsOK, NEW th \in Threads, NEW label, Goto(th, label),
           \/ th \in Handlers /\ label \in HandlerLabels
           \/ th \in Readers /\ label \in ReaderLabels
           \/ th \in Loops /\ label \in LoopLabels
    PROVE  LabelsOK'
BY ThreadKinds, ThreadNames DEF LabelsOK, Goto, Handlers, Readers, Loops

\* The connection is told that the call has failed.
Unbound(c) ==
    /\ Goto(Handler(c), "idle")
    /\ UNCHANGED <<clientVars, streamVars, sfuVars, registry, tokens, split, hand, history>>

\* The answer to a CreateSession or a JoinSession binds the connection, or
\* changes nothing it knows of.
LEMMA Answers ==
    ASSUME NEW c, Answered(c)
    PROVE  /\ pc[Handler(c)] = "call"
           /\ (\E sid \in Sessions : Bind(c, sid)) \/ Unbound(c)
BY DEF Unbound, Answered, Created, Joined, CallRefused, AdmittedUnheard, Bind, dirVars, rooming

\* Each thread keeps to the code of its kind.
LEMMA LabelsCorrect == Spec => []LabelsOK
<1>1. Init => LabelsOK
  BY ThreadKinds DEF Init, LabelsOK, HandlerLabels, ReaderLabels, LoopLabels
<1>2. LabelsOK /\ [Next]_vars => LabelsOK'
  <2> SUFFICES ASSUME LabelsOK, [Next]_vars PROVE LabelsOK'
    OBVIOUS
  <2>1. ASSUME NEW c \in Clients, Request(c)
        PROVE  LabelsOK'
    <3>1. PICK label \in {"call", "register", "rejoin"} : Goto(Handler(c), label)
      BY <2>1 DEF Request, CreateSession, JoinSession, Call, ResumeSession, SendSignalMessage
    <3> QED
      BY <3>1, GotoLabel, ThreadKinds DEF HandlerLabels, Ensuring
  <2>2. ASSUME NEW c \in Clients,
               \/ Answered(c) \/ Rejoined(c) \/ RejoinFails(c) \/ IssueToken(c)
               \/ GetStream(c) \/ SendOk(c) \/ SendError(c)
               \/ CloseDone(c) \/ Unregister(c) \/ Detach(c) \/ LeaveOk(c) \/ LeaveFails(c)
        PROVE  LabelsOK'
    <3>1. PICK label \in HandlerLabels : Goto(Handler(c), label)
      BY <2>2 DEF Answered, Created, Joined, CallRefused, AdmittedUnheard, Bind, Rejoined,
                  RejoinFails, IssueToken, GetStream, SendOk, SendError, CloseDone, Unregister,
                  Detach, LeaveOk, LeaveFails, HandlerLabels, Ensuring
    <3> QED
      BY <3>1, GotoLabel, ThreadKinds
  <2>3. ASSUME NEW th \in Handlers \cup Readers, ResetCheck(th) \/ ResetTake(th)
        PROVE  LabelsOK'
    <3>1. PICK label \in {"take", "schedule", "register", "idle"} :
              /\ Goto(th, label)
              /\ label \in {"register", "idle"} => th \notin Readers
              /\ label = "schedule" => th \in Readers
      BY <2>3 DEF ResetCheck, ResetTake, AfterReset
    <3> QED
      BY <2>3, <3>1, GotoLabel DEF HandlerLabels, ReaderLabels, Ensuring, Threads
  <2>4. ASSUME NEW th \in Handlers \cup Loops,
               Register(th) \/ LockInit(th) \/ ConnectFails(th) \/ \E s \in Streams : Connect(th, s)
        PROVE  LabelsOK'
    <3>1. PICK label \in {"lock", "connect", "publish", After(th, TRUE), After(th, FALSE)} :
              Goto(th, label)
      BY <2>4 DEF Register, LockInit, ConnectFails, Connect, Return
    <3> QED
      BY <3>1, GotoLabel, AfterLabels
         DEF HandlerLabels, LoopLabels, Ensuring, Threads, Handlers, Loops
  <2>5. ASSUME NEW th \in Handlers \cup Loops, Publish(th)
        PROVE  LabelsOK'
    <3>1. \/ Goto(th, After(th, TRUE))
          \/ pc' = [pc EXCEPT ![th] = After(th, TRUE), ![Reader(hand[th])] = "recv"]
      BY <2>5 DEF Publish
    <3>2. After(th, TRUE) \in HandlerLabels \cup LoopLabels
          /\ (th \in Handlers => After(th, TRUE) \in HandlerLabels)
          /\ (th \in Loops => After(th, TRUE) \in LoopLabels)
      BY AfterLabels, ThreadKinds DEF HandlerLabels, LoopLabels, Handlers, Loops
    <3>3. CASE Goto(th, After(th, TRUE))
      BY <3>2, <3>3, GotoLabel DEF Threads
    <3>4. CASE pc' = [pc EXCEPT ![th] = After(th, TRUE), ![Reader(hand[th])] = "recv"]
      <4>1. pc' \in [Threads -> HandlerLabels \cup ReaderLabels \cup LoopLabels]
        BY <3>2, <3>4 DEF LabelsOK, ReaderLabels
      <4>2. \A o \in Threads : pc'[o] = IF o = Reader(hand[th]) THEN "recv"
                                       ELSE IF o = th THEN After(th, TRUE) ELSE pc[o]
        BY <3>4 DEF LabelsOK
      <4>3. \A c \in Clients : pc'[Handler(c)] \in HandlerLabels
        BY <3>2, <4>2, ThreadKinds, ThreadNames DEF LabelsOK
      <4>4. \A s \in Streams : pc'[Loop(s)] \in LoopLabels
        BY <3>2, <4>2, ThreadKinds, ThreadNames DEF LabelsOK
      <4>5. \A s \in Streams : pc'[Reader(s)] \in ReaderLabels
        BY <4>2, ThreadKinds DEF LabelsOK, ReaderLabels
      <4> QED
        BY <4>1, <4>3, <4>4, <4>5 DEF LabelsOK
    <3> QED
      BY <3>1, <3>3, <3>4
  <2>6. ASSUME NEW s \in Streams, RecvError(s) \/ RecvBackpressured(s) \/ Schedule(s)
        PROVE  LabelsOK'
    <3>1. PICK label \in ReaderLabels : Goto(Reader(s), label)
      BY <2>6 DEF RecvError, RecvBackpressured, Schedule, ReaderLabels
    <3> QED
      BY <3>1, GotoLabel, ThreadKinds
  <2>7. ASSUME NEW s \in Streams, StartReconnect(s)
        PROVE  LabelsOK'
    BY <2>7, ThreadKinds, ThreadNames DEF StartReconnect, LabelsOK, Goto, ReaderLabels, LoopLabels
  <2>8. ASSUME NEW s \in Streams, LoopStops(s) \/ LoopTimer(s) \/ FinishReconnect(s)
        PROVE  LabelsOK'
    <3>1. PICK label \in LoopLabels : Goto(Loop(s), label)
      BY <2>8 DEF LoopStops, LoopTimer, FinishReconnect, LoopLabels, Ensuring
    <3> QED
      BY <3>1, GotoLabel, ThreadKinds
  <2>9. CASE UNCHANGED pc
    BY <2>9 DEF LabelsOK
  <2> QED
    BY <2>1, <2>2, <2>3, <2>4, <2>5, <2>6, <2>7, <2>8, <2>9
       DEF Next, Request, HandlerStep, ReaderStep, LoopStep, EnsureStep, ConnectionLost,
           StreamBreaks, AllGone, Handlers, Readers, Loops, vars, threadVars
<1> QED
  BY <1>1, <1>2, PTL DEF Spec

\* A thread that is running works for a connection.
LEMMA Served ==
    ASSUME Types, NEW th \in Threads, pc[th] # "dead"
    PROVE  ClientOf(th) \in Clients
<1>1. CASE th \in Handlers
  BY <1>1, ThreadClients DEF Handlers
<1>2. CASE th \in Readers
  <2>1. PICK s \in Streams : th = Reader(s)
    BY <1>2 DEF Readers
  <2> QED
    BY <2>1, ThreadClients DEF Types, Owned, Used
<1>3. CASE th \in Loops
  <2>1. PICK s \in Streams : th = Loop(s)
    BY <1>3 DEF Loops
  <2> QED
    BY <2>1, ThreadClients DEF Types, Owned, Used
<1> QED
  BY <1>1, <1>2, <1>3 DEF Threads

\* A step keeps the types of the variables.
LEMMA TypesStep ==
    ASSUME LabelsOK, Types, [Next]_vars
    PROVE  TypeOK'
<1> USE DEF Types, TypeOK, Mishaps, Goto, clientVars, streamVars, sfuVars, rooming, dirVars,
            threadVars, bounded, history
<1>1. ASSUME NEW c \in Clients, NEW sid \in Sessions, Created(c, sid) \/ Joined(c, sid)
      PROVE  TypeOK'
  <2>1. /\ Bind(c, sid) /\ (UNCHANGED rooms \/ rooms' = rooms \cup {sid})
        /\ UNCHANGED bounded
    BY <1>1 DEF Created, Joined
  <2>2. members' \subseteq Sessions \X Clients /\ unseen' \subseteq members'
    BY <2>1 DEF Bind, Admit, Held
  <2>3. mishap' \in [Clients -> SUBSET Mishaps]
    BY <2>1 DEF Bind, Note, NoteIf
  <2>4. /\ sessionOf' \in [Clients -> Sessions \cup {Nil}]
        /\ task' \in [Clients -> {"create", "join", "bind", "send", "resend", Nil}]
        /\ rooms' \subseteq Sessions /\ split' \subseteq Clients
    BY <2>1 DEF Bind
  <2> QED
    BY <2>1, <2>2, <2>3, <2>4 DEF Bind
<1>2. ASSUME NEW c \in Clients,
             \/ CreateSession(c) \/ JoinSession(c) \/ CallRefused(c)
             \/ \E sid \in Sessions : AdmittedUnheard(c, sid) \/ SendSignalMessage(c, sid)
      PROVE  TypeOK'
  <2>1. requests' \in 0..MaxRequests /\ faults' \in 0..MaxFaults
    <3>1. Receive(c) \/ Fault \/ UNCHANGED bounded
      BY <1>2 DEF CreateSession, JoinSession, CallRefused, AdmittedUnheard, SendSignalMessage
    <3> QED
      BY <3>1, BoundsAssumption DEF Receive, Fault
  <2>2. CASE CreateSession(c) \/ JoinSession(c) \/ CallRefused(c)
    BY <2>1, <2>2 DEF CreateSession, JoinSession, Call, CallRefused
  <2>3. ASSUME NEW sid \in Sessions, AdmittedUnheard(c, sid) \/ SendSignalMessage(c, sid)
        PROVE  TypeOK'
    BY <2>1, <2>3 DEF AdmittedUnheard, SendSignalMessage, Admit
  <2> QED
    BY <1>2, <2>2, <2>3
<1>3. ASSUME NEW c \in Clients, NEW token \in tokens, ResumeSession(c, token)
      PROVE  TypeOK'
  <2>1. token[2] \in Sessions /\ token[3] \in Clients
    OBVIOUS
  <2>2. unseen' \subseteq members'
    BY <1>3 DEF ResumeSession, Held
  <2>3. mishap' \in [Clients -> SUBSET Mishaps]
    BY <1>3 DEF ResumeSession
  <2>4. /\ sessionOf' \in [Clients -> Sessions \cup {Nil}]
        /\ peerOf' \in [Clients -> Clients] /\ requests' \in 0..MaxRequests
    BY <1>3, <2>1, BoundsAssumption DEF ResumeSession, Receive
  <2> QED
    BY <1>3, <2>2, <2>3, <2>4 DEF ResumeSession, Receive
<1>4. ASSUME NEW c \in Clients, Rejoined(c) \/ RejoinFails(c)
      PROVE  TypeOK'
  <2>1. Membership(c) \in Sessions \X Clients
    BY <1>4 DEF Rejoined, RejoinFails, Located, Membership
  <2>2. faults' \in 0..MaxFaults
    BY <1>4, BoundsAssumption DEF Rejoined, RejoinFails, Fault
  <2>3. mishap' \in [Clients -> SUBSET Mishaps]
    BY <1>4 DEF Rejoined, RejoinFails, Note
  <2>4. task' \in [Clients -> {"create", "join", "bind", "send", "resend", Nil}]
    BY <1>4 DEF Rejoined, RejoinFails
  <2>5. heir' \in [Clients -> Clients]
    BY <1>4 DEF Rejoined, RejoinFails
  <2>6. members' \subseteq Sessions \X Clients /\ unseen' \subseteq members'
    BY <1>4, <2>1 DEF Rejoined, RejoinFails, Admit
  <2> QED
    BY <1>4, <2>2, <2>3, <2>4, <2>5, <2>6 DEF Rejoined, RejoinFails, Fault
<1>5. ASSUME NEW c \in Clients, IssueToken(c) \/ GetStream(c) \/ SendOk(c) \/ SendError(c)
      PROVE  TypeOK'
  BY <1>5 DEF IssueToken, GetStream, SendOk, SendError, Located, Ending
<1>6. ASSUME NEW th \in Handlers \cup Readers, ResetCheck(th)
      PROVE  TypeOK'
  BY <1>6 DEF ResetCheck, AfterReset
<1>7. ASSUME NEW th \in Handlers \cup Readers, ResetTake(th)
      PROVE  TypeOK'
  BY <1>7 DEF ResetTake, TakeAndCancel, AfterReset
<1>8. ASSUME NEW th \in Handlers \cup Loops, Register(th)
      PROVE  TypeOK'
  BY <1>8, Served DEF Register, Threads
<1>9. ASSUME NEW th \in Handlers \cup Loops, NEW s \in Streams, Connect(th, s)
      PROVE  TypeOK'
  BY <1>9, Served DEF Connect, Threads
<1>10. ASSUME NEW th \in Handlers \cup Loops, LockInit(th)
      PROVE  TypeOK'
  <2>1. task' \in [Clients -> {"create", "join", "bind", "send", "resend", Nil}]
    BY <1>10 DEF LockInit, Return
  <2>2. initMu' = initMu \/ initMu' = [initMu EXCEPT ![ClientOf(th)] = th]
    BY <1>10 DEF LockInit
  <2> QED
    BY <1>10, <2>1, <2>2 DEF LockInit
<1>11. ASSUME NEW th \in Handlers \cup Loops, ConnectFails(th)
       PROVE  TypeOK'
  <2>1. requests' \in 0..MaxRequests /\ faults' \in 0..MaxFaults
    BY <1>11, BoundsAssumption DEF ConnectFails, Fault
  <2>2. task' \in [Clients -> {"create", "join", "bind", "send", "resend", Nil}]
    BY <1>11 DEF ConnectFails, Return
  <2>3. initMu' \in [Clients -> Handlers \cup Loops \cup {Nil}]
    BY <1>11 DEF ConnectFails
  <2> QED
    BY <1>11, <2>1, <2>2, <2>3 DEF ConnectFails
<1>12. ASSUME NEW th \in Handlers \cup Loops, Publish(th)
       PROVE  TypeOK'
  <2>1. initMu' \in [Clients -> Handlers \cup Loops \cup {Nil}]
    BY <1>12 DEF Publish
  <2>2. hand[th] \in Streams \cup {Nil}
    BY DEF Threads
  <2>3. CASE current[ClientOf(th)] # Nil
    <3>1. link' \in [Streams -> {"idle", "live", "broken", "cancelled"}]
      BY <1>12, <2>3 DEF Publish
    <3>2. hand' \in [Threads -> Streams \cup {Nil}]
      BY <1>12, <2>3 DEF Publish
    <3>3. UNCHANGED <<current, lost, mishap>>
      BY <1>12, <2>3 DEF Publish
    <3> QED
      BY <1>12, <2>1, <3>1, <3>2, <3>3 DEF Publish
  <2>4. CASE current[ClientOf(th)] = Nil
    <3>1. UNCHANGED link /\ current' = [current EXCEPT ![ClientOf(th)] = hand[th]]
      BY <1>12, <2>4 DEF Publish
    <3>2. hand' \in [Threads -> Streams \cup {Nil}]
      BY <1>12, <2>2, <2>4 DEF Publish
    <3>3. lost' \in [Clients -> BOOLEAN]
      BY <1>12, <2>4 DEF Publish
    <3>4. mishap' \in [Clients -> SUBSET Mishaps]
      BY <1>12, <2>4 DEF Publish
    <3> QED
      BY <1>12, <2>1, <2>2, <3>1, <3>2, <3>3, <3>4 DEF Publish
  <2> QED
    BY <2>3, <2>4
<1>13. ASSUME NEW s \in Streams, StreamBreaks(s)
       PROVE  TypeOK'
  BY <1>13, BoundsAssumption DEF StreamBreaks, Fault
<1>14. ASSUME NEW s \in Streams, RecvError(s)
      PROVE  TypeOK'
  BY <1>14 DEF RecvError
<1>15. ASSUME NEW s \in Streams, RecvBackpressured(s)
      PROVE  TypeOK'
  BY <1>15 DEF RecvBackpressured
<1>16. ASSUME NEW s \in Streams, Schedule(s)
      PROVE  TypeOK'
  BY <1>16 DEF Schedule
<1>17. ASSUME NEW s \in Streams, StartReconnect(s)
       PROVE  TypeOK'
  <2>1. mishap' \in [Clients -> SUBSET Mishaps]
    <3>1. \/ UNCHANGED mishap
          \/ mishap' = [mishap EXCEPT ![owner[s]] = @ \cup {"dropped"}]
      BY <1>17 DEF StartReconnect, Note, NoteIf
    <3> QED
      BY <3>1
  <2>2. reconnecting' \in [Clients -> BOOLEAN]
    BY <1>17 DEF StartReconnect
  <2>3. hand' \in [Threads -> Streams \cup {Nil}]
    BY <1>17 DEF StartReconnect
  <2> QED
    BY <1>17, <2>1, <2>2, <2>3 DEF StartReconnect
<1>18. ASSUME NEW s \in Streams, LoopStops(s) \/ FinishReconnect(s)
      PROVE  TypeOK'
  BY <1>18 DEF LoopStops, FinishReconnect
<1>19. ASSUME NEW s \in Streams, LoopTimer(s)
      PROVE  TypeOK'
  BY <1>19 DEF LoopTimer, Note, NoteIf
<1>20. ASSUME NEW c \in Clients, ConnectionLost(c)
      PROVE  TypeOK'
  BY <1>20 DEF ConnectionLost
<1>21. ASSUME NEW c \in Clients, CloseDone(c)
      PROVE  TypeOK'
  BY <1>21 DEF CloseDone, Note, NoteIf
<1>22. ASSUME NEW c \in Clients, Unregister(c)
      PROVE  TypeOK'
  BY <1>22 DEF Unregister
<1>23. ASSUME NEW c \in Clients, Detach(c)
      PROVE  TypeOK'
  BY <1>23 DEF Detach, TakeAndCancel
<1>24. ASSUME NEW c \in Clients, LeaveOk(c) \/ LeaveFails(c)
       PROVE  TypeOK'
  BY <1>24, BoundsAssumption DEF LeaveOk, LeaveFails, Expel, Fault, Held, Membership
<1>25. CASE UNCHANGED vars
  BY <1>25 DEF vars
<1> QED
  BY <1>1, <1>2, <1>2, <1>3, <1>4, <1>5, <1>6, <1>7, <1>8, <1>9, <1>10, <1>11,
     <1>12, <1>13, <1>14, <1>15, <1>16, <1>17, <1>18, <1>19, <1>20, <1>21, <1>22, <1>23,
     <1>24, <1>25
     DEF Next, Request, Answered, HandlerStep, ReaderStep, LoopStep, EnsureStep, AllGone,
         Handlers, Readers, Loops

\* A step of a handler moves no other handler and no loop, a reader only when
\* it publishes the stream of that reader, and changes no other connection.
LEMMA HandlerMoves ==
    ASSUME LabelsOK, TypeOK, NEW c \in Clients,
           Request(c) \/ HandlerStep(c) \/ ConnectionLost(c)
    PROVE  /\ \A d \in Clients \ {c} :
                  /\ pc'[Handler(d)] = pc[Handler(d)]
                  /\ peerOf'[d] = peerOf[d] /\ sessionOf'[d] = sessionOf[d]
                  /\ connUp'[d] = connUp[d] /\ ended'[d] = ended[d]
           /\ \A s \in Streams :
                  /\ pc'[Loop(s)] = pc[Loop(s)]
                  /\ pc'[Reader(s)] # pc[Reader(s)] => Publish(Handler(c)) /\ hand[Handler(c)] = s
<1>1. /\ \A d \in Clients \ {c} : pc'[Handler(d)] = pc[Handler(d)]
      /\ \A s \in Streams :
             /\ pc'[Loop(s)] = pc[Loop(s)]
             /\ pc'[Reader(s)] # pc[Reader(s)] => Publish(Handler(c)) /\ hand[Handler(c)] = s
  <2>1. CASE UNCHANGED pc \/ \E label : Goto(Handler(c), label)
    BY <2>1, ThreadKinds, ThreadNames DEF LabelsOK, Goto
  <2>2. CASE Publish(Handler(c))
    <3>1. \/ \E label : Goto(Handler(c), label)
          \/ pc' = [pc EXCEPT ![Handler(c)] = After(Handler(c), TRUE),
                              ![Reader(hand[Handler(c)])] = "recv"]
      BY <2>2 DEF Publish
    <3> QED
      BY <2>1, <2>2, <3>1, ThreadKinds, ThreadNames DEF LabelsOK
  <2>3. CASE Request(c) \/ ConnectionLost(c)
    BY <2>1, <2>3 DEF Request, CreateSession, JoinSession, Call, ResumeSession, SendSignalMessage,
                      ConnectionLost, threadVars
  <2>4. CASE \/ Answered(c) \/ Rejoined(c) \/ RejoinFails(c) \/ IssueToken(c)
             \/ GetStream(c) \/ SendOk(c) \/ SendError(c)
             \/ CloseDone(c) \/ Unregister(c) \/ Detach(c) \/ LeaveOk(c) \/ LeaveFails(c)
    BY <2>1, <2>4 DEF Answered, Created, Joined, CallRefused, AdmittedUnheard, Bind, Rejoined,
                      RejoinFails, IssueToken, GetStream, SendOk, SendError, CloseDone,
                      Unregister, Detach, LeaveOk, LeaveFails
  <2>5. CASE ResetCheck(Handler(c)) \/ ResetTake(Handler(c))
    BY <2>1, <2>5, ThreadKinds DEF ResetCheck, ResetTake, AfterReset
  <2>6. CASE \/ Register(Handler(c)) \/ LockInit(Handler(c)) \/ ConnectFails(Handler(c))
             \/ \E s \in Streams : Connect(Handler(c), s)
    BY <2>1, <2>6 DEF Register, LockInit, ConnectFails, Connect, Return
  <2> QED
    BY <2>2, <2>3, <2>4, <2>5, <2>6 DEF HandlerStep, EnsureStep
<1>2. \A d \in Clients \ {c} : /\ peerOf'[d] = peerOf[d] /\ sessionOf'[d] = sessionOf[d]
                              /\ connUp'[d] = connUp[d] /\ ended'[d] = ended[d]
  <2> USE DEF TypeOK, clientVars
  <2>1. CASE Request(c) \/ ConnectionLost(c)
    BY <2>1 DEF Request, CreateSession, JoinSession, Call, ResumeSession, SendSignalMessage,
                ConnectionLost
  <2>2. CASE \/ Answered(c) \/ Rejoined(c) \/ RejoinFails(c) \/ IssueToken(c)
             \/ GetStream(c) \/ SendOk(c) \/ SendError(c)
             \/ CloseDone(c) \/ Unregister(c) \/ Detach(c) \/ LeaveOk(c) \/ LeaveFails(c)
    BY <2>2 DEF Answered, Created, Joined, CallRefused, AdmittedUnheard, Bind, Rejoined,
                RejoinFails, IssueToken, GetStream, SendOk, SendError, CloseDone, Unregister,
                Detach, LeaveOk, LeaveFails
  <2>3. CASE ResetCheck(Handler(c)) \/ ResetTake(Handler(c)) \/ EnsureStep(Handler(c))
    BY <2>3 DEF ResetCheck, ResetTake, EnsureStep, Register, LockInit, Connect, ConnectFails,
                Publish
  <2> QED
    BY <2>1, <2>2, <2>3 DEF HandlerStep
<1> QED
  BY <1>1, <1>2

\* A step of a reader or of a loop, or of a stream, moves no handler and no
\* thread of another stream, except the reader of a stream it publishes.
LEMMA StreamMoves ==
    ASSUME LabelsOK, TypeOK, NEW s \in Streams,
           ReaderStep(s) \/ LoopStep(s) \/ StreamBreaks(s) \/ RecvBackpressured(s)
    PROVE  /\ \A c \in Clients : pc'[Handler(c)] = pc[Handler(c)]
           /\ \A t \in Streams \ {s} :
                  /\ pc'[Loop(t)] = pc[Loop(t)]
                  /\ pc'[Reader(t)] # pc[Reader(t)] => Publish(Loop(s)) /\ hand[Loop(s)] = t
           /\ UNCHANGED <<peerOf, sessionOf, ended, rooms, members, unseen, split, tokens, heir>>
           /\ \A c \in Clients : connUp'[c] => connUp[c]
<1> DEFINE Moved == /\ \A c \in Clients : pc'[Handler(c)] = pc[Handler(c)]
                    /\ \A t \in Streams \ {s} :
                           /\ pc'[Loop(t)] = pc[Loop(t)]
                           /\ pc'[Reader(t)] # pc[Reader(t)] =>
                                  Publish(Loop(s)) /\ hand[Loop(s)] = t
<1>1. Moved
  <2>1. CASE UNCHANGED pc \/ \E label : Goto(Reader(s), label) \/ Goto(Loop(s), label)
    BY <2>1, ThreadKinds, ThreadNames DEF LabelsOK, Goto
  <2>2. CASE StartReconnect(s)
    <3>1. \/ Goto(Reader(s), "dead")
          \/ pc' = [pc EXCEPT ![Reader(s)] = "dead", ![Loop(s)] = "wait"]
      BY <2>2 DEF StartReconnect
    <3> QED
      BY <2>1, <3>1, ThreadKinds, ThreadNames DEF LabelsOK
  <2>3. CASE Publish(Loop(s))
    <3>1. \/ \E label : Goto(Loop(s), label)
          \/ pc' = [pc EXCEPT ![Loop(s)] = After(Loop(s), TRUE),
                              ![Reader(hand[Loop(s)])] = "recv"]
      BY <2>3 DEF Publish
    <3> QED
      BY <2>1, <2>3, <3>1, ThreadKinds, ThreadNames DEF LabelsOK
  <2>4. CASE \/ RecvError(s) \/ Schedule(s) \/ StreamBreaks(s) \/ RecvBackpressured(s)
             \/ LoopStops(s) \/ LoopTimer(s) \/ FinishReconnect(s)
    BY <2>1, <2>4 DEF RecvError, Schedule, StreamBreaks, RecvBackpressured, LoopStops, LoopTimer,
                      FinishReconnect, threadVars
  <2>5. CASE ResetCheck(Reader(s)) \/ ResetTake(Reader(s))
    BY <2>1, <2>5, ThreadKinds DEF ResetCheck, ResetTake, AfterReset
  <2>6. CASE \/ Register(Loop(s)) \/ LockInit(Loop(s)) \/ ConnectFails(Loop(s))
             \/ \E t \in Streams : Connect(Loop(s), t)
    BY <2>1, <2>6 DEF Register, LockInit, ConnectFails, Connect, Return
  <2> QED
    BY <2>2, <2>3, <2>4, <2>5, <2>6 DEF ReaderStep, LoopStep, EnsureStep
<1>2. /\ UNCHANGED <<peerOf, sessionOf, ended, rooms, members, unseen, split, tokens, heir>>
      /\ \A c \in Clients : connUp'[c] => connUp[c]
  <2> USE DEF clientVars, rooming, dirVars, history
  <2>1. CASE \/ RecvError(s) \/ Schedule(s) \/ StartReconnect(s) \/ StreamBreaks(s)
             \/ LoopStops(s) \/ LoopTimer(s) \/ FinishReconnect(s)
    BY <2>1 DEF RecvError, Schedule, StartReconnect, StreamBreaks, LoopStops, LoopTimer,
                FinishReconnect
  <2>2. CASE RecvBackpressured(s)
    BY <2>2 DEF RecvBackpressured, TypeOK
  <2>3. CASE ResetCheck(Reader(s)) \/ ResetTake(Reader(s)) \/ EnsureStep(Loop(s))
    BY <2>3 DEF ResetCheck, ResetTake, EnsureStep, Register, LockInit, Connect, ConnectFails,
                Publish
  <2> QED
    BY <2>1, <2>2, <2>3 DEF ReaderStep, LoopStep
<1> QED
  BY <1>1, <1>2

\* Where ensureSignalStream takes a thread.
LEMMA EnsureLabels ==
    ASSUME LabelsOK, NEW th \in Handlers \cup Loops, EnsureStep(th)
    PROVE  /\ pc[th] \in Ensuring
           /\ pc'[th] \in Ensuring \cup {After(th, TRUE), After(th, FALSE)}
<1>1. th \in Threads /\ (\A s : th # Reader(s))
  BY ThreadNames DEF Threads, Handlers, Loops
<1>2. pc[th] \in Ensuring
  BY DEF EnsureStep, Register, LockInit, Connect, ConnectFails, Publish, Ensuring
<1>3. CASE Register(th) \/ LockInit(th) \/ ConnectFails(th) \/ \E s \in Streams : Connect(th, s)
  <2>1. PICK label \in Ensuring \cup {After(th, TRUE), After(th, FALSE)} : Goto(th, label)
    BY <1>3 DEF Register, LockInit, Connect, ConnectFails, Return, Ensuring
  <2> QED
    BY <1>1, <1>2, <2>1 DEF LabelsOK, Goto
<1>4. CASE Publish(th)
  <2>1. \/ Goto(th, After(th, TRUE))
        \/ pc' = [pc EXCEPT ![th] = After(th, TRUE), ![Reader(hand[th])] = "recv"]
    BY <1>4 DEF Publish
  <2> QED
    BY <1>1, <1>2, <2>1 DEF LabelsOK, Goto
<1> QED
  BY <1>3, <1>4 DEF EnsureStep

\* A step keeps what Located says.
LEMMA LocatedStep ==
    ASSUME LabelsOK, Types, [Next]_vars
    PROVE  Located'
<1> USE DEF Types, Located, Ending, Goto, clientVars, threadVars
<1>1. ASSUME NEW c \in Clients, Request(c) \/ HandlerStep(c) \/ ConnectionLost(c)
      PROVE  Located'
  <2> DEFINE Fine(d) ==
        /\ pc[Handler(d)] \notin {"idle", "call", "unregister", "detach", "gone"}
             => sessionOf[d] # Nil
        /\ pc[Handler(d)] \in Ending <=> ended[d]
        /\ ended[d] => ~connUp[d]
  <2>1. \A d \in Clients \ {c} : Fine(d)'
    BY <1>1, HandlerMoves
  <2>2. Fine(c)'
    <3> USE ThreadKinds DEF TypeOK, LabelsOK
    <3>1. CASE Answered(c)
      <4>1. ASSUME NEW sid \in Sessions, Bind(c, sid), pc[Handler(c)] = "call"
            PROVE  Fine(c)'
        BY <4>1, NilAssumption DEF Bind, Ensuring
      <4>2. ASSUME Unbound(c), pc[Handler(c)] = "call"
            PROVE  Fine(c)'
        BY <4>2 DEF Unbound
      <4> QED
        BY <3>1, <4>1, <4>2, Answers
    <3>2. CASE CreateSession(c) \/ JoinSession(c) \/ \E sid \in Sessions : SendSignalMessage(c, sid)
      BY <3>2, NilAssumption DEF CreateSession, JoinSession, Call, SendSignalMessage, Receive
    <3>3. ASSUME NEW token \in tokens, ResumeSession(c, token)
          PROVE  Fine(c)'
      BY <3>3, NilAssumption DEF ResumeSession, Receive
    <3>4. CASE ConnectionLost(c)
      BY <3>4 DEF ConnectionLost
    <3>5. CASE Rejoined(c) \/ RejoinFails(c) \/ IssueToken(c)
               \/ GetStream(c) \/ SendOk(c) \/ SendError(c)
      BY <3>5 DEF Rejoined, RejoinFails, IssueToken, GetStream, SendOk, SendError
    <3>6. CASE CloseDone(c)
      BY <3>6 DEF CloseDone
    <3>7. CASE Unregister(c)
      BY <3>7 DEF Unregister
    <3>8. CASE Detach(c)
      BY <3>8 DEF Detach
    <3>9. CASE LeaveOk(c) \/ LeaveFails(c)
      BY <3>9 DEF LeaveOk, LeaveFails
    <3>10. CASE ResetCheck(Handler(c)) \/ ResetTake(Handler(c))
      BY <3>10 DEF ResetCheck, ResetTake, AfterReset
    <3>11. CASE EnsureStep(Handler(c))
      <4>1. /\ pc[Handler(c)] \in Ensuring
            /\ pc'[Handler(c)] \in Ensuring \cup {"idle", "token", "get"}
        BY <3>11, EnsureLabels, AfterLabels DEF Handlers
      <4>2. UNCHANGED clientVars
        BY <3>11 DEF EnsureStep, Register, LockInit, Connect, ConnectFails, Publish
      <4> QED
        BY <4>1, <4>2 DEF Ensuring
    <3> QED
      BY <1>1, <3>1, <3>2, <3>3, <3>4, <3>5, <3>6, <3>7, <3>8, <3>9, <3>10, <3>11
         DEF HandlerStep, Request
  <2> QED
    BY <2>1, <2>2
<1>2. ASSUME NEW s \in Streams,
             ReaderStep(s) \/ LoopStep(s) \/ StreamBreaks(s) \/ RecvBackpressured(s)
      PROVE  Located'
  BY <1>2, StreamMoves
<1>3. CASE UNCHANGED vars
  BY <1>3 DEF vars
<1> QED
  BY <1>1, <1>2, <1>3 DEF Next, AllGone

\* What TakeSignalStream and the cancel after it change.
LEMMA TakeEffect ==
    ASSUME TypeOK, NEW c \in Clients, TakeAndCancel(c)
    PROVE  /\ \A d \in Clients : current'[d] = IF d = c THEN Nil ELSE current[d]
           /\ \A s \in Streams : link'[s] = IF s = current[c] THEN "cancelled" ELSE link[s]
BY NilAssumption DEF TypeOK, TakeAndCancel

\* A step keeps what Owned says.
LEMMA OwnedStep ==
    ASSUME LabelsOK, Types, [Next]_vars
    PROVE  Owned'
<1> USE DEF Types
<1> DEFINE NoneAdded ==
        /\ UNCHANGED owner
        /\ \A th \in Threads : hand'[th] \in {hand[th], Nil}
        /\ \A c \in Clients : current'[c] \in {current[c], Nil}
        /\ \A s \in Streams :
               /\ link'[s] # "idle" => link[s] # "idle" \/ \E c \in Clients : current[c] = s
               /\ pc[Reader(s)] = "dead" => pc'[Reader(s)] = "dead"
               /\ pc[Loop(s)] = "dead" => pc'[Loop(s)] = "dead"
<1>1. NoneAdded => Owned'
  BY NilAssumption DEF Owned, Used
<1>2. ASSUME NEW th \in Handlers \cup Loops, NEW s \in Streams, Connect(th, s)
      PROVE  Owned'
  BY <1>2, ThreadKinds, ThreadNames, Served
     DEF Connect, Threads, Owned, Used, TypeOK, LabelsOK, Goto, streamVars
<1>3. ASSUME NEW th \in Handlers \cup Loops, Publish(th)
      PROVE  Owned'
  <2>1. th \in Threads /\ \A s : th # Reader(s)
    BY ThreadNames DEF Threads, Handlers, Loops
  <2>2. CASE current[ClientOf(th)] # Nil
    <3>1. /\ \A o \in Threads : /\ hand'[o] = IF o = th THEN Nil ELSE hand[o]
                                /\ pc'[o] = IF o = th THEN After(th, TRUE) ELSE pc[o]
          /\ \A s \in Streams : link'[s] = IF s = hand[th] THEN "cancelled" ELSE link[s]
          /\ UNCHANGED <<owner, current>>
      BY <1>3, <2>1, <2>2 DEF Publish, TypeOK, LabelsOK, Goto
    <3>2. ASSUME NEW s \in Streams, Used(s)'
          PROVE  Used(s)
      BY <1>3, <2>1, <3>1, <3>2, ThreadKinds, NilAssumption DEF Used, Publish
    <3> QED
      BY <3>1, <3>2 DEF Owned
  <2>3. CASE current[ClientOf(th)] = Nil
    <3>1. \A o \in Threads :
              /\ hand'[o] = IF o = Reader(hand[th]) THEN hand[th] ELSE IF o = th THEN Nil ELSE hand[o]
              /\ pc'[o] = IF o = Reader(hand[th]) THEN "recv"
                          ELSE IF o = th THEN After(th, TRUE) ELSE pc[o]
      <4>1. /\ pc' = [pc EXCEPT ![th] = After(th, TRUE), ![Reader(hand[th])] = "recv"]
            /\ hand' = [hand EXCEPT ![th] = Nil, ![Reader(hand[th])] = hand[th]]
        BY <1>3, <2>3 DEF Publish
      <4>2. DOMAIN pc = Threads /\ DOMAIN hand = Threads
        BY DEF TypeOK, LabelsOK
      <4> QED
        BY <2>1, <4>1, <4>2
    <3>2. /\ UNCHANGED <<owner, link>>
          /\ \A c \in Clients : current'[c] \in {current[c], hand[th]}
      BY <1>3, <2>3 DEF Publish, TypeOK
    <3>3. ASSUME NEW s \in Streams, Used(s)', s # hand[th]
          PROVE  Used(s)
      <4>1. /\ pc'[Reader(s)] = pc[Reader(s)]
            /\ pc[Loop(s)] = "dead" => pc'[Loop(s)] = "dead"
        BY <1>3, <2>1, <3>1, <3>3, ThreadKinds, ThreadNames DEF Publish
      <4>2. \A o \in Threads : hand'[o] = s => hand[o] = s
        BY <3>1, <3>3, NilAssumption
      <4> QED
        BY <3>2, <3>3, <4>1, <4>2 DEF Used
    <3>4. ASSUME NEW s \in Streams, s = hand[th]
          PROVE  Used(s)
      BY <2>1, <3>4 DEF Used
    <3> QED
      BY <3>2, <3>3, <3>4 DEF Owned
  <2> QED
    BY <2>2, <2>3
<1>4. ASSUME NEW c \in Clients, GetStream(c)
      PROVE  Owned'
  BY <1>4, ThreadKinds, ThreadNames, NilAssumption
     DEF GetStream, Goto, TypeOK, LabelsOK, Owned, Used, streamVars, sfuVars
<1>5. ASSUME NEW s \in Streams, StartReconnect(s)
      PROVE  Owned'
  BY <1>5, ThreadKinds, ThreadNames, NilAssumption
     DEF StartReconnect, Goto, TypeOK, LabelsOK, Owned, Used, sfuVars
<1>6. ASSUME NEW th \in Threads,
             ResetCheck(th) \/ ResetTake(th) \/ Register(th) \/ LockInit(th) \/ ConnectFails(th)
      PROVE  /\ UNCHANGED owner
             /\ \A o \in Threads : hand'[o] \in {hand[o], Nil}
             /\ \A c \in Clients : current'[c] \in {current[c], Nil}
             /\ \A s \in Streams :
                    link'[s] # "idle" => link[s] # "idle" \/ \E c \in Clients : current[c] = s
  <2>1. CASE ResetCheck(th) \/ Register(th) \/ LockInit(th) \/ ConnectFails(th)
    BY <2>1 DEF ResetCheck, AfterReset, Register, LockInit, ConnectFails, TypeOK, streamVars,
                sfuVars
  <2>2. CASE ResetTake(th)
    <3>1. /\ UNCHANGED owner
          /\ \A o \in Threads : hand'[o] \in {hand[o], Nil}
      BY <2>2 DEF ResetTake, AfterReset, TypeOK
    <3>2. TakeAndCancel(ClientOf(th))
      BY <2>2 DEF ResetTake
    <3>3. ClientOf(th) \in Clients
      BY <1>6, <2>2, Served DEF ResetTake
    <3> QED
      BY <3>1, <3>2, <3>3, TakeEffect
  <2> QED
    BY <1>6, <2>1, <2>2
<1>7. ASSUME NEW c \in Clients,
             Request(c) \/ HandlerStep(c) \/ ConnectionLost(c), ~GetStream(c), ~Publish(Handler(c)),
             ~\E s \in Streams : Connect(Handler(c), s)
      PROVE  Owned'
  <2>1. \A s \in Streams : /\ pc'[Reader(s)] = pc[Reader(s)]
                           /\ pc'[Loop(s)] = pc[Loop(s)]
    BY <1>7, HandlerMoves
  <2>2. CASE \/ ResetCheck(Handler(c)) \/ ResetTake(Handler(c)) \/ Register(Handler(c))
             \/ LockInit(Handler(c)) \/ ConnectFails(Handler(c))
    BY <1>1, <1>6, <2>1, <2>2, ThreadKinds
  <2>3. CASE Request(c) \/ ConnectionLost(c)
    BY <1>1, <2>1, <2>3
       DEF Request, CreateSession, JoinSession, Call, ResumeSession, SendSignalMessage,
           ConnectionLost, streamVars, sfuVars, threadVars
  <2>4. CASE \/ Answered(c) \/ Rejoined(c)
             \/ RejoinFails(c) \/ IssueToken(c) \/ SendOk(c) \/ SendError(c)
             \/ CloseDone(c) \/ Unregister(c) \/ LeaveOk(c) \/ LeaveFails(c)
    BY <1>1, <2>1, <2>4
       DEF Answered, Created, Joined, CallRefused, AdmittedUnheard, Bind, Rejoined, RejoinFails,
           IssueToken, SendOk, SendError, CloseDone, Unregister, LeaveOk, LeaveFails, TypeOK,
           streamVars, sfuVars
  <2>5. CASE Detach(c)
    <3>1. TakeAndCancel(c) /\ UNCHANGED <<owner, hand>>
      BY <2>5 DEF Detach
    <3> QED
      BY <1>1, <2>1, <3>1, TakeEffect
  <2> QED
    BY <1>7, <2>2, <2>3, <2>4, <2>5 DEF HandlerStep, EnsureStep
<1>8. ASSUME NEW s \in Streams,
             ReaderStep(s) \/ LoopStep(s) \/ StreamBreaks(s) \/ RecvBackpressured(s),
             ~StartReconnect(s), ~Publish(Loop(s)), ~\E t \in Streams : Connect(Loop(s), t)
      PROVE  Owned'
  <2>1. \A t \in Streams : /\ pc[Reader(t)] = "dead" => pc'[Reader(t)] = "dead"
                           /\ pc[Loop(t)] = "dead" => pc'[Loop(t)] = "dead"
    <3>1. \A t \in Streams \ {s} : pc'[Reader(t)] = pc[Reader(t)] /\ pc'[Loop(t)] = pc[Loop(t)]
      BY <1>8, StreamMoves
    <3>2. \/ UNCHANGED pc
          \/ pc[Reader(s)] # "dead" /\ \E label : Goto(Reader(s), label)
          \/ pc[Loop(s)] # "dead" /\ \E label : Goto(Loop(s), label)
      BY <1>8, ThreadKinds
         DEF ReaderStep, LoopStep, EnsureStep, RecvError, ResetCheck, ResetTake, AfterReset,
             Schedule, LoopStops, LoopTimer, FinishReconnect, StreamBreaks, RecvBackpressured,
             Register, LockInit, ConnectFails, Return, threadVars
    <3> QED
      BY <3>1, <3>2, ThreadKinds, ThreadNames DEF Goto, LabelsOK
  <2>2. CASE \/ ResetCheck(Reader(s)) \/ ResetTake(Reader(s)) \/ Register(Loop(s))
             \/ LockInit(Loop(s)) \/ ConnectFails(Loop(s))
    BY <1>1, <1>6, <2>1, <2>2, ThreadKinds
  <2>3. CASE RecvError(s) \/ Schedule(s) \/ LoopStops(s) \/ LoopTimer(s) \/ FinishReconnect(s)
             \/ StreamBreaks(s) \/ RecvBackpressured(s)
    BY <1>1, <2>1, <2>3
       DEF RecvError, Schedule, LoopStops, LoopTimer, FinishReconnect, StreamBreaks,
           RecvBackpressured, TypeOK, streamVars, sfuVars, threadVars
  <2> QED
    BY <1>8, <2>2, <2>3 DEF ReaderStep, LoopStep, EnsureStep
<1>9. CASE UNCHANGED vars
  BY <1>9, <1>1 DEF vars, streamVars, sfuVars, threadVars
<1> QED
  BY <1>2, <1>3, <1>4, <1>5, <1>7, <1>8, <1>9 DEF Next, AllGone, Handlers, Loops

\* Types, and what they rest on, hold in every reachable state.
LEMMA TypesCorrect == Spec => []Types
<1>1. Init => Types
  <2> SUFFICES ASSUME Init PROVE Types
    OBVIOUS
  <2>1. TypeOK
    BY BoundsAssumption DEF Init, TypeOK
  <2>2. Located /\ Owned
    BY ThreadKinds, NilAssumption DEF Init, Located, Owned, Used, Ending
  <2> QED
    BY <2>1, <2>2 DEF Types
<1>2. LabelsOK /\ Types /\ [Next]_vars => Types'
  BY TypesStep, LocatedStep, OwnedStep DEF Types
<1> QED
  BY <1>1, <1>2, LabelsCorrect, PTL DEF Spec

\* Every reachable state is of the right type.
THEOREM TypeCorrect == Spec => []TypeOK
BY TypesCorrect, PTL DEF Types

-----------------------------------------------------------------------------
Holding == {"publish", "send", "check", "take"}

\* What the local variable of each thread holds.
HandsOK ==
    /\ \A c \in Clients :
           /\ hand[Handler(c)] # Nil <=> pc[Handler(c)] \in Holding
           /\ hand[Handler(c)] # Nil => owner[hand[Handler(c)]] = c
    /\ \A s \in Streams :
           /\ hand[Reader(s)] = IF pc[Reader(s)] = "dead" THEN Nil ELSE s
           /\ hand[Loop(s)] # Nil <=> pc[Loop(s)] = "publish"
           /\ hand[Loop(s)] # Nil => owner[hand[Loop(s)]] = owner[s]

\* The current stream of a connection is its own, and nobody has cancelled it
\* or the one that will be.
CurrentOK ==
    /\ \A c \in Clients : current[c] # Nil =>
           owner[current[c]] = c /\ link[current[c]] \in {"live", "broken"}
    /\ \A th \in Threads : pc[th] = "publish" => link[hand[th]] \in {"live", "broken"}

\* A stream that is not published yet is known to the thread that opens it only.
Private ==
    \A th \in Threads : pc[th] = "publish" =>
        /\ pc[Reader(hand[th])] = "dead" /\ pc[Loop(hand[th])] = "dead"
        /\ \A other \in Threads : hand[other] = hand[th] => other = th
        /\ \A c \in Clients : current[c] # hand[th]

\* streamInitMu.
MutexHeld ==
    \A th \in Threads : pc[th] \in Opening =>
        initMu[ClientOf(th)] = th /\ current[ClientOf(th)] = Nil

\* A reader that starts a loop returns.
Succession == \A s \in Streams : pc[Reader(s)] = "dead" \/ pc[Loop(s)] = "dead"

Slotted == HandsOK /\ CurrentOK /\ Private /\ MutexHeld /\ Succession /\ NoOrphanStream

(* What a step can do to the streams and to the threads that hold them.    *)

Working == {"send", "check", "take", "recv", "schedule", "start"}

\* No thread gets or loses a stream or the mutex.
Quiet ==
    /\ UNCHANGED <<hand, owner, current, link, initMu>>
    /\ \A th \in Threads :
           \/ pc'[th] = pc[th]
           \/ {pc[th], pc'[th]} \cap (Holding \cup Opening \cup {"dead"}) = {}
           \/ pc[th] \in Working /\ pc'[th] \in Working
           \/ pc[th] = "finish" /\ pc'[th] = "dead"

\* A thread lets go of a stream it has not opened.
Drops(th) ==
    /\ UNCHANGED <<owner, current, link, initMu>>
    /\ pc[th] \in Working
    /\ pc'[th] \in {"idle", "register", "dead"}
    /\ \A o \in Threads :
           /\ hand'[o] = IF o = th THEN Nil ELSE hand[o]
           /\ o # th => \/ pc'[o] = pc[o]
                        \/ \E s \in Streams : th = Reader(s) /\ o = Loop(s) /\ pc'[o] = "wait"

\* A thread takes the stream of its connection and cancels it.
Takes(th) ==
    /\ UNCHANGED <<owner, initMu>>
    /\ TakeAndCancel(ClientOf(th))
    /\ pc[th] \in {"take", "detach", "detachAndLeave"}
    /\ IF th \in Readers THEN pc'[th] = "schedule"
       ELSE pc'[th] \in {"idle", "register", "gone", "leave"}
    /\ \A o \in Threads :
           /\ hand'[o] = IF o = th /\ th \notin Readers THEN Nil ELSE hand[o]
           /\ o # th => pc'[o] = pc[o]

\* Every step is one of these, or one of the steps of ensureSignalStream.
LEMMA StreamEffects ==
    ASSUME LabelsOK, TypeOK, HandsOK, [Next]_vars
    PROVE  \/ Quiet
           \/ \E th \in Handlers \cup Readers : Drops(th) \/ Takes(th)
           \/ \E c \in Clients : GetStream(c)
           \/ \E th \in Handlers \cup Loops :
                  \/ LockInit(th) /\ current[ClientOf(th)] = Nil
                  \/ ConnectFails(th) \/ Publish(th)
                  \/ \E s \in Streams : Connect(th, s)
           \/ \E s \in Streams : StreamBreaks(s)
<1> USE DEF Goto
<1>1. ASSUME NEW c \in Clients, Request(c) \/ ConnectionLost(c)
      PROVE  Quiet
  <2>1. UNCHANGED <<hand, owner, current, link, initMu>>
    BY <1>1 DEF Request, CreateSession, JoinSession, Call, ResumeSession, SendSignalMessage,
                ConnectionLost, streamVars, sfuVars, threadVars
  <2>2. \/ UNCHANGED pc
        \/ /\ pc[Handler(c)] = "idle"
           /\ \E label \in {"call", "register", "rejoin"} : Goto(Handler(c), label)
    BY <1>1 DEF Request, CreateSession, JoinSession, Call, ResumeSession, SendSignalMessage,
                ConnectionLost, threadVars, Receive
  <2> QED
    BY <2>1, <2>2 DEF Quiet, Holding, Opening, LabelsOK
<1>2. ASSUME NEW c \in Clients, \/ Answered(c) \/ Rejoined(c)
                                \/ RejoinFails(c) \/ IssueToken(c) \/ SendError(c)
                                \/ CloseDone(c) \/ Unregister(c) \/ LeaveOk(c) \/ LeaveFails(c)
      PROVE  Quiet
  <2>1. UNCHANGED <<hand, owner, current, link, initMu>>
    BY <1>2 DEF Answered, Created, Joined, CallRefused, AdmittedUnheard, Bind, Rejoined,
                RejoinFails, IssueToken, SendError, CloseDone, Unregister, LeaveOk, LeaveFails,
                streamVars, sfuVars
  <2>2. \/ pc[Handler(c)] = "send" /\ Goto(Handler(c), "check")
        \/ /\ pc[Handler(c)] \in {"call", "rejoin", "token", "idle", "unregister", "leave"}
           /\ \E label \in {"register", "idle", "unregister", "detach", "detachAndLeave", "gone"} :
                  Goto(Handler(c), label)
    BY <1>2 DEF Answered, Created, Joined, CallRefused, AdmittedUnheard, Bind, Rejoined,
                RejoinFails, IssueToken, SendError, CloseDone, Unregister, LeaveOk, LeaveFails
  <2> QED
    BY <2>1, <2>2 DEF Quiet, Holding, Opening, Working, LabelsOK
<1>3. ASSUME NEW c \in Clients, SendOk(c)
      PROVE  Drops(Handler(c))
  BY <1>3, ThreadKinds, ThreadNames
     DEF SendOk, Drops, Working, streamVars, sfuVars, TypeOK, LabelsOK
<1>4. ASSUME NEW th \in Handlers \cup Readers, ResetCheck(th)
      PROVE  Quiet \/ Drops(th)
  <2>1. UNCHANGED <<owner, current, link, initMu>> /\ th \in Threads
    BY <1>4 DEF ResetCheck, streamVars, sfuVars, Threads
  <2>2. \/ UNCHANGED hand /\ (Goto(th, "take") \/ Goto(th, "schedule"))
        \/ /\ hand' = [hand EXCEPT ![th] = Nil]
           /\ Goto(th, "idle") \/ Goto(th, "register")
    BY <1>4 DEF ResetCheck, AfterReset
  <2> QED
    BY <1>4, <2>1, <2>2 DEF Quiet, Drops, Working, ResetCheck, TypeOK, LabelsOK
<1>5. ASSUME NEW th \in Handlers \cup Readers, ResetTake(th)
      PROVE  Takes(th)
  <2>1. /\ UNCHANGED <<owner, initMu>> /\ TakeAndCancel(ClientOf(th)) /\ AfterReset(th)
        /\ th \in Threads /\ pc[th] = "take"
    BY <1>5 DEF ResetTake, Threads
  <2>2. CASE th \in Readers
    BY <2>1, <2>2 DEF AfterReset, Takes, TypeOK, LabelsOK
  <2>3. CASE th \notin Readers
    BY <2>1, <2>3 DEF AfterReset, Takes, TypeOK, LabelsOK
  <2> QED
    BY <2>2, <2>3
<1>6. ASSUME NEW c \in Clients, Detach(c)
      PROVE  Takes(Handler(c))
  <2>1. /\ UNCHANGED <<owner, initMu, hand>> /\ TakeAndCancel(c)
        /\ pc[Handler(c)] \in {"detach", "detachAndLeave"}
        /\ Goto(Handler(c), "gone") \/ Goto(Handler(c), "leave")
    BY <1>6 DEF Detach
  <2>2. hand[Handler(c)] = Nil
    BY <2>1 DEF HandsOK, Holding
  <2> QED
    BY <2>1, <2>2, ThreadKinds, ThreadClients DEF Takes, LabelsOK
<1>7. ASSUME NEW th \in Handlers \cup Loops,
             Register(th) \/ (LockInit(th) /\ current[ClientOf(th)] # Nil)
      PROVE  Quiet
  <2>1. UNCHANGED <<hand, owner, current, link, initMu>>
    BY <1>7 DEF Register, LockInit, streamVars, sfuVars
  <2>2. pc[th] \in {"register", "lock"} /\ (Goto(th, "lock") \/ Goto(th, After(th, TRUE)))
    BY <1>7 DEF Register, LockInit, Return
  <2>3. After(th, TRUE) \in {"finish", "token", "get"}
    BY AfterLabels DEF Handlers, Loops
  <2> QED
    BY <2>1, <2>2, <2>3 DEF Quiet, Holding, Opening, LabelsOK
<1>8. ASSUME NEW s \in Streams, RecvError(s) \/ LoopStops(s) \/ LoopTimer(s) \/ FinishReconnect(s)
      PROVE  Quiet
  <2>1. UNCHANGED <<hand, owner, current, link, initMu>>
    BY <1>8 DEF RecvError, LoopStops, LoopTimer, FinishReconnect, streamVars, sfuVars
  <2>2. \/ pc[Reader(s)] = "recv" /\ Goto(Reader(s), "check")
        \/ pc[Loop(s)] = "wait" /\ (Goto(Loop(s), "finish") \/ Goto(Loop(s), "register"))
        \/ pc[Loop(s)] = "finish" /\ Goto(Loop(s), "dead")
    BY <1>8 DEF RecvError, LoopStops, LoopTimer, FinishReconnect
  <2> QED
    BY <2>1, <2>2 DEF Quiet, Holding, Opening, Working, LabelsOK
<1>9. ASSUME NEW s \in Streams, RecvBackpressured(s)
      PROVE  Drops(Reader(s))
  BY <1>9, ThreadKinds DEF RecvBackpressured, Drops, Working, streamVars, sfuVars, TypeOK,
                           LabelsOK
<1>10. ASSUME NEW s \in Streams, Schedule(s)
       PROVE  Quiet \/ Drops(Reader(s))
  <2>1. UNCHANGED <<owner, current, link, initMu>> /\ pc[Reader(s)] = "schedule"
    BY <1>10 DEF Schedule, streamVars, sfuVars
  <2>2. \/ hand' = [hand EXCEPT ![Reader(s)] = hand[Reader(s)]] /\ Goto(Reader(s), "start")
        \/ hand' = [hand EXCEPT ![Reader(s)] = Nil] /\ Goto(Reader(s), "dead")
    BY <1>10 DEF Schedule
  <2> QED
    BY <2>1, <2>2, ThreadKinds DEF Quiet, Drops, Working, TypeOK, LabelsOK
<1>11. ASSUME NEW s \in Streams, StartReconnect(s)
       PROVE  Drops(Reader(s))
  <2>1. /\ UNCHANGED <<owner, current, link, initMu>> /\ pc[Reader(s)] = "start"
        /\ hand' = [hand EXCEPT ![Reader(s)] = Nil]
    BY <1>11 DEF StartReconnect, sfuVars
  <2>2. \/ Goto(Reader(s), "dead")
        \/ pc' = [pc EXCEPT ![Reader(s)] = "dead", ![Loop(s)] = "wait"]
    BY <1>11 DEF StartReconnect
  <2> QED
    BY <2>1, <2>2, ThreadKinds, ThreadNames DEF Drops, Working, TypeOK, LabelsOK
<1>12. CASE UNCHANGED vars
  BY <1>12 DEF Quiet, vars, streamVars, sfuVars, threadVars
<1>13. ASSUME NEW c \in Clients, HandlerStep(c)
       PROVE  \/ Quiet \/ Drops(Handler(c)) \/ Takes(Handler(c)) \/ GetStream(c)
              \/ LockInit(Handler(c)) /\ current[ClientOf(Handler(c))] = Nil
              \/ ConnectFails(Handler(c)) \/ Publish(Handler(c))
              \/ \E s \in Streams : Connect(Handler(c), s)
  BY <1>13, <1>2, <1>3, <1>4, <1>5, <1>6, <1>7, ThreadKinds DEF HandlerStep, EnsureStep
<1>14. ASSUME NEW s \in Streams, ReaderStep(s)
       PROVE  Quiet \/ Drops(Reader(s)) \/ Takes(Reader(s))
  BY <1>14, <1>4, <1>5, <1>8, <1>10, <1>11, ThreadKinds DEF ReaderStep
<1>15. ASSUME NEW s \in Streams, LoopStep(s)
       PROVE  \/ Quiet
              \/ LockInit(Loop(s)) /\ current[ClientOf(Loop(s))] = Nil
              \/ ConnectFails(Loop(s)) \/ Publish(Loop(s))
              \/ \E t \in Streams : Connect(Loop(s), t)
  BY <1>15, <1>7, <1>8, ThreadKinds DEF LoopStep, EnsureStep
<1> QED
  BY <1>1, <1>9, <1>12, <1>13, <1>14, <1>15, ThreadKinds DEF Next, AllGone

\* Who publishes, and what.
LEMMA Publishers ==
    ASSUME LabelsOK, TypeOK, HandsOK, NEW th \in Threads, pc[th] = "publish"
    PROVE  /\ th \in Handlers \cup Loops
           /\ hand[th] \in Streams /\ owner[hand[th]] = ClientOf(th)
<1>1. CASE th \in Handlers
  <2>1. PICK c \in Clients : th = Handler(c)
    BY <1>1 DEF Handlers
  <2> QED
    BY <2>1, ThreadClients, ThreadKinds DEF HandsOK, Holding, TypeOK
<1>2. CASE th \in Loops
  <2>1. PICK s \in Streams : th = Loop(s)
    BY <1>2 DEF Loops
  <2> QED
    BY <2>1, ThreadClients, ThreadKinds DEF HandsOK, Holding, TypeOK
<1>3. th \notin Readers
  BY DEF LabelsOK, Readers, ReaderLabels
<1> QED
  BY <1>1, <1>2, <1>3 DEF Threads

\* A step that moves no stream keeps the slots in order.
LEMMA QuietSlotted ==
    ASSUME LabelsOK, LabelsOK', Types, Slotted, Quiet
    PROVE  Slotted'
<1> USE DEF Slotted
<1>1. \A th \in Threads : /\ pc'[th] \in Opening <=> pc[th] \in Opening
                          /\ pc'[th] = "publish" <=> pc[th] = "publish"
                          /\ pc[th] = "dead" => pc'[th] = "dead"
  BY DEF Quiet, Holding, Opening, Working
<1>2. HandsOK'
  <2>1. \A c \in Clients : pc'[Handler(c)] \in Holding <=> pc[Handler(c)] \in Holding
    BY ThreadKinds DEF Quiet, Holding, Working, LabelsOK, HandlerLabels, Ensuring
  <2>2. \A s \in Streams : pc'[Reader(s)] = "dead" <=> pc[Reader(s)] = "dead"
    BY ThreadKinds DEF Quiet, Working, LabelsOK, ReaderLabels
  <2> QED
    BY <1>1, <2>1, <2>2, ThreadKinds DEF HandsOK, Quiet
<1>3. CurrentOK'
  BY <1>1 DEF CurrentOK, Quiet
<1>4. Private'
  <2> SUFFICES ASSUME NEW th \in Threads, pc[th] = "publish"
               PROVE  /\ pc'[Reader(hand[th])] = "dead" /\ pc'[Loop(hand[th])] = "dead"
                      /\ \A other \in Threads : hand[other] = hand[th] => other = th
                      /\ \A c \in Clients : current[c] # hand[th]
    BY <1>1 DEF Private, Quiet
  <2>1. hand[th] \in Streams
    BY Publishers DEF Types
  <2> QED
    BY <1>1, <2>1, ThreadKinds DEF Private
<1>5. MutexHeld'
  BY <1>1 DEF MutexHeld, Quiet, ClientOf
<1>6. Succession' /\ NoOrphanStream'
  BY <1>1, ThreadKinds DEF Succession, NoOrphanStream, Quiet
<1> QED
  BY <1>2, <1>3, <1>4, <1>5, <1>6

\* Letting go of a stream keeps the slots in order.
LEMMA DropsSlotted ==
    ASSUME LabelsOK, LabelsOK', Types, Slotted, NEW th \in Handlers \cup Readers, Drops(th)
    PROVE  Slotted'
<1> USE DEF Slotted
<1>1. th \in Threads /\ pc[th] # "dead" /\ pc'[th] \notin Opening
  BY DEF Threads, Drops, Working, Opening
<1>2. \A o \in Threads \ {th} :
          \/ pc'[o] = pc[o]
          \/ /\ pc[o] = "dead" /\ pc'[o] = "wait"
             /\ \E s \in Streams : th = Reader(s) /\ o = Loop(s)
  BY <1>1 DEF Drops, Succession
<1>3. \A o \in Threads : /\ pc'[o] \in Opening <=> pc[o] \in Opening
                         /\ pc'[o] = "publish" <=> pc[o] = "publish"
  BY <1>1, <1>2 DEF Drops, Opening, Working
<1>4. HandsOK'
  <2>1. ASSUME NEW c \in Clients
        PROVE  /\ hand'[Handler(c)] # Nil <=> pc'[Handler(c)] \in Holding
               /\ hand'[Handler(c)] # Nil => owner'[hand'[Handler(c)]] = c
    <3>1. CASE th = Handler(c)
      BY <3>1, ThreadKinds DEF Drops, Holding
    <3>2. CASE th # Handler(c)
      BY <3>2, <1>2, ThreadKinds, ThreadNames DEF Drops, HandsOK
    <3> QED
      BY <3>1, <3>2
  <2>2. ASSUME NEW s \in Streams
        PROVE  /\ hand'[Reader(s)] = IF pc'[Reader(s)] = "dead" THEN Nil ELSE s
               /\ hand'[Loop(s)] # Nil <=> pc'[Loop(s)] = "publish"
               /\ hand'[Loop(s)] # Nil => owner'[hand'[Loop(s)]] = owner'[s]
    <3>1. CASE th = Reader(s)
      BY <3>1, <1>3, ThreadKinds, ThreadNames DEF Drops, HandsOK, LabelsOK, ReaderLabels
    <3>2. CASE th # Reader(s)
      BY <3>2, <1>2, <1>3, ThreadKinds, ThreadNames DEF Drops, HandsOK
    <3> QED
      BY <3>1, <3>2
  <2> QED
    BY <2>1, <2>2 DEF HandsOK
<1>5. CurrentOK'
  BY <1>3 DEF CurrentOK, Drops, Working
<1>6. Private'
  <2> SUFFICES ASSUME NEW o \in Threads, pc'[o] = "publish"
               PROVE  /\ pc'[Reader(hand'[o])] = "dead" /\ pc'[Loop(hand'[o])] = "dead"
                      /\ \A other \in Threads : hand'[other] = hand'[o] => other = o
                      /\ \A c \in Clients : current'[c] # hand'[o]
    BY DEF Private
  <2>1. pc[o] = "publish" /\ o # th
    BY <1>1, <1>3 DEF Opening
  <2>2. hand[o] \in Streams /\ hand'[o] = hand[o]
    BY <2>1, Publishers DEF Types, Drops
  <2>3. pc'[Reader(hand[o])] = "dead" /\ pc'[Loop(hand[o])] = "dead"
    BY <1>1, <1>2, <2>1, <2>2, ThreadKinds, ThreadNames DEF Private
  <2> QED
    BY <2>1, <2>2, <2>3, NilAssumption DEF Private, Drops
<1>7. MutexHeld'
  BY <1>3 DEF MutexHeld, Drops, ClientOf
<1>8. Succession'
  BY <1>1, <1>2, ThreadKinds, ThreadNames DEF Succession, Drops, Working, LabelsOK, ReaderLabels
<1>9. NoOrphanStream'
  BY <1>3 DEF NoOrphanStream, Drops, Working
<1> QED
  BY <1>4, <1>5, <1>6, <1>7, <1>8, <1>9

\* Taking the stream of a connection keeps the slots in order.
LEMMA TakesSlotted ==
    ASSUME LabelsOK, LabelsOK', Types, Slotted, NEW th \in Handlers \cup Readers, Takes(th)
    PROVE  Slotted'
<1> USE DEF Slotted
<1> DEFINE c == ClientOf(th)
<1>1. th \in Threads /\ c \in Clients /\ pc[th] # "publish" /\ pc[th] # "dead"
  BY Served DEF Threads, Takes
<1>2. /\ \A d \in Clients : current'[d] = IF d = c THEN Nil ELSE current[d]
      /\ \A s \in Streams : link'[s] = IF s = current[c] THEN "cancelled" ELSE link[s]
      /\ UNCHANGED <<owner, initMu>>
  BY <1>1, TakeEffect DEF Takes, Types
<1>3. \A o \in Threads : /\ pc'[o] \in Opening <=> pc[o] \in Opening
                         /\ pc'[o] = "publish" <=> pc[o] = "publish"
                         /\ pc'[o] = "dead" <=> pc[o] = "dead"
  BY DEF Takes, Opening
<1> HIDE DEF c
<1>4. HandsOK'
  <2>1. ASSUME NEW d \in Clients
        PROVE  /\ hand'[Handler(d)] # Nil <=> pc'[Handler(d)] \in Holding
               /\ hand'[Handler(d)] # Nil => owner'[hand'[Handler(d)]] = d
    <3>1. CASE th = Handler(d)
      BY <3>1, ThreadKinds DEF Takes, Holding
    <3>2. CASE th # Handler(d)
      BY <3>2, <1>2, ThreadKinds, ThreadNames DEF Takes, HandsOK
    <3> QED
      BY <3>1, <3>2
  <2>2. ASSUME NEW s \in Streams
        PROVE  /\ hand'[Reader(s)] = IF pc'[Reader(s)] = "dead" THEN Nil ELSE s
               /\ hand'[Loop(s)] # Nil <=> pc'[Loop(s)] = "publish"
               /\ hand'[Loop(s)] # Nil => owner'[hand'[Loop(s)]] = owner'[s]
    <3>1. hand'[Reader(s)] = hand[Reader(s)] /\ hand'[Loop(s)] = hand[Loop(s)]
      BY ThreadKinds, ThreadNames DEF Takes
    <3> QED
      BY <3>1, <1>2, <1>3, ThreadKinds DEF HandsOK
  <2> QED
    BY <2>1, <2>2 DEF HandsOK
<1>5. CurrentOK'
  <2>1. \A d \in Clients : current'[d] # Nil =>
            owner'[current'[d]] = d /\ link'[current'[d]] \in {"live", "broken"}
    BY <1>1, <1>2, NilAssumption DEF CurrentOK, Types, TypeOK
  <2>2. ASSUME NEW o \in Threads, pc'[o] = "publish"
        PROVE  link'[hand'[o]] \in {"live", "broken"}
    <3>1. pc[o] = "publish" /\ hand'[o] = hand[o]
      BY <1>1, <1>3, <2>2 DEF Takes
    <3>2. hand[o] \in Streams /\ hand[o] # current[c]
      BY <1>1, <3>1, Publishers DEF Types, Private
    <3> QED
      BY <1>2, <3>1, <3>2 DEF CurrentOK
  <2> QED
    BY <2>1, <2>2 DEF CurrentOK
<1>6. Private'
  <2> SUFFICES ASSUME NEW o \in Threads, pc'[o] = "publish"
               PROVE  /\ pc'[Reader(hand'[o])] = "dead" /\ pc'[Loop(hand'[o])] = "dead"
                      /\ \A other \in Threads : hand'[other] = hand'[o] => other = o
                      /\ \A d \in Clients : current'[d] # hand'[o]
    BY DEF Private
  <2>1. pc[o] = "publish" /\ o # th
    BY <1>1, <1>3
  <2>2. hand[o] \in Streams /\ hand'[o] = hand[o]
    BY <2>1, Publishers DEF Types, Takes
  <2>3. pc'[Reader(hand[o])] = "dead" /\ pc'[Loop(hand[o])] = "dead"
    BY <1>3, <2>1, <2>2, ThreadKinds DEF Private
  <2>4. \A other \in Threads : hand'[other] \in {hand[other], Nil}
    BY DEF Takes
  <2> QED
    BY <1>2, <2>1, <2>2, <2>3, <2>4, NilAssumption DEF Private
<1>7. MutexHeld'
  <2>1. \A o \in Threads : pc[o] \in Opening => ClientOf(o) \in Clients
    BY Served DEF Opening
  <2>2. \A o \in Threads : ClientOf(o)' = ClientOf(o)
    BY <1>2 DEF ClientOf
  <2> QED
    BY <1>2, <1>3, <2>1, <2>2 DEF MutexHeld
<1>8. Succession'
  BY <1>3, ThreadKinds DEF Succession
<1>9. NoOrphanStream'
  <2> SUFFICES ASSUME NEW s \in Streams, link'[s] = "live"
               PROVE  \/ current'[owner[s]] = s
                      \/ \E o \in Threads : hand'[o] = s /\ pc'[o] = "publish"
    BY <1>2 DEF NoOrphanStream
  <2>1. link[s] = "live" /\ s # current[c] /\ owner[s] \in Clients
    BY <1>2 DEF Types, Owned, Used
  <2>2. CASE current[owner[s]] = s
    BY <1>2, <2>1, <2>2
  <2>3. ASSUME NEW o \in Threads, hand[o] = s, pc[o] = "publish"
        PROVE  hand'[o] = s /\ pc'[o] = "publish"
    BY <1>1, <1>3, <2>3 DEF Takes
  <2> QED
    BY <2>1, <2>2, <2>3 DEF NoOrphanStream
<1> QED
  BY <1>4, <1>5, <1>6, <1>7, <1>8, <1>9

\* A sender that takes the current stream to send on it keeps them in order.
LEMMA GetsSlotted ==
    ASSUME LabelsOK, Types, Slotted, NEW c \in Clients, GetStream(c)
    PROVE  Slotted'
<1> USE DEF Slotted
<1>1. /\ UNCHANGED <<owner, current, link, initMu>>
      /\ pc[Handler(c)] = "get"
      /\ \A o \in Threads : /\ hand'[o] = IF o = Handler(c) THEN current[c] ELSE hand[o]
                            /\ pc'[o] = IF o = Handler(c)
                                        THEN IF current[c] = Nil THEN "idle" ELSE "send"
                                        ELSE pc[o]
  BY ThreadKinds DEF GetStream, Goto, Types, TypeOK, LabelsOK, streamVars, sfuVars
<1>2. \A o \in Threads : /\ pc'[o] \in Opening <=> pc[o] \in Opening
                         /\ pc'[o] = "publish" <=> pc[o] = "publish"
  BY <1>1 DEF Opening
<1>3. HandsOK'
  <2>1. ASSUME NEW d \in Clients
        PROVE  /\ hand'[Handler(d)] # Nil <=> pc'[Handler(d)] \in Holding
               /\ hand'[Handler(d)] # Nil => owner'[hand'[Handler(d)]] = d
    <3>1. CASE d = c
      BY <3>1, <1>1, ThreadKinds DEF CurrentOK, Holding
    <3>2. CASE d # c
      BY <3>2, <1>1, ThreadKinds, ThreadNames DEF HandsOK
    <3> QED
      BY <3>1, <3>2
  <2> QED
    BY <1>1, <2>1, ThreadKinds, ThreadNames DEF HandsOK
<1>4. CurrentOK'
  BY <1>1, <1>2 DEF CurrentOK
<1>5. Private'
  <2> SUFFICES ASSUME NEW o \in Threads, pc'[o] = "publish"
               PROVE  /\ pc'[Reader(hand'[o])] = "dead" /\ pc'[Loop(hand'[o])] = "dead"
                      /\ \A other \in Threads : hand'[other] = hand'[o] => other = o
                      /\ \A d \in Clients : current'[d] # hand'[o]
    BY DEF Private
  <2>1. pc[o] = "publish" /\ o # Handler(c)
    BY <1>1, <1>2
  <2>2. hand[o] \in Streams /\ hand'[o] = hand[o]
    BY <1>1, <2>1, Publishers DEF Types
  <2> QED
    BY <1>1, <2>1, <2>2, ThreadKinds, ThreadNames DEF Private
<1>6. MutexHeld'
  BY <1>1, <1>2 DEF MutexHeld, ClientOf
<1>7. Succession'
  BY <1>1, ThreadKinds, ThreadNames DEF Succession
<1>8. NoOrphanStream'
  BY <1>1, <1>2 DEF NoOrphanStream
<1> QED
  BY <1>3, <1>4, <1>5, <1>6, <1>7, <1>8

\* Taking the mutex, or giving it back after a failure, keeps them in order.
LEMMA LocksSlotted ==
    ASSUME LabelsOK, Types, Slotted, NEW th \in Handlers \cup Loops,
           ConnectFails(th) \/ (LockInit(th) /\ current[ClientOf(th)] = Nil)
    PROVE  Slotted'
<1> USE DEF Slotted
<1> DEFINE c == ClientOf(th)
<1>1. th \in Threads /\ c \in Clients /\ pc[th] \in {"lock", "connect"}
  BY Served DEF Threads, ConnectFails, LockInit
<1>2. /\ UNCHANGED <<hand, owner, current, link>>
      /\ initMu' = [initMu EXCEPT ![c] = IF pc'[th] = "connect" THEN th ELSE Nil]
      /\ pc'[th] \notin Holding \cup {"dead"}
      /\ pc[th] = "lock" => pc'[th] = "connect" /\ initMu[c] = Nil
      /\ pc[th] = "connect" => pc'[th] # "connect"
      /\ current[c] = Nil
      /\ \A o \in Threads \ {th} : pc'[o] = pc[o]
  <2>1. CASE ConnectFails(th)
    <3>1. After(th, FALSE) \in {"wait", "idle"}
      BY AfterLabels DEF Handlers, Loops
    <3> QED
      BY <1>1, <2>1, <3>1
         DEF ConnectFails, Return, Goto, Holding, LabelsOK, MutexHeld, Opening, streamVars,
             sfuVars
  <2>2. CASE LockInit(th) /\ current[c] = Nil
    BY <1>1, <2>2 DEF LockInit, Goto, Holding, LabelsOK, streamVars, sfuVars
  <2> QED
    BY <2>1, <2>2
<1> HIDE DEF c
<1>3. HandsOK'
  <2>1. \A o \in Threads : /\ pc'[o] \in Holding <=> pc[o] \in Holding
                           /\ pc'[o] = "publish" <=> pc[o] = "publish"
                           /\ pc'[o] = "dead" <=> pc[o] = "dead"
    BY <1>1, <1>2 DEF Holding
  <2> QED
    BY <1>2, <2>1, ThreadKinds DEF HandsOK
<1>4. CurrentOK'
  BY <1>2 DEF CurrentOK, Holding
<1>5. Private'
  <2> SUFFICES ASSUME NEW o \in Threads, pc'[o] = "publish"
               PROVE  /\ pc'[Reader(hand'[o])] = "dead" /\ pc'[Loop(hand'[o])] = "dead"
                      /\ \A other \in Threads : hand'[other] = hand'[o] => other = o
                      /\ \A d \in Clients : current'[d] # hand'[o]
    BY DEF Private
  <2>1. pc[o] = "publish" /\ o # th
    BY <1>1, <1>2 DEF Holding
  <2>2. hand[o] \in Streams /\ hand'[o] = hand[o]
    BY <1>2, <2>1, Publishers DEF Types
  <2> QED
    BY <1>1, <1>2, <2>1, <2>2, ThreadKinds DEF Private
<1>6. MutexHeld'
  <2> SUFFICES ASSUME NEW o \in Threads, pc'[o] \in Opening
               PROVE  initMu'[ClientOf(o)] = o /\ current[ClientOf(o)] = Nil
    BY <1>2 DEF MutexHeld, ClientOf
  <2>1. CASE o = th
    BY <1>1, <1>2, <2>1 DEF Opening, Holding, Types, TypeOK, c
  <2>2. CASE o # th
    <3>1. pc[o] \in Opening /\ initMu[ClientOf(o)] = o /\ current[ClientOf(o)] = Nil
          /\ ClientOf(o) \in Clients
      BY <1>2, <2>2, Served DEF MutexHeld, Opening
    <3>2. ClientOf(o) # c
      BY <1>1, <1>2, <2>2, <3>1, ThreadKinds DEF MutexHeld, Opening, c
    <3> QED
      BY <1>2, <3>1, <3>2 DEF Types, TypeOK
  <2> QED
    BY <2>1, <2>2
<1>7. Succession'
  BY <1>1, <1>2, ThreadKinds DEF Succession
<1>8. NoOrphanStream'
  BY <1>1, <1>2 DEF NoOrphanStream
<1> QED
  BY <1>3, <1>4, <1>5, <1>6, <1>7, <1>8

\* A stream that breaks keeps them in order.
LEMMA BreaksSlotted ==
    ASSUME LabelsOK, Types, Slotted, NEW s \in Streams, StreamBreaks(s)
    PROVE  Slotted'
<1> USE DEF Slotted
<1>1. /\ UNCHANGED <<owner, current, initMu, pc, hand>>
      /\ \A t \in Streams : link'[t] = IF t = s THEN "broken" ELSE link[t]
  BY DEF StreamBreaks, Types, TypeOK, streamVars, threadVars
<1>2. HandsOK' /\ Private' /\ MutexHeld' /\ Succession'
  BY <1>1 DEF HandsOK, Private, MutexHeld, Succession, ClientOf
<1>3. CurrentOK' /\ NoOrphanStream'
  BY <1>1, Publishers DEF CurrentOK, NoOrphanStream, Types, TypeOK
<1> QED
  BY <1>2, <1>3

\* A new stream is known to the thread that has opened it only.
LEMMA ConnectsSlotted ==
    ASSUME LabelsOK, Types, Slotted, NEW th \in Handlers \cup Loops, NEW s \in Streams,
           Connect(th, s)
    PROVE  Slotted'
<1> USE DEF Slotted
<1> DEFINE c == ClientOf(th)
<1>1. /\ th \in Threads /\ c \in Clients /\ pc[th] = "connect" /\ Gone(s) /\ th # Loop(s)
      /\ \A t \in Streams : th # Reader(t)
  BY Served, ThreadKinds, ThreadNames DEF Threads, Connect, Gone, Handlers, Loops
<1>2. /\ UNCHANGED <<current, initMu>>
      /\ \A t \in Streams : /\ link'[t] = IF t = s THEN "live" ELSE link[t]
                            /\ owner'[t] = IF t = s THEN c ELSE owner[t]
      /\ \A o \in Threads : /\ hand'[o] = IF o = th THEN s ELSE hand[o]
                            /\ pc'[o] = IF o = th THEN "publish" ELSE pc[o]
  BY <1>1 DEF Connect, Goto, Types, TypeOK, LabelsOK, streamVars
<1> HIDE DEF c
<1>3. HandsOK'
  <2>1. ASSUME NEW d \in Clients
        PROVE  /\ hand'[Handler(d)] # Nil <=> pc'[Handler(d)] \in Holding
               /\ hand'[Handler(d)] # Nil => owner'[hand'[Handler(d)]] = d
    <3>1. CASE th = Handler(d)
      BY <3>1, <1>2, ThreadKinds, ThreadClients, NilAssumption DEF Holding, c
    <3>2. CASE th # Handler(d)
      BY <3>2, <1>1, <1>2, ThreadKinds DEF HandsOK, Gone, Types, TypeOK
    <3> QED
      BY <3>1, <3>2
  <2>2. ASSUME NEW t \in Streams
        PROVE  /\ hand'[Reader(t)] = IF pc'[Reader(t)] = "dead" THEN Nil ELSE t
               /\ hand'[Loop(t)] # Nil <=> pc'[Loop(t)] = "publish"
               /\ hand'[Loop(t)] # Nil => owner'[hand'[Loop(t)]] = owner'[t]
    <3>1. CASE th = Loop(t)
      BY <3>1, <1>1, <1>2, ThreadKinds, ThreadClients, NilAssumption DEF HandsOK, c
    <3>2. CASE th # Loop(t)
      <4>1. hand[Loop(t)] # Nil => hand[Loop(t)] \in Streams \ {s} /\ t # s
        BY <1>1, <3>2, ThreadKinds DEF Gone, Types, TypeOK, HandsOK
      <4> QED
        BY <3>2, <4>1, <1>1, <1>2, ThreadKinds DEF HandsOK
    <3> QED
      BY <3>1, <3>2
  <2> QED
    BY <2>1, <2>2 DEF HandsOK
<1>4. CurrentOK'
  BY <1>1, <1>2, Publishers DEF CurrentOK, Gone, Types, TypeOK
<1>5. Private'
  <2> SUFFICES ASSUME NEW o \in Threads, pc'[o] = "publish"
               PROVE  /\ pc'[Reader(hand'[o])] = "dead" /\ pc'[Loop(hand'[o])] = "dead"
                      /\ \A other \in Threads : hand'[other] = hand'[o] => other = o
                      /\ \A d \in Clients : current'[d] # hand'[o]
    BY DEF Private
  <2>1. CASE o = th
    BY <1>1, <1>2, <2>1, ThreadKinds DEF Gone
  <2>2. CASE o # th
    <3>1. pc[o] = "publish" /\ hand[o] \in Streams \ {s} /\ hand'[o] = hand[o]
      BY <1>1, <1>2, <2>2, Publishers DEF Gone, Types
    <3>2. Loop(hand[o]) # th
      BY <1>1, <3>1 DEF Private
    <3> QED
      BY <1>1, <1>2, <2>2, <3>1, <3>2, ThreadKinds DEF Private
  <2> QED
    BY <2>1, <2>2
<1>6. MutexHeld'
  <2> SUFFICES ASSUME NEW o \in Threads, pc'[o] \in Opening
               PROVE  initMu[ClientOf(o)'] = o /\ current[ClientOf(o)'] = Nil
    BY <1>2 DEF MutexHeld
  <2>1. pc[o] \in Opening
    BY <1>1, <1>2 DEF Opening
  <2>2. ClientOf(o)' = ClientOf(o)
    <3>1. CASE o \in Handlers
      BY <3>1 DEF ClientOf
    <3>2. CASE o \in Loops
      <4>1. PICK t \in Streams : o = Loop(t)
        BY <3>2 DEF Loops
      <4>2. t # s
        BY <1>1, <2>1, <4>1 DEF Gone, Opening
      <4> QED
        BY <1>2, <4>1, <4>2, ThreadKinds DEF ClientOf, Loop
    <3>3. o \notin Readers
      BY <2>1 DEF LabelsOK, ReaderLabels, Opening, Readers
    <3> QED
      BY <3>1, <3>2, <3>3 DEF Threads
  <2> QED
    BY <2>1, <2>2 DEF MutexHeld
<1>7. Succession'
  BY <1>1, <1>2, ThreadKinds DEF Succession
<1>8. NoOrphanStream'
  <2> SUFFICES ASSUME NEW t \in Streams, link'[t] = "live"
               PROVE  \/ current[owner'[t]] = t
                      \/ \E o \in Threads : hand'[o] = t /\ pc'[o] = "publish"
    BY <1>2 DEF NoOrphanStream
  <2>1. CASE t = s
    BY <1>1, <1>2, <2>1
  <2>2. CASE t # s
    BY <1>1, <1>2, <2>2 DEF NoOrphanStream
  <2> QED
    BY <2>1, <2>2
<1> QED
  BY <1>3, <1>4, <1>5, <1>6, <1>7, <1>8

\* What Publish changes: no stream has turned up.
LEMMA PublishEffect ==
    ASSUME LabelsOK, Types, Slotted, NEW th \in Handlers \cup Loops, Publish(th)
    PROVE  /\ th \in Threads /\ ClientOf(th) \in Clients /\ hand[th] \in Streams
           /\ owner[hand[th]] = ClientOf(th)
           /\ current[ClientOf(th)] = Nil
           /\ UNCHANGED <<owner, link>>
           /\ \A d \in Clients :
                  /\ current'[d] = IF d = ClientOf(th) THEN hand[th] ELSE current[d]
                  /\ initMu'[d] = IF d = ClientOf(th) THEN Nil ELSE initMu[d]
           /\ \A o \in Threads : pc'[o] = IF o = Reader(hand[th]) THEN "recv"
                                         ELSE IF o = th THEN After(th, TRUE) ELSE pc[o]
           /\ \A o \in Threads : hand'[o] = IF o = Reader(hand[th]) THEN hand[th]
                                           ELSE IF o = th THEN Nil ELSE hand[o]
           /\ After(th, TRUE) \in {"finish", "token", "get"}
<1>1. th \in Threads /\ pc[th] = "publish" /\ th # Reader(hand[th])
  BY ThreadNames DEF Publish, Threads, Handlers, Loops
<1>2. ClientOf(th) \in Clients /\ hand[th] \in Streams /\ owner[hand[th]] = ClientOf(th)
  BY <1>1, Served, Publishers DEF Types, Slotted
<1>3. current[ClientOf(th)] = Nil
  BY <1>1 DEF Slotted, MutexHeld, Opening
<1>4. After(th, TRUE) \in {"finish", "token", "get"}
  BY AfterLabels DEF Handlers, Loops
<1>5. /\ UNCHANGED <<owner, link>>
      /\ current' = [current EXCEPT ![ClientOf(th)] = hand[th]]
      /\ initMu' = [initMu EXCEPT ![ClientOf(th)] = Nil]
      /\ pc' = [pc EXCEPT ![th] = After(th, TRUE), ![Reader(hand[th])] = "recv"]
      /\ hand' = [hand EXCEPT ![th] = Nil, ![Reader(hand[th])] = hand[th]]
  BY <1>3 DEF Publish
<1>6. \A o \in Threads : pc'[o] = IF o = Reader(hand[th]) THEN "recv"
                                  ELSE IF o = th THEN After(th, TRUE) ELSE pc[o]
  BY <1>1, <1>5 DEF LabelsOK
<1>7. \A o \in Threads : hand'[o] = IF o = Reader(hand[th]) THEN hand[th]
                                    ELSE IF o = th THEN Nil ELSE hand[o]
  BY <1>1, <1>5 DEF Types, TypeOK
<1> QED
  BY <1>1, <1>2, <1>3, <1>4, <1>5, <1>6, <1>7 DEF Types, TypeOK

\* Publishing a stream fills the slot of its connection.
LEMMA PublishesSlotted ==
    ASSUME LabelsOK, Types, Slotted, NEW th \in Handlers \cup Loops, Publish(th)
    PROVE  Slotted'
<1> USE DEF Slotted
<1> DEFINE c == ClientOf(th)
           s == hand[th]
<1>1. /\ th \in Threads /\ c \in Clients /\ s \in Streams /\ owner[s] = c /\ current[c] = Nil
      /\ pc[th] = "publish" /\ \A t : th # Reader(t)
  <2>1. pc[th] = "publish" /\ \A t : th # Reader(t)
    BY ThreadNames DEF Publish, Handlers, Loops
  <2> QED
    BY <2>1, PublishEffect
<1>2. /\ UNCHANGED <<owner, link>>
      /\ \A d \in Clients : /\ current'[d] = IF d = c THEN s ELSE current[d]
                            /\ initMu'[d] = IF d = c THEN Nil ELSE initMu[d]
      /\ \A o \in Threads : hand'[o] = IF o = Reader(s) THEN s ELSE IF o = th THEN Nil ELSE hand[o]
      /\ \A o \in Threads : pc'[o] = IF o = Reader(s) THEN "recv"
                                     ELSE IF o = th THEN After(th, TRUE) ELSE pc[o]
      /\ After(th, TRUE) \in {"finish", "token", "get"}
  BY PublishEffect
<1>3. /\ pc[Reader(s)] = "dead" /\ pc[Loop(s)] = "dead"
      /\ \A o \in Threads : hand[o] = s => o = th
      /\ \A d \in Clients : current[d] # s
  BY <1>1 DEF Private
<1>4. /\ \A d \in Clients : Handler(d) # Reader(s) /\ Handler(d) \in Threads
      /\ \A t \in Streams : /\ Loop(t) # Reader(s) /\ Loop(t) \in Threads
                            /\ Reader(t) # th /\ Reader(t) \in Threads
                            /\ t # s => Reader(t) # Reader(s)
  BY <1>1, ThreadKinds, ThreadNames
<1>5. /\ pc'[Reader(s)] = "recv" /\ hand'[Reader(s)] = s
      /\ pc'[th] \in {"finish", "token", "get"} /\ hand'[th] = Nil
      /\ \A o \in Threads : o # th /\ o # Reader(s) => pc'[o] = pc[o] /\ hand'[o] = hand[o]
  BY <1>1, <1>2, ThreadKinds
<1> HIDE DEF c, s
<1>6. HandsOK'
  <2>1. ASSUME NEW d \in Clients
        PROVE  /\ hand'[Handler(d)] # Nil <=> pc'[Handler(d)] \in Holding
               /\ hand'[Handler(d)] # Nil => owner'[hand'[Handler(d)]] = d
    <3>1. CASE th = Handler(d)
      BY <1>5, <3>1 DEF Holding
    <3>2. CASE th # Handler(d)
      BY <1>2, <1>4, <1>5, <3>2 DEF HandsOK
    <3> QED
      BY <3>1, <3>2
  <2>2. ASSUME NEW t \in Streams
        PROVE  /\ hand'[Reader(t)] = IF pc'[Reader(t)] = "dead" THEN Nil ELSE t
               /\ hand'[Loop(t)] # Nil <=> pc'[Loop(t)] = "publish"
               /\ hand'[Loop(t)] # Nil => owner'[hand'[Loop(t)]] = owner'[t]
    <3>1. hand'[Reader(t)] = IF pc'[Reader(t)] = "dead" THEN Nil ELSE t
      BY <1>4, <1>5 DEF HandsOK
    <3>2. CASE th = Loop(t)
      BY <1>5, <3>1, <3>2
    <3>3. CASE th # Loop(t)
      BY <1>2, <1>4, <1>5, <3>1, <3>3 DEF HandsOK
    <3> QED
      BY <3>2, <3>3
  <2> QED
    BY <2>1, <2>2 DEF HandsOK
<1>7. CurrentOK'
  <2>1. link[s] \in {"live", "broken"}
    BY <1>1 DEF CurrentOK, s
  <2>2. \A o \in Threads : pc'[o] = "publish" => pc[o] = "publish" /\ hand'[o] = hand[o]
    BY <1>1, <1>2
  <2> QED
    BY <1>1, <1>2, <2>1, <2>2 DEF CurrentOK
<1>8. Private'
  <2> SUFFICES ASSUME NEW o \in Threads, pc'[o] = "publish"
               PROVE  /\ pc'[Reader(hand'[o])] = "dead" /\ pc'[Loop(hand'[o])] = "dead"
                      /\ \A other \in Threads : hand'[other] = hand'[o] => other = o
                      /\ \A d \in Clients : current'[d] # hand'[o]
    BY DEF Private
  <2>1. pc[o] = "publish" /\ o # th /\ o # Reader(s)
    BY <1>1, <1>2
  <2>2. hand[o] \in Streams \ {s} /\ hand'[o] = hand[o]
    BY <1>2, <1>3, <2>1, Publishers DEF Types
  <2>3. pc[Loop(hand[o])] = "dead" /\ pc[Reader(hand[o])] = "dead" /\ Loop(hand[o]) # th
    BY <1>1, <2>1 DEF Private
  <2>4. pc'[Reader(hand[o])] = "dead" /\ pc'[Loop(hand[o])] = "dead"
    BY <1>4, <1>5, <2>2, <2>3
  <2>5. \A other \in Threads : hand'[other] = hand[o] => hand[other] = hand[o]
    BY <1>2, <2>2, NilAssumption
  <2> QED
    BY <1>2, <2>1, <2>2, <2>4, <2>5 DEF Private
<1>9. MutexHeld'
  <2> SUFFICES ASSUME NEW o \in Threads, pc'[o] \in Opening
               PROVE  initMu'[ClientOf(o)] = o /\ current'[ClientOf(o)] = Nil
    BY <1>2 DEF MutexHeld, ClientOf
  <2>1. pc[o] \in Opening /\ o # th
    BY <1>2 DEF Opening
  <2>2. initMu[ClientOf(o)] = o /\ current[ClientOf(o)] = Nil /\ initMu[c] = th
    BY <1>1, <2>1 DEF MutexHeld, Opening, c
  <2>3. ClientOf(o) \in Clients
    BY <2>1, Served DEF Opening
  <2> QED
    BY <1>2, <2>1, <2>2, <2>3
<1>10. Succession'
  <2>1. ASSUME NEW t \in Streams
        PROVE  /\ pc'[Reader(t)] = "dead" => pc[Reader(t)] = "dead"
               /\ pc'[Reader(t)] # "dead" => pc[Reader(t)] # "dead" \/ t = s
               /\ pc'[Loop(t)] # "dead" => pc[Loop(t)] # "dead"
    BY <1>1, <1>4, <1>5, <2>1 DEF Publish
  <2> QED
    BY <1>3, <2>1 DEF Succession
<1>11. NoOrphanStream'
  <2> SUFFICES ASSUME NEW t \in Streams, link[t] = "live"
               PROVE  \/ current'[owner[t]] = t
                      \/ \E o \in Threads : hand'[o] = t /\ pc'[o] = "publish"
    BY <1>2 DEF NoOrphanStream
  <2>1. owner[t] \in Clients
    BY DEF Types, Owned, Used
  <2>2. CASE t = s
    BY <1>1, <1>2, <2>2
  <2>3. CASE current[owner[t]] = t
    BY <1>1, <1>2, <2>1, <2>3, NilAssumption
  <2>4. ASSUME NEW o \in Threads, hand[o] = t, pc[o] = "publish", t # s
        PROVE  hand'[o] = t /\ pc'[o] = "publish"
    BY <1>2, <1>3, <2>4 DEF s
  <2> QED
    BY <2>2, <2>3, <2>4 DEF NoOrphanStream
<1> QED
  BY <1>6, <1>7, <1>8, <1>9, <1>10, <1>11

\* The slots stay in order.
LEMMA SlottedStep ==
    ASSUME LabelsOK, LabelsOK', Types, Slotted, [Next]_vars
    PROVE  Slotted'
BY StreamEffects, QuietSlotted, DropsSlotted, TakesSlotted, GetsSlotted, LocksSlotted,
   BreaksSlotted, ConnectsSlotted, PublishesSlotted DEF Types, Slotted

\* The slots are in order in every reachable state.
LEMMA SlottedCorrect == Spec => [](LabelsOK /\ Types /\ Slotted)
<1>1. Init => Slotted
  BY ThreadKinds, NilAssumption
     DEF Init, Slotted, HandsOK, CurrentOK, Private, MutexHeld, Succession, NoOrphanStream,
         Holding, Opening
<1>2. LabelsOK /\ LabelsOK' /\ Types /\ Slotted /\ [Next]_vars => Slotted'
  BY SlottedStep
<1> QED
  BY <1>1, <1>2, LabelsCorrect, TypesCorrect, PTL DEF Spec

\* A live stream is the current one of its connection or about to be, whatever
\* resets, reconnects and leaves meet (resetSpecificSignalStream).
THEOREM StreamsAreKept == Spec => []NoOrphanStream
BY SlottedCorrect, PTL DEF Slotted

\* One thread at a time opens a stream for a connection, and none turns up
\* while it does (streamInitMu).
THEOREM OpensOneByOne == Spec => []OneOpens
<1>1. LabelsOK /\ Types /\ Slotted => OneOpens
  BY DEF Slotted, MutexHeld, OneOpens, Opening
<1> QED
  BY <1>1, SlottedCorrect, PTL

\* A connection has one live stream at most, and none while a thread is about
\* to open one.
LEMMA OneLive ==
    ASSUME LabelsOK, Types, Slotted, NEW c \in Clients
    PROVE  /\ \A s, t \in LiveStreams(c) : s = t
           /\ \A th \in Threads : pc[th] = "connect" /\ ClientOf(th) = c => LiveStreams(c) = {}
<1> DEFINE Opener(th) == th \in Threads /\ pc[th] \in Opening /\ ClientOf(th) = c
<1>1. \A th, o : Opener(th) /\ Opener(o) => th = o /\ current[c] = Nil
  BY DEF Slotted, MutexHeld
<1>2. \A s \in LiveStreams(c) :
          \/ current[c] = s
          \/ \E th \in Threads : hand[th] = s /\ pc[th] = "publish" /\ Opener(th)
  BY Publishers DEF LiveStreams, Slotted, NoOrphanStream, Types, Opening
<1>3. Nil \notin LiveStreams(c)
  BY NilAssumption DEF LiveStreams
<1> HIDE DEF Opener
<1>4. \A s, t \in LiveStreams(c) : s = t
  BY <1>1, <1>2, <1>3
<1>5. ASSUME NEW th \in Threads, pc[th] = "connect", ClientOf(th) = c, NEW s \in LiveStreams(c)
      PROVE  FALSE
  <2>1. Opener(th)
    BY <1>5 DEF Opener, Opening
  <2> QED
    BY <1>1, <1>2, <1>3, <1>5, <2>1
<1> QED
  BY <1>4, <1>5

\* Handlers, readers and loops together implement the abstract slots.
THEOREM SlotsImplemented == Spec => ImplementsSlots
<1> DEFINE live == [c \in Clients |-> LiveStreams(c)]
<1>1. Init => Slots!Init
  BY NilAssumption DEF Init, Slots!Init, LiveStreams
<1>2. LabelsOK /\ Types /\ Slotted /\ [Next]_vars => [Slots!Next]_live
  <2> SUFFICES ASSUME LabelsOK, Types, Slotted, [Next]_vars PROVE [Slots!Next]_live
    OBVIOUS
  <2>1. CASE UNCHANGED <<owner, link>>
    BY <2>1 DEF LiveStreams
  <2>2. ASSUME NEW c \in Clients, NEW s \in LiveStreams(c), UNCHANGED owner,
               \A t \in Streams \ {s} : link'[t] = link[t], link'[s] # "live"
        PROVE  [Slots!Next]_live
    <3>1. LiveStreams(c) = {s}
      BY OneLive
    <3>2. \A d \in Clients : LiveStreams(d)' = IF d = c THEN {} ELSE LiveStreams(d)
      BY <2>2, <3>1 DEF LiveStreams
    <3>3. Slots!Close(c)
      BY <3>1, <3>2 DEF Slots!Close
    <3> QED
      BY <3>3 DEF Slots!Next
  <2>3. ASSUME NEW th \in Handlers \cup Readers, Takes(th)
        PROVE  [Slots!Next]_live
    <3> DEFINE c == ClientOf(th)
    <3>1. c \in Clients
      BY <2>3, Served DEF Takes, Threads
    <3>2. /\ \A s \in Streams : link'[s] = IF s = current[c] THEN "cancelled" ELSE link[s]
          /\ UNCHANGED owner
      BY <2>3, <3>1, TakeEffect DEF Takes, Types
    <3>3. CASE current[c] \in LiveStreams(c)
      <4>1. /\ current[c] \in Streams /\ link'[current[c]] # "live"
            /\ \A t \in Streams \ {current[c]} : link'[t] = link[t]
        BY <3>2, <3>3 DEF LiveStreams
      <4> HIDE DEF c
      <4> QED
        BY <2>2, <3>1, <3>2, <3>3, <4>1
    <3>4. CASE current[c] \notin LiveStreams(c)
      <4>1. \A s \in Streams : link[s] = "live" => s # current[c]
        BY <3>1, <3>4, NilAssumption DEF LiveStreams, Slotted, CurrentOK
      <4>2. \A d \in Clients : LiveStreams(d)' = LiveStreams(d)
        BY <3>2, <4>1 DEF LiveStreams
      <4> QED
        BY <4>2
    <3> QED
      BY <3>3, <3>4
  <2>4. ASSUME NEW s \in Streams, StreamBreaks(s)
        PROVE  [Slots!Next]_live
    <3>1. owner[s] \in Clients /\ s \in LiveStreams(owner[s])
      BY <2>4 DEF StreamBreaks, LiveStreams, Types, Owned, Used
    <3> QED
      BY <2>2, <2>4, <3>1 DEF StreamBreaks, Types, TypeOK
  <2>5. ASSUME NEW th \in Handlers \cup Loops, NEW s \in Streams, Connect(th, s)
        PROVE  [Slots!Next]_live
    <3> DEFINE c == ClientOf(th)
    <3>1. c \in Clients /\ LiveStreams(c) = {}
      BY <2>5, Served, OneLive DEF Connect, Threads
    <3>2. \A d \in Clients : s \notin LiveStreams(d)
      BY <2>5 DEF Connect, Gone, LiveStreams
    <3>3. \A d \in Clients : LiveStreams(d)' = IF d = c THEN {s} ELSE LiveStreams(d)
      BY <2>5, <3>1, <3>2 DEF Connect, LiveStreams, Types, TypeOK
    <3>4. Slots!Open(c, s)
      BY <3>1, <3>2, <3>3 DEF Slots!Open
    <3> QED
      BY <3>1, <3>4 DEF Slots!Next
  <2>6. ASSUME NEW th \in Handlers \cup Loops, ConnectFails(th) \/ LockInit(th) \/ Publish(th)
        PROVE  UNCHANGED <<owner, link>>
    BY <2>6, PublishEffect DEF ConnectFails, LockInit, sfuVars
  <2>7. ASSUME NEW c \in Clients, GetStream(c)
        PROVE  UNCHANGED <<owner, link>>
    BY <2>7 DEF GetStream, sfuVars
  <2> QED
    BY <2>1, <2>3, <2>4, <2>5, <2>6, <2>7, StreamEffects DEF Quiet, Drops, Types, Slotted
<1> QED
  BY <1>1, <1>2, SlottedCorrect, PTL DEF Spec, ImplementsSlots, Slots!Spec

-----------------------------------------------------------------------------
\* At most one loop runs for a connection, and the flag tells whether one does.
LoopsCounted ==
    /\ \A s, t \in Streams :
           pc[Loop(s)] # "dead" /\ pc[Loop(t)] # "dead" /\ owner[s] = owner[t] => s = t
    /\ \A c \in Clients :
           reconnecting[c] <=> \E s \in Streams : owner[s] = c /\ pc[Loop(s)] # "dead"

\* A loop starts with StartReconnect and ends with FinishReconnect.
LEMMA LoopEffects ==
    ASSUME LabelsOK, Types, Slotted, [Next]_vars
    PROVE  \/ /\ UNCHANGED <<reconnecting, owner, attachedAs>>
              /\ \A s \in Streams : pc'[Loop(s)] = "dead" <=> pc[Loop(s)] = "dead"
           \/ \E s \in Streams : StartReconnect(s) \/ FinishReconnect(s)
           \/ \E th \in Handlers \cup Loops, s \in Streams : Connect(th, s)
<1>1. ASSUME NEW th \in Threads, \/ ResetCheck(th) \/ ResetTake(th) \/ Register(th) \/ LockInit(th)
                                \/ ConnectFails(th) \/ Publish(th)
      PROVE  UNCHANGED <<reconnecting, owner, attachedAs>>
  BY <1>1 DEF ResetCheck, ResetTake, Register, LockInit, ConnectFails, Publish, streamVars,
              sfuVars
<1>2. ASSUME NEW c \in Clients, Request(c) \/ HandlerStep(c) \/ ConnectionLost(c),
             ~\E s \in Streams : Connect(Handler(c), s)
      PROVE  /\ UNCHANGED <<reconnecting, owner, attachedAs>>
             /\ \A s \in Streams : pc'[Loop(s)] = pc[Loop(s)]
  <2>1. \A s \in Streams : pc'[Loop(s)] = pc[Loop(s)]
    BY <1>2, HandlerMoves DEF Types
  <2>2. CASE Request(c) \/ ConnectionLost(c)
    BY <2>1, <2>2
       DEF Request, CreateSession, JoinSession, Call, ResumeSession, SendSignalMessage,
           ConnectionLost, streamVars, sfuVars
  <2>3. CASE \/ Answered(c) \/ Rejoined(c) \/ RejoinFails(c) \/ IssueToken(c)
             \/ GetStream(c) \/ SendOk(c) \/ SendError(c)
             \/ CloseDone(c) \/ Unregister(c) \/ Detach(c) \/ LeaveOk(c) \/ LeaveFails(c)
    BY <2>1, <2>3
       DEF Answered, Created, Joined, CallRefused, AdmittedUnheard, Bind, Rejoined, RejoinFails,
           IssueToken, GetStream, SendOk, SendError, CloseDone, Unregister, Detach, LeaveOk,
           LeaveFails, streamVars, sfuVars
  <2> QED
    BY <1>1, <1>2, <2>1, <2>2, <2>3, ThreadKinds DEF HandlerStep, EnsureStep
<1>3. ASSUME NEW s \in Streams,
             ReaderStep(s) \/ LoopStep(s) \/ StreamBreaks(s) \/ RecvBackpressured(s),
             ~StartReconnect(s), ~FinishReconnect(s), ~\E t \in Streams : Connect(Loop(s), t)
      PROVE  /\ UNCHANGED <<reconnecting, owner, attachedAs>>
             /\ \A t \in Streams : pc'[Loop(t)] = "dead" <=> pc[Loop(t)] = "dead"
  <2>1. \A t \in Streams \ {s} : pc'[Loop(t)] = pc[Loop(t)]
    BY <1>3, StreamMoves DEF Types
  <2>2. CASE RecvError(s) \/ Schedule(s) \/ StreamBreaks(s) \/ RecvBackpressured(s)
    BY <2>1, <2>2, ThreadKinds, ThreadNames
       DEF RecvError, Schedule, StreamBreaks, RecvBackpressured, streamVars, sfuVars, threadVars,
           Goto, LabelsOK
  <2>3. CASE ResetCheck(Reader(s)) \/ ResetTake(Reader(s))
    <3>1. Goto(Reader(s), "take") \/ Goto(Reader(s), "schedule")
      BY <2>3, ThreadKinds DEF ResetCheck, ResetTake, AfterReset
    <3> QED
      BY <1>1, <2>1, <2>3, <3>1, ThreadKinds, ThreadNames DEF Goto, LabelsOK
  <2>4. CASE LoopStops(s) \/ LoopTimer(s)
    BY <2>1, <2>4, ThreadKinds DEF LoopStops, LoopTimer, streamVars, sfuVars, Goto, LabelsOK
  <2>5. CASE EnsureStep(Loop(s))
    <3>1. pc[Loop(s)] # "dead" /\ pc'[Loop(s)] # "dead"
      BY <2>5, EnsureLabels, AfterLabels DEF Loops, Ensuring
    <3> QED
      BY <1>1, <1>3, <2>1, <2>5, <3>1, ThreadKinds DEF EnsureStep
  <2> QED
    BY <1>3, <2>2, <2>3, <2>4, <2>5 DEF ReaderStep, LoopStep
<1>4. CASE UNCHANGED vars
  BY <1>4 DEF vars, streamVars, sfuVars, threadVars
<1> QED
  BY <1>2, <1>3, <1>4, ThreadKinds DEF Next, AllGone

\* The flag keeps count of the loops.
LEMMA LoopsStep ==
    ASSUME LabelsOK, Types, Slotted, LoopsCounted, [Next]_vars
    PROVE  LoopsCounted'
<1>1. CASE /\ UNCHANGED <<reconnecting, owner>>
           /\ \A s \in Streams : pc'[Loop(s)] = "dead" <=> pc[Loop(s)] = "dead"
  BY <1>1 DEF LoopsCounted
<1>2. ASSUME NEW s \in Streams, StartReconnect(s)
      PROVE  LoopsCounted'
  <2>1. owner[s] \in Clients /\ UNCHANGED owner
    BY <1>2 DEF StartReconnect, Types, Owned, Used, sfuVars
  <2>2. CASE reconnecting[owner[s]]
    <3>1. Goto(Reader(s), "dead") /\ UNCHANGED reconnecting
      BY <1>2, <2>2 DEF StartReconnect
    <3>2. \A t \in Streams : pc'[Loop(t)] = pc[Loop(t)]
      BY <3>1, ThreadKinds, ThreadNames DEF Goto, LabelsOK
    <3> QED
      BY <2>1, <3>1, <3>2 DEF LoopsCounted
  <2>3. CASE ~reconnecting[owner[s]]
    <3>1. /\ pc' = [pc EXCEPT ![Reader(s)] = "dead", ![Loop(s)] = "wait"]
          /\ reconnecting' = [reconnecting EXCEPT ![owner[s]] = TRUE]
      BY <1>2, <2>3 DEF StartReconnect
    <3>2. \A t \in Streams : pc'[Loop(t)] = IF t = s THEN "wait" ELSE pc[Loop(t)]
      BY <3>1, ThreadKinds, ThreadNames DEF LabelsOK
    <3>3. \A t \in Streams : owner[t] = owner[s] => pc[Loop(t)] = "dead"
      BY <2>1, <2>3 DEF LoopsCounted
    <3>4. \A c \in Clients : reconnecting'[c] = IF c = owner[s] THEN TRUE ELSE reconnecting[c]
      BY <3>1 DEF Types, TypeOK
    <3>5. \A t, u \in Streams : pc'[Loop(t)] # "dead" /\ pc'[Loop(u)] # "dead"
                                  /\ owner[t] = owner[u] => t = u
      BY <3>2, <3>3 DEF LoopsCounted
    <3>6. ASSUME NEW c \in Clients
          PROVE  reconnecting'[c] <=> \E t \in Streams : owner[t] = c /\ pc'[Loop(t)] # "dead"
      <4>1. CASE c = owner[s]
        BY <3>2, <3>4, <4>1
      <4>2. CASE c # owner[s]
        <5>1. reconnecting'[c] = reconnecting[c]
          BY <3>4, <4>2
        <5>2. \A t \in Streams : owner[t] = c => pc'[Loop(t)] = pc[Loop(t)]
          BY <3>2, <4>2
        <5> QED
          BY <5>1, <5>2 DEF LoopsCounted
      <4> QED
        BY <4>1, <4>2
    <3> QED
      BY <2>1, <3>5, <3>6 DEF LoopsCounted
  <2> QED
    BY <2>2, <2>3
<1>3. ASSUME NEW s \in Streams, FinishReconnect(s)
      PROVE  LoopsCounted'
  <2>1. owner[s] \in Clients /\ UNCHANGED owner /\ pc[Loop(s)] # "dead"
    BY <1>3 DEF FinishReconnect, Types, Owned, Used, sfuVars
  <2>2. \A t \in Streams : pc'[Loop(t)] = IF t = s THEN "dead" ELSE pc[Loop(t)]
    BY <1>3, ThreadKinds, ThreadNames DEF FinishReconnect, Goto, LabelsOK
  <2>3. reconnecting' = [reconnecting EXCEPT ![owner[s]] = FALSE]
    BY <1>3 DEF FinishReconnect
  <2>4. \A c \in Clients : reconnecting'[c] = IF c = owner[s] THEN FALSE ELSE reconnecting[c]
    BY <2>3 DEF Types, TypeOK
  <2>5. \A t, u \in Streams : pc'[Loop(t)] # "dead" /\ pc'[Loop(u)] # "dead"
                                /\ owner[t] = owner[u] => t = u
    BY <2>2 DEF LoopsCounted
  <2>6. ASSUME NEW c \in Clients
        PROVE  reconnecting'[c] <=> \E t \in Streams : owner[t] = c /\ pc'[Loop(t)] # "dead"
    <3>1. CASE c = owner[s]
      BY <2>1, <2>2, <2>4, <3>1 DEF LoopsCounted
    <3>2. CASE c # owner[s]
      <4>1. reconnecting'[c] = reconnecting[c]
        BY <2>4, <3>2
      <4>2. \A t \in Streams : owner[t] = c => pc'[Loop(t)] = pc[Loop(t)]
        BY <2>2, <3>2
      <4> QED
        BY <4>1, <4>2 DEF LoopsCounted
    <3> QED
      BY <3>1, <3>2
  <2> QED
    BY <2>1, <2>5, <2>6 DEF LoopsCounted
<1>4. ASSUME NEW th \in Handlers \cup Loops, NEW s \in Streams, Connect(th, s)
      PROVE  LoopsCounted'
  <2>1. \A t \in Streams : pc'[Loop(t)] = "dead" <=> pc[Loop(t)] = "dead"
    BY <1>4, ThreadKinds DEF Connect, Goto, LabelsOK
  <2>2. UNCHANGED reconnecting /\ pc[Loop(s)] = "dead"
    BY <1>4 DEF Connect, Gone, streamVars
  <2>3. \A t \in Streams \ {s} : owner'[t] = owner[t]
    BY <1>4 DEF Connect, Types, TypeOK
  <2> QED
    BY <2>1, <2>2, <2>3 DEF LoopsCounted
<1> QED
  BY <1>1, <1>2, <1>3, <1>4, LoopEffects

\* One loop runs for a connection, in every reachable state.
LEMMA LoopsCorrect == Spec => []LoopsCounted
<1>1. Init => LoopsCounted
  BY ThreadKinds DEF Init, LoopsCounted
<1> QED
  BY <1>1, LoopsStep, SlottedCorrect, PTL DEF Spec

\* The flag of a connection is set exactly while one loop runs for it.
THEOREM LoopsOneByOne == Spec => []OneLoop
<1>1. ASSUME LoopsCounted, NEW c \in Clients
      PROVE  LET loops == {s \in Streams : owner[s] = c /\ pc[Loop(s)] # "dead"}
             IN  Cardinality(loops) = IF reconnecting[c] THEN 1 ELSE 0
  <2> DEFINE loops == {s \in Streams : owner[s] = c /\ pc[Loop(s)] # "dead"}
  <2>1. CASE reconnecting[c]
    <3>1. PICK s \in Streams : owner[s] = c /\ pc[Loop(s)] # "dead"
      BY <1>1, <2>1 DEF LoopsCounted
    <3>2. loops = {s}
      BY <1>1, <3>1 DEF LoopsCounted
    <3> QED
      BY <2>1, <3>2, FS_Singleton
  <2>2. CASE ~reconnecting[c]
    <3>1. loops = {}
      BY <1>1, <2>2 DEF LoopsCounted
    <3> QED
      BY <2>2, <3>1, FS_EmptySet
  <2> QED
    BY <2>1, <2>2
<1>2. LoopsCounted => OneLoop
  BY <1>1 DEF OneLoop
<1> QED
  BY <1>2, LoopsCorrect, PTL

-----------------------------------------------------------------------------
(* What a step can do to the connections, the registry and the history.    *)

\* A connection comes up or back to life never, and only a leave unbinds it.
LEMMA ClientEffects ==
    ASSUME LabelsOK, Types, [Next]_vars, NEW c \in Clients
    PROVE  /\ connUp'[c] => connUp[c]
           /\ ended[c] => ended'[c]
           /\ sessionOf'[c] = Nil => sessionOf[c] = Nil \/ ended[c]
           /\ peerOf'[c] # peerOf[c] => \E token \in tokens : ResumeSession(c, token)
           /\ ended'[c] /\ ~ended[c] => CloseDone(c)
<1> USE DEF Types, TypeOK, clientVars
<1>1. ASSUME NEW d \in Clients, d # c, Request(d) \/ HandlerStep(d) \/ ConnectionLost(d)
      PROVE  /\ connUp'[c] = connUp[c] /\ ended'[c] = ended[c] /\ sessionOf'[c] = sessionOf[c]
             /\ peerOf'[c] = peerOf[c]
  BY <1>1, HandlerMoves
<1>2. ASSUME Answered(c)
      PROVE  UNCHANGED <<peerOf, connUp, ended>> /\ (sessionOf'[c] # Nil \/ UNCHANGED sessionOf)
  <2>1. ASSUME NEW sid \in Sessions, Bind(c, sid), pc[Handler(c)] = "call"
        PROVE  UNCHANGED <<peerOf, connUp, ended>> /\ (sessionOf'[c] # Nil \/ UNCHANGED sessionOf)
    BY <2>1, NilAssumption DEF Bind
  <2>2. ASSUME Unbound(c), pc[Handler(c)] = "call"
        PROVE  UNCHANGED <<peerOf, connUp, ended>> /\ (sessionOf'[c] # Nil \/ UNCHANGED sessionOf)
    BY <2>2 DEF Unbound
  <2> QED
    BY <1>2, <2>1, <2>2, Answers
<1>3. CASE CreateSession(c) \/ JoinSession(c) \/ \E sid \in Sessions : SendSignalMessage(c, sid)
  BY <1>3, NilAssumption DEF CreateSession, JoinSession, Call, SendSignalMessage
<1>4. ASSUME NEW token \in tokens, ResumeSession(c, token)
      PROVE  UNCHANGED <<connUp, ended>> /\ sessionOf'[c] # Nil
  BY <1>4, NilAssumption DEF ResumeSession
<1>5. CASE \/ Rejoined(c) \/ RejoinFails(c) \/ IssueToken(c)
           \/ GetStream(c) \/ SendOk(c) \/ SendError(c)
           \/ Unregister(c) \/ Detach(c) \/ LeaveFails(c)
  BY <1>5 DEF Rejoined, RejoinFails, IssueToken, GetStream, SendOk, SendError, Unregister, Detach,
              LeaveFails
<1>6. CASE ConnectionLost(c)
  BY <1>6 DEF ConnectionLost
<1>7. CASE CloseDone(c)
  BY <1>7 DEF CloseDone
<1>8. CASE LeaveOk(c)
  <2>1. ended[c]
    BY <1>8 DEF LeaveOk, Located, Ending
  <2> QED
    BY <1>8, <2>1 DEF LeaveOk
<1>9. ASSUME NEW th \in Threads, ResetCheck(th) \/ ResetTake(th) \/ EnsureStep(th)
      PROVE  UNCHANGED <<peerOf, sessionOf, connUp, ended>>
  BY <1>9 DEF ResetCheck, ResetTake, EnsureStep, Register, LockInit, Connect, ConnectFails,
              Publish
<1>10. ASSUME NEW s \in Streams,
              ReaderStep(s) \/ LoopStep(s) \/ StreamBreaks(s) \/ RecvBackpressured(s)
       PROVE  UNCHANGED <<peerOf, sessionOf, ended>> /\ (connUp'[c] => connUp[c])
  BY <1>10, StreamMoves
<1>11. CASE UNCHANGED vars
  BY <1>11 DEF vars
<1>12. CASE Request(c)
  BY <1>3, <1>4, <1>12 DEF Request
<1>13. CASE HandlerStep(c)
  BY <1>2, <1>5, <1>7, <1>8, <1>9, <1>13, ThreadKinds DEF HandlerStep
<1> QED
  BY <1>1, <1>6, <1>10, <1>11, <1>12, <1>13 DEF Next, AllGone

\* A connection that is over only goes on with LeaveSession.
LEMMA EndingMoves ==
    ASSUME LabelsOK, Types, [Next]_vars, NEW c \in Clients, ended[c]
    PROVE  \/ pc'[Handler(c)] = pc[Handler(c)] /\ sessionOf'[c] = sessionOf[c]
           \/ Unregister(c) \/ Detach(c) \/ LeaveOk(c) \/ LeaveFails(c)
<1>1. pc[Handler(c)] \in Ending /\ ~connUp[c]
  BY DEF Types, Located
<1>2. ASSUME NEW d \in Clients, d # c, Request(d) \/ HandlerStep(d) \/ ConnectionLost(d)
      PROVE  pc'[Handler(c)] = pc[Handler(c)] /\ sessionOf'[c] = sessionOf[c]
  BY <1>2, HandlerMoves DEF Types
<1>3. ~Request(c) /\ ~ConnectionLost(c)
  BY <1>1 DEF Request, CreateSession, JoinSession, Call, ResumeSession, SendSignalMessage,
              Receive, ConnectionLost
<1>4. /\ ~Answered(c) /\ ~Rejoined(c) /\ ~RejoinFails(c) /\ ~IssueToken(c)
      /\ ~GetStream(c) /\ ~SendOk(c) /\ ~SendError(c) /\ ~CloseDone(c)
      /\ ~ResetCheck(Handler(c)) /\ ~ResetTake(Handler(c))
  BY <1>1 DEF Ending, Answered, Created, Joined, CallRefused, AdmittedUnheard, Bind, Rejoined,
              RejoinFails, IssueToken, GetStream, SendOk, SendError, CloseDone, ResetCheck,
              ResetTake
<1>5. ~EnsureStep(Handler(c))
  BY <1>1 DEF Ending, EnsureStep, Register, LockInit, Connect, ConnectFails, Publish
<1>6. ASSUME NEW s \in Streams,
             ReaderStep(s) \/ LoopStep(s) \/ StreamBreaks(s) \/ RecvBackpressured(s)
      PROVE  pc'[Handler(c)] = pc[Handler(c)] /\ sessionOf'[c] = sessionOf[c]
  BY <1>6, StreamMoves DEF Types
<1>7. CASE UNCHANGED vars
  BY <1>7 DEF vars, clientVars, threadVars
<1> QED
  BY <1>2, <1>3, <1>4, <1>5, <1>6, <1>7 DEF Next, HandlerStep, AllGone

\* Only registerPeer registers a connection, and a registration is removed by
\* its own connection only.
LEMMA RegistryEffects ==
    ASSUME LabelsOK, Types, [Next]_vars, NEW p \in Clients
    PROVE  \/ registry'[p] = registry[p]
           \/ \E c \in Clients :
                  Unregister(c) /\ p = peerOf[c] /\ registry[p] = c /\ registry'[p] = Nil
           \/ \E th \in Handlers \cup Loops :
                  Register(th) /\ p = peerOf[ClientOf(th)] /\ registry'[p] = ClientOf(th)
<1> USE DEF Types, TypeOK, dirVars
<1>1. ASSUME NEW c \in Clients, Request(c) \/ ConnectionLost(c)
      PROVE  UNCHANGED registry
  BY <1>1 DEF Request, CreateSession, JoinSession, Call, ResumeSession, SendSignalMessage,
              ConnectionLost
<1>2. ASSUME NEW c \in Clients, \/ Answered(c) \/ Rejoined(c) \/ RejoinFails(c) \/ IssueToken(c)
                                \/ GetStream(c) \/ SendOk(c) \/ SendError(c)
                                \/ CloseDone(c) \/ Detach(c) \/ LeaveOk(c) \/ LeaveFails(c)
      PROVE  UNCHANGED registry
  BY <1>2 DEF Answered, Created, Joined, CallRefused, AdmittedUnheard, Bind, Rejoined,
              RejoinFails, IssueToken, GetStream, SendOk, SendError, CloseDone, Detach, LeaveOk,
              LeaveFails
<1>3. ASSUME NEW c \in Clients, Unregister(c)
      PROVE  \/ registry'[p] = registry[p]
             \/ p = peerOf[c] /\ registry[p] = c /\ registry'[p] = Nil
  BY <1>3 DEF Unregister
<1>4. ASSUME NEW th \in Threads, \/ ResetCheck(th) \/ ResetTake(th) \/ LockInit(th)
                                \/ ConnectFails(th) \/ Publish(th)
                                \/ \E s \in Streams : Connect(th, s)
      PROVE  UNCHANGED registry
  BY <1>4 DEF ResetCheck, ResetTake, LockInit, Connect, ConnectFails, Publish
<1>5. ASSUME NEW th \in Handlers \cup Loops, Register(th)
      PROVE  registry'[p] = registry[p] \/ (p = peerOf[ClientOf(th)] /\ registry'[p] = ClientOf(th))
  BY <1>5 DEF Register
<1>6. ASSUME NEW s \in Streams,
             \/ RecvError(s) \/ Schedule(s) \/ StartReconnect(s) \/ StreamBreaks(s)
             \/ LoopStops(s) \/ LoopTimer(s) \/ FinishReconnect(s) \/ RecvBackpressured(s)
      PROVE  UNCHANGED registry
  BY <1>6 DEF RecvError, Schedule, StartReconnect, StreamBreaks, LoopStops, LoopTimer,
              FinishReconnect, RecvBackpressured
<1>7. CASE UNCHANGED vars
  BY <1>7 DEF vars
<1>8. ASSUME NEW c \in Clients, HandlerStep(c)
      PROVE  UNCHANGED registry \/ Unregister(c) \/ Register(Handler(c))
  BY <1>2, <1>4, <1>8, ThreadKinds DEF HandlerStep, EnsureStep
<1>9. ASSUME NEW s \in Streams, ReaderStep(s) \/ LoopStep(s)
      PROVE  UNCHANGED registry \/ Register(Loop(s))
  BY <1>4, <1>6, <1>9, ThreadKinds DEF ReaderStep, LoopStep, EnsureStep
<1> QED
  BY <1>1, <1>3, <1>5, <1>6, <1>7, <1>8, <1>9, ThreadKinds DEF Next, AllGone

\* What has been noted of a connection stays noted, except that a registration
\* makes up for a displaced one, a new stream for a dropped loss, and a
\* successful resumption for one that was refused.
LEMMA HistoryEffects ==
    ASSUME LabelsOK, Types, [Next]_vars, NEW c \in Clients
    PROVE  /\ mishap[c] \ {"displaced", "dropped", "refused"} \subseteq mishap'[c]
           /\ "refused" \in mishap[c] \ mishap'[c] => Rejoined(c)
           /\ "dropped" \in mishap[c] \ mishap'[c] => ~lost'[c]
           /\ "displaced" \in mishap[c] \ mishap'[c] =>
                  \E th \in Handlers \cup Loops : Register(th) /\ ClientOf(th) = c
           /\ lost'[c] /\ ~lost[c] =>
                  \E th \in Handlers \cup Readers : ResetTake(th) /\ ClientOf(th) = c
<1> USE DEF Types, TypeOK, history
<1> DEFINE Noted == mishap[c] \subseteq mishap'[c] /\ lost'[c] = lost[c]
<1>1. ASSUME NEW d \in Clients, Request(d) \/ ConnectionLost(d)
      PROVE  Noted
  <2>1. CASE CreateSession(d) \/ JoinSession(d)
    BY <2>1 DEF CreateSession, JoinSession, Call
  <2>2. ASSUME NEW token \in tokens, ResumeSession(d, token)
        PROVE  Noted
    BY <2>2 DEF ResumeSession
  <2>3. ASSUME NEW sid \in Sessions, SendSignalMessage(d, sid)
        PROVE  Noted
    BY <2>3 DEF SendSignalMessage
  <2>4. CASE ConnectionLost(d)
    BY <2>4 DEF ConnectionLost
  <2> QED
    BY <1>1, <2>1, <2>2, <2>3, <2>4 DEF Request
<1>2. ASSUME NEW d \in Clients, Answered(d)
      PROVE  Noted
  <2>1. ASSUME NEW sid \in Sessions, Bind(d, sid), pc[Handler(d)] = "call"
        PROVE  Noted
    BY <2>1 DEF Bind, Note, NoteIf
  <2>2. ASSUME Unbound(d), pc[Handler(d)] = "call"
        PROVE  Noted
    BY <2>2 DEF Unbound
  <2> QED
    BY <1>2, <2>1, <2>2, Answers
<1>3. ASSUME NEW d \in Clients, \/ RejoinFails(d) \/ IssueToken(d)
                                \/ GetStream(d) \/ SendOk(d) \/ SendError(d)
                                \/ CloseDone(d) \/ Unregister(d) \/ Detach(d) \/ LeaveOk(d)
                                \/ LeaveFails(d)
      PROVE  Noted
  BY <1>3 DEF RejoinFails, IssueToken, GetStream, SendOk, SendError, CloseDone, Unregister,
              Detach, LeaveOk, LeaveFails, Note, NoteIf
<1>4. ASSUME NEW d \in Clients, Rejoined(d)
       PROVE  /\ mishap[c] \ {"refused"} \subseteq mishap'[c]
              /\ "refused" \in mishap[c] \ mishap'[c] => d = c
              /\ lost'[c] = lost[c]
  BY <1>4 DEF Rejoined
<1>5. ASSUME NEW th \in Threads, \/ ResetCheck(th) \/ LockInit(th) \/ ConnectFails(th)
                                \/ \E s \in Streams : Connect(th, s)
      PROVE  Noted
  BY <1>5 DEF ResetCheck, LockInit, Connect, ConnectFails
<1>6. ASSUME NEW th \in Handlers \cup Readers, ResetTake(th)
      PROVE  /\ UNCHANGED mishap
             /\ lost'[c] /\ ~lost[c] => ClientOf(th) = c
  BY <1>6 DEF ResetTake
<1>7. ASSUME NEW th \in Handlers \cup Loops, Register(th)
      PROVE  /\ UNCHANGED lost
             /\ mishap[c] \ {"displaced"} \subseteq mishap'[c]
             /\ "displaced" \in mishap[c] \ mishap'[c] => ClientOf(th) = c
  BY <1>7 DEF Register
<1>8. ASSUME NEW th \in Handlers \cup Loops, Publish(th)
      PROVE  /\ mishap[c] \ {"dropped"} \subseteq mishap'[c]
             /\ "dropped" \in mishap[c] \ mishap'[c] => ~lost'[c]
             /\ lost'[c] => lost[c]
  <2>1. CASE current[ClientOf(th)] # Nil
    BY <1>8, <2>1 DEF Publish
  <2>2. CASE current[ClientOf(th)] = Nil
    <3>1. /\ lost' = [lost EXCEPT ![ClientOf(th)] = FALSE]
          /\ mishap' = [mishap EXCEPT ![ClientOf(th)] = @ \ {"dropped"}]
      BY <1>8, <2>2 DEF Publish
    <3> QED
      BY <3>1
  <2> QED
    BY <2>1, <2>2
<1>9. ASSUME NEW s \in Streams,
             \/ RecvError(s) \/ Schedule(s) \/ StartReconnect(s) \/ StreamBreaks(s)
             \/ LoopStops(s) \/ LoopTimer(s) \/ FinishReconnect(s) \/ RecvBackpressured(s)
      PROVE  Noted
  BY <1>9 DEF RecvError, Schedule, StartReconnect, StreamBreaks, LoopStops, LoopTimer,
              FinishReconnect, RecvBackpressured, Note, NoteIf
<1>10. CASE UNCHANGED vars
  BY <1>10 DEF vars
<1> HIDE DEF Noted, Types, TypeOK
<1>11. ASSUME NEW d \in Clients, HandlerStep(d)
      PROVE  \/ Noted \/ Rejoined(d)
             \/ ResetTake(Handler(d)) \/ Register(Handler(d)) \/ Publish(Handler(d))
  BY <1>3, <1>5, <1>11, <1>2, ThreadKinds DEF HandlerStep, EnsureStep
<1>12. ASSUME NEW s \in Streams, ReaderStep(s) \/ LoopStep(s)
       PROVE  Noted \/ ResetTake(Reader(s)) \/ Register(Loop(s)) \/ Publish(Loop(s))
  BY <1>5, <1>9, <1>12, ThreadKinds DEF ReaderStep, LoopStep, EnsureStep
<1>13. \/ Noted \/ UNCHANGED vars
       \/ \E d \in Clients : Rejoined(d)
       \/ \E th \in Handlers \cup Readers : ResetTake(th)
       \/ \E th \in Handlers \cup Loops : Register(th) \/ Publish(th)
  BY <1>1, <1>9, <1>11, <1>12, ThreadKinds DEF Next, AllGone
<1> QED
  BY <1>6, <1>7, <1>8, <1>10, <1>13, <1>4 DEF Noted

\* A connection without a stream and without a thread that works on one.
Free(c) ==
    /\ current[c] = Nil
    /\ \A s \in Streams : owner[s] = c => pc[Reader(s)] = "dead" /\ pc[Loop(s)] = "dead"

\* A connection with a stream, or with a thread that works on one, has a
\* session until it has left.
BoundUntilGone ==
    \A c \in Clients : sessionOf[c] = Nil /\ pc[Handler(c)] # "gone" =>
        /\ Free(c)
        /\ \A p \in Clients : registry[p] # c

\* The same of a connection that is not over.
BoundWhileOpen ==
    \A c \in Clients : sessionOf[c] = Nil /\ ~ended[c] =>
        /\ Free(c)
        /\ \A p \in Clients : registry[p] # c

\* The stream of a connection that is up has its reader.
ReaderThere ==
    \A c \in Clients : current[c] # Nil /\ connUp[c] =>
        pc[Reader(current[c])] \in {"recv", "check", "take"}

LostHasNone == \A c \in Clients : lost[c] => current[c] = Nil

\* Where streams, readers and loops come from.
LEMMA Arrivals ==
    ASSUME LabelsOK, Types, Slotted, [Next]_vars
    PROVE  \/ \E th \in Handlers \cup Loops : Publish(th)
           \/ \E th \in Handlers \cup Loops, s \in Streams : Connect(th, s)
           \/ /\ UNCHANGED owner
              /\ \A c \in Clients : current'[c] \in {current[c], Nil}
              /\ \A s \in Streams :
                     /\ pc[Reader(s)] = "dead" => pc'[Reader(s)] = "dead"
                     /\ pc[Loop(s)] = "dead" =>
                            pc'[Loop(s)] = "dead" \/ pc[Reader(s)] # "dead"
<1>1. CASE Quiet
  BY <1>1, ThreadKinds DEF Quiet, Working
<1>2. ASSUME NEW th \in Handlers \cup Readers, Drops(th)
      PROVE  /\ UNCHANGED <<owner, current>>
             /\ \A s \in Streams :
                    /\ pc[Reader(s)] = "dead" => pc'[Reader(s)] = "dead"
                    /\ pc[Loop(s)] = "dead" => pc'[Loop(s)] = "dead" \/ pc[Reader(s)] # "dead"
  BY <1>2, ThreadKinds, ThreadNames DEF Drops, Working
<1>3. ASSUME NEW th \in Handlers \cup Readers, Takes(th)
      PROVE  /\ UNCHANGED owner
             /\ \A c \in Clients : current'[c] \in {current[c], Nil}
             /\ \A s \in Streams :
                    /\ pc[Reader(s)] = "dead" => pc'[Reader(s)] = "dead"
                    /\ pc[Loop(s)] = "dead" => pc'[Loop(s)] = "dead"
  <2>1. ClientOf(th) \in Clients
    BY <1>3, Served DEF Takes, Threads
  <2>2. \A c \in Clients : current'[c] \in {current[c], Nil}
    BY <1>3, <2>1, TakeEffect DEF Takes, Types
  <2> QED
    BY <1>3, <2>2, ThreadKinds DEF Takes
<1>4. ASSUME NEW c \in Clients, GetStream(c)
      PROVE  /\ UNCHANGED <<owner, current>>
             /\ \A s \in Streams : pc'[Reader(s)] = pc[Reader(s)] /\ pc'[Loop(s)] = pc[Loop(s)]
  BY <1>4, ThreadKinds, ThreadNames DEF GetStream, Goto, LabelsOK, streamVars, sfuVars
<1>5. ASSUME NEW th \in Handlers \cup Loops, ConnectFails(th) \/ LockInit(th)
      PROVE  /\ UNCHANGED <<owner, current>>
             /\ \A s \in Streams :
                    /\ pc'[Reader(s)] = pc[Reader(s)]
                    /\ pc[Loop(s)] = "dead" => pc'[Loop(s)] = "dead"
  <2>1. pc[th] # "dead" /\ (\A s : th # Reader(s)) /\ \E label : Goto(th, label)
    BY <1>5, ThreadNames DEF ConnectFails, LockInit, Return, Handlers, Loops
  <2> QED
    BY <1>5, <2>1, ThreadKinds DEF ConnectFails, LockInit, Goto, LabelsOK, sfuVars
<1>6. ASSUME NEW s \in Streams, StreamBreaks(s)
      PROVE  UNCHANGED <<owner, current, pc>>
  BY <1>6 DEF StreamBreaks, streamVars, threadVars
<1> QED
  BY <1>1, <1>2, <1>3, <1>4, <1>5, <1>6, StreamEffects DEF Quiet, Types, Slotted

\* A thread that opens a stream works for a connection that is bound, unless
\* it has ended.
LEMMA EnsuringBound ==
    ASSUME LabelsOK, Types, BoundWhileOpen, NEW th \in Handlers \cup Loops, pc[th] \in Ensuring
    PROVE  sessionOf[ClientOf(th)] # Nil \/ ended[ClientOf(th)]
<1>1. ASSUME NEW c \in Clients, th = Handler(c)
      PROVE  sessionOf[c] # Nil
  BY <1>1 DEF Types, Located, Ensuring
<1>2. ASSUME NEW s \in Streams, th = Loop(s)
      PROVE  sessionOf[owner[s]] # Nil \/ ended[owner[s]]
  BY <1>2 DEF BoundWhileOpen, Free, Types, Owned, Used, Ensuring
<1> QED
  BY <1>1, <1>2, ThreadClients DEF Handlers, Loops

\* It gets no stream while no thread opens one for it.
LEMMA FreeStays ==
    ASSUME LabelsOK, Types, Slotted, [Next]_vars, NEW c \in Clients, Free(c),
           \A th \in Handlers \cup Loops : pc[th] \in Ensuring => ClientOf(th) # c
    PROVE  Free(c)'
<1> USE DEF Free
<1>1. ASSUME NEW th \in Handlers \cup Loops, Publish(th)
      PROVE  Free(c)'
  <2>1. ClientOf(th) # c
    BY <1>1 DEF Publish, Ensuring
  <2>2. ASSUME NEW s \in Streams, owner[s] = c
        PROVE  /\ Reader(s) # Reader(hand[th]) /\ Reader(s) # th
               /\ Loop(s) # Reader(hand[th]) /\ Loop(s) # th
    <3>1. s # hand[th]
      BY <1>1, <2>1, <2>2, PublishEffect
    <3> QED
      BY <1>1, <2>2, <3>1, ThreadNames DEF Publish
  <2>3. /\ UNCHANGED owner /\ current'[c] = current[c]
        /\ \A o \in Threads : o # th /\ o # Reader(hand[th]) => pc'[o] = pc[o]
    BY <1>1, <2>1, PublishEffect
  <2> QED
    BY <2>2, <2>3, ThreadKinds
<1>2. ASSUME NEW th \in Handlers \cup Loops, NEW s \in Streams, Connect(th, s)
      PROVE  Free(c)'
  <2>1. ClientOf(th) # c
    BY <1>2 DEF Connect, Ensuring
  <2>2. \A t \in Streams : owner'[t] = c => owner[t] = c
    BY <1>2, <2>1 DEF Connect, Types, TypeOK
  <2>3. \A o \in Threads : pc[o] = "dead" => pc'[o] = "dead"
    BY <1>2 DEF Connect, Goto, LabelsOK
  <2> QED
    BY <1>2, <2>2, <2>3, ThreadKinds DEF Connect, streamVars
<1> QED
  BY <1>1, <1>2, Arrivals

\* A connection stays bound while it has a stream or works on one.
LEMMA BoundStep ==
    ASSUME LabelsOK, Types, Slotted, BoundUntilGone, [Next]_vars
    PROVE  BoundUntilGone'
<1> SUFFICES ASSUME NEW c \in Clients, sessionOf'[c] = Nil, pc'[Handler(c)] # "gone"
             PROVE  Free(c)' /\ \A p \in Clients : registry'[p] # c
  BY DEF BoundUntilGone, Free
<1>1. sessionOf[c] = Nil /\ pc[Handler(c)] # "gone"
  <2>1. CASE ended[c]
    <3>1. ~LeaveOk(c) /\ ~LeaveFails(c)
      BY ThreadKinds DEF LeaveOk, LeaveFails, Goto, LabelsOK
    <3>2. Unregister(c) \/ Detach(c) => pc[Handler(c)] # "gone" /\ UNCHANGED sessionOf
      BY DEF Unregister, Detach, clientVars
    <3> QED
      BY <2>1, <3>1, <3>2, EndingMoves
  <2>2. CASE ~ended[c]
    BY <2>2, ClientEffects DEF Types, Located, Ending
  <2> QED
    BY <2>1, <2>2
<1>2. Free(c) /\ \A p \in Clients : registry[p] # c
  BY <1>1 DEF BoundUntilGone
<1>3. \A th \in Handlers \cup Loops : pc[th] \in Ensuring => ClientOf(th) # c
  <2>1. pc[Handler(c)] \notin Ensuring
    BY <1>1 DEF Types, Located, Ensuring
  <2> QED
    BY <1>2, <2>1, ThreadClients DEF Free, Handlers, Loops, Ensuring
<1>4. \A p \in Clients : registry'[p] # c
  BY <1>2, <1>3, RegistryEffects, NilAssumption DEF Register, Ensuring
<1>5. Free(c)'
  BY <1>2, <1>3, FreeStays
<1> QED
  BY <1>4, <1>5

\* A connection that has lost its stream has none.
LEMMA LostStep ==
    ASSUME LabelsOK, Types, Slotted, LostHasNone, [Next]_vars
    PROVE  LostHasNone'
<1> SUFFICES ASSUME NEW c \in Clients, lost'[c]
             PROVE  current'[c] = Nil
  BY DEF LostHasNone
<1>1. CASE lost[c]
  <2>1. ASSUME NEW th \in Handlers \cup Loops, Publish(th)
        PROVE  current'[c] = Nil
    <3>1. lost' = [lost EXCEPT ![ClientOf(th)] = FALSE]
      BY <2>1, PublishEffect DEF Publish
    <3>2. ClientOf(th) # c
      BY <3>1 DEF Types, TypeOK
    <3> QED
      BY <1>1, <2>1, <3>2, PublishEffect DEF LostHasNone
  <2>2. ASSUME NEW th \in Handlers \cup Loops, NEW s \in Streams, Connect(th, s)
        PROVE  UNCHANGED current
    BY <2>2 DEF Connect, streamVars
  <2> QED
    BY <1>1, <2>1, <2>2, Arrivals DEF LostHasNone
<1>2. CASE ~lost[c]
  <2>1. PICK th \in Handlers \cup Readers : ResetTake(th) /\ ClientOf(th) = c
    BY <1>2, HistoryEffects
  <2> QED
    BY <2>1, TakeEffect DEF ResetTake, Types
<1> QED
  BY <1>1, <1>2

\* Who moves a reader or a loop: its own stream's step, or Publish.
LEMMA StreamThreads ==
    ASSUME LabelsOK, Types, [Next]_vars, NEW s \in Streams,
           ~\E th \in Handlers \cup Loops : Publish(th)
    PROVE  \/ pc'[Reader(s)] = pc[Reader(s)] /\ pc'[Loop(s)] = pc[Loop(s)]
           \/ ReaderStep(s) \/ RecvBackpressured(s)
           \/ LoopStep(s) /\ pc'[Reader(s)] = pc[Reader(s)]
<1>1. ASSUME NEW c \in Clients, Request(c) \/ HandlerStep(c) \/ ConnectionLost(c)
      PROVE  pc'[Reader(s)] = pc[Reader(s)] /\ pc'[Loop(s)] = pc[Loop(s)]
  BY <1>1, HandlerMoves, ThreadKinds DEF Types
<1>2. ASSUME NEW t \in Streams \ {s},
             ReaderStep(t) \/ LoopStep(t) \/ StreamBreaks(t) \/ RecvBackpressured(t)
      PROVE  pc'[Reader(s)] = pc[Reader(s)] /\ pc'[Loop(s)] = pc[Loop(s)]
  BY <1>2, StreamMoves, ThreadKinds DEF Types
<1>3. CASE StreamBreaks(s)
  BY <1>3 DEF StreamBreaks, threadVars
<1>4. CASE LoopStep(s)
  <2>1. PICK label : Goto(Loop(s), label)
    BY <1>4, ThreadKinds
       DEF LoopStep, EnsureStep, LoopStops, LoopTimer, FinishReconnect, Register, LockInit,
           Connect, ConnectFails, Return
  <2> QED
    BY <1>4, <2>1, ThreadKinds, ThreadNames DEF Goto, LabelsOK
<1>5. CASE UNCHANGED vars
  BY <1>5 DEF vars, threadVars
<1> QED
  BY <1>1, <1>2, <1>3, <1>4, <1>5 DEF Next, AllGone

\* The stream of a connection that is up keeps its reader.
LEMMA ReaderThereStep ==
    ASSUME LabelsOK, Types, Slotted, ReaderThere, [Next]_vars
    PROVE  ReaderThere'
<1> SUFFICES ASSUME NEW c \in Clients, current'[c] # Nil, connUp'[c]
             PROVE  pc'[Reader(current'[c])] \in {"recv", "check", "take"}
  BY DEF ReaderThere
<1>1. connUp[c]
  BY ClientEffects
<1>2. ASSUME NEW th \in Handlers \cup Loops, Publish(th)
      PROVE  pc'[Reader(current'[c])] \in {"recv", "check", "take"}
  <2> DEFINE p == hand[th]
  <2>1. p \in Streams /\ current'[c] = IF c = ClientOf(th) THEN p ELSE current[c]
    BY <1>2, PublishEffect
  <2>2. \A o \in Threads : pc'[o] = IF o = Reader(p) THEN "recv"
                                   ELSE IF o = th THEN After(th, TRUE) ELSE pc[o]
    BY <1>2, PublishEffect
  <2> HIDE DEF p
  <2>3. CASE ClientOf(th) = c
    <3>1. th # Reader(p)
      BY ThreadNames DEF Handlers, Loops
    <3> QED
      BY <2>3, <2>1, <2>2, <3>1, ThreadKinds
  <2>4. CASE ClientOf(th) # c
    <3>1. current'[c] = current[c] /\ current[c] \in Streams
      BY <2>4, <2>1 DEF Types, TypeOK
    <3>2. pc[Reader(current[c])] \in {"recv", "check", "take"}
      BY <1>1, <3>1 DEF ReaderThere
    <3>3. th # Reader(current[c])
      BY ThreadNames DEF Handlers, Loops
    <3> QED
      BY <2>2, <3>1, <3>2, <3>3, ThreadKinds
  <2> QED
    BY <2>3, <2>4
<1>3. ASSUME ~\E th \in Handlers \cup Loops : Publish(th)
      PROVE  pc'[Reader(current'[c])] \in {"recv", "check", "take"}
  <2>1. current'[c] = current[c] /\ current[c] \in Streams
    BY <1>3, Arrivals DEF Connect, streamVars, Types, TypeOK
  <2> DEFINE s == current[c]
  <2>2. pc[Reader(s)] \in {"recv", "check", "take"} /\ owner[s] = c
    BY <1>1, <2>1 DEF ReaderThere, Slotted, CurrentOK
  <2>3. CASE RecvError(s)
    BY <2>1, <2>3, ThreadKinds DEF RecvError, Goto, LabelsOK
  <2>4. CASE ResetCheck(Reader(s))
    <3>1. ClientOf(Reader(s)) = c /\ hand[Reader(s)] = s
      BY <2>1, <2>2, ThreadClients DEF Slotted, HandsOK
    <3> QED
      BY <2>1, <2>4, <3>1, ThreadKinds DEF ResetCheck, Goto, LabelsOK
  <2>5. CASE ResetTake(Reader(s))
    <3>1. current'[c] = Nil
      BY <2>1, <2>2, <2>5, ThreadClients, TakeEffect DEF ResetTake, Types
    <3> QED
      BY <3>1
  <2>6. CASE RecvBackpressured(s)
    BY <2>2, <2>6 DEF RecvBackpressured, Types, TypeOK
  <2>7. ~Schedule(s) /\ ~StartReconnect(s)
    BY <2>2 DEF Schedule, StartReconnect
  <2>8. CASE pc'[Reader(s)] = pc[Reader(s)]
    BY <2>1, <2>2, <2>8
  <2> QED
    BY <1>3, <2>1, <2>3, <2>4, <2>5, <2>6, <2>7, <2>8, StreamThreads DEF ReaderStep
<1> QED
  BY <1>2, <1>3

\* A lost stream stays covered.
LEMMA LossStep ==
    ASSUME LabelsOK, Types, Slotted, LoopsCounted, BoundWhileOpen, ReaderThere, LostHasNone,
           LossCovered, [Next]_vars
    PROVE  LossCovered'
<1> SUFFICES ASSUME NEW c \in Clients, lost'[c], connUp'[c], "dropped" \notin mishap'[c]
             PROVE  Recovering(c)'
  BY DEF LossCovered
<1> DEFINE Busy(s) ==
        \/ pc[Reader(s)] \in {"check", "take", "schedule", "start"}
        \/ pc[Reader(s)] = "recv" /\ link[s] # "live"
        \/ pc[Loop(s)] \in Ensuring \cup {"wait"}
<1>1. connUp[c] /\ ~ended[c] /\ "dropped" \notin mishap[c]
  BY ClientEffects, HistoryEffects DEF Types, Located
<1>2. CASE ~lost[c]
  <2>1. PICK th \in Handlers \cup Readers : ResetTake(th) /\ ClientOf(th) = c
    BY <1>2, HistoryEffects
  <2>2. /\ \A s \in Streams : link'[s] = IF s = current[c] THEN "cancelled" ELSE link[s]
        /\ UNCHANGED owner /\ th \in Threads
    BY <2>1, TakeEffect DEF ResetTake, Types, Threads
  <2>3. CASE th \in Readers
    <3>1. PICK s \in Streams : th = Reader(s)
      BY <2>3 DEF Readers
    <3>2. owner'[s] = c /\ pc'[Reader(s)] = "schedule"
      BY <2>1, <2>2, <2>3, <3>1, ThreadClients DEF ResetTake, AfterReset, Goto, LabelsOK
    <3> QED
      BY <3>2 DEF Recovering
  <2>4. CASE th \in Handlers
    <3>1. current[c] \in Streams
      <4>1. current[c] # Nil
        BY <1>2, <2>1 DEF ResetTake, Types, TypeOK
      <4> QED
        BY <4>1 DEF Types, TypeOK
    <3>2. pc[Reader(current[c])] \in {"recv", "check", "take"} /\ owner[current[c]] = c
      BY <1>1, <3>1, NilAssumption DEF ReaderThere, Slotted, CurrentOK
    <3>3. pc'[Reader(current[c])] = pc[Reader(current[c])]
      BY <2>1, <2>4, <3>1, ThreadKinds DEF ResetTake, AfterReset, Goto, LabelsOK
    <3> QED
      BY <2>2, <3>1, <3>2, <3>3 DEF Recovering
  <2> QED
    BY <2>3, <2>4
<1>3. CASE lost[c]
  <2>1. PICK s \in Streams : owner[s] = c /\ Busy(s)
    BY <1>1, <1>3 DEF LossCovered, Recovering
  <2>2. pc[Reader(s)] # "dead" \/ pc[Loop(s)] # "dead"
    BY <2>1 DEF Ensuring
  <2>3. sessionOf[c] # Nil /\ current[c] = Nil
    BY <1>1, <1>3, <2>1, <2>2 DEF BoundWhileOpen, Free, LostHasNone
  <2>4. owner'[s] = c
    BY <2>1, <2>2, LoopEffects
       DEF StartReconnect, FinishReconnect, Connect, Gone, sfuVars, Types, TypeOK
  <2>5. link[s] # "live" => link'[s] # "live"
    <3>1. ASSUME NEW th \in Handlers \cup Loops, NEW t \in Streams, Connect(th, t)
          PROVE  link'[s] = link[s]
      BY <2>2, <3>1 DEF Connect, Gone, Types, TypeOK
    <3>2. ASSUME NEW th \in Handlers \cup Readers, Takes(th)
          PROVE  link'[s] \in {link[s], "cancelled"}
      BY <3>2, Served, TakeEffect DEF Takes, Threads, Types
    <3>3. ASSUME NEW th \in Handlers \cup Loops, ConnectFails(th) \/ LockInit(th) \/ Publish(th)
          PROVE  UNCHANGED link
      BY <3>3, PublishEffect DEF ConnectFails, LockInit, sfuVars
    <3>4. ASSUME NEW t \in Streams, StreamBreaks(t)
          PROVE  link'[s] \in {link[s], "broken"}
      BY <3>4 DEF StreamBreaks, Types, TypeOK
    <3>5. ASSUME NEW d \in Clients, GetStream(d)
          PROVE  UNCHANGED link
      BY <3>5 DEF GetStream, sfuVars
    <3> QED
      BY <3>1, <3>2, <3>3, <3>4, <3>5, StreamEffects DEF Quiet, Drops, Types, Slotted
  <2> HIDE DEF Busy
  <2>6. SUFFICES Busy(s)' \/ \E t \in Streams : owner'[t] = c /\ Busy(t)'
    BY <2>4 DEF Recovering, Busy
  <2> USE DEF Busy
  <2>7. ASSUME NEW th \in Handlers \cup Loops, Publish(th)
        PROVE  Busy(s)'
    <3>1. ClientOf(th) # c
      <4>1. lost' = [lost EXCEPT ![ClientOf(th)] = FALSE]
        BY <2>7, PublishEffect DEF Publish
      <4> QED
        BY <4>1 DEF Types, TypeOK
    <3>2. /\ s # hand[th] /\ Loop(s) # th
          /\ \A o \in Threads : o # th /\ o # Reader(hand[th]) => pc'[o] = pc[o]
      BY <2>1, <2>7, <3>1, PublishEffect, ThreadClients
    <3>3. pc'[Reader(s)] = pc[Reader(s)] /\ pc'[Loop(s)] = pc[Loop(s)]
      BY <3>2, ThreadKinds, ThreadNames DEF Handlers, Loops
    <3> QED
      BY <2>1, <2>5, <3>3
  <2>8. CASE pc'[Reader(s)] = pc[Reader(s)] /\ pc'[Loop(s)] = pc[Loop(s)]
    BY <2>1, <2>5, <2>8
  <2>9. CASE RecvError(s) \/ ResetCheck(Reader(s)) \/ ResetTake(Reader(s))
    <3>1. Goto(Reader(s), "check") \/ Goto(Reader(s), "take") \/ Goto(Reader(s), "schedule")
      BY <2>9, ThreadKinds DEF RecvError, ResetCheck, ResetTake, AfterReset
    <3> QED
      BY <3>1, ThreadKinds DEF Goto, LabelsOK
  <2>10. CASE Schedule(s)
    BY <1>1, <2>1, <2>3, <2>10, ThreadKinds DEF Schedule, Goto, LabelsOK
  <2>11. CASE StartReconnect(s)
    <3>1. CASE reconnecting[c]
      <4>1. PICK t \in Streams : owner[t] = c /\ pc[Loop(t)] # "dead"
        BY <3>1 DEF LoopsCounted
      <4>2. Goto(Reader(s), "dead") /\ NoteIf(Finishing(c) /\ lost[c], c, "dropped")
        BY <2>1, <2>11, <3>1 DEF StartReconnect
      <4>3. ~Finishing(c)
        BY <1>3, <4>2 DEF NoteIf, Note, Types, TypeOK
      <4>4. pc[Loop(t)] \in Ensuring \cup {"wait"}
        BY <4>1, <4>3 DEF Finishing, LabelsOK, LoopLabels
      <4>5. pc'[Loop(t)] = pc[Loop(t)] /\ owner'[t] = c
        BY <2>11, <4>1, <4>2, ThreadKinds, ThreadNames DEF Goto, LabelsOK, StartReconnect, sfuVars
      <4> QED
        BY <4>4, <4>5
    <3>2. CASE ~reconnecting[c]
      BY <2>1, <2>11, <3>2, ThreadKinds DEF StartReconnect, LabelsOK
    <3> QED
      BY <3>1, <3>2
  <2>12. CASE RecvBackpressured(s)
    BY <2>1, <2>12 DEF RecvBackpressured, Types, TypeOK
  <2>13. CASE LoopStep(s) /\ pc'[Reader(s)] = pc[Reader(s)] /\ ~Publish(Loop(s))
    <3>1. CASE LoopTimer(s)
      BY <3>1, ThreadKinds DEF LoopTimer, Goto, LabelsOK, Ensuring
    <3>2. ~LoopStops(s)
      BY <1>1, <2>1, <2>3 DEF LoopStops
    <3>3. CASE FinishReconnect(s)
      BY <2>1, <2>5, <2>13, <3>3 DEF FinishReconnect, Ensuring
    <3>4. CASE EnsureStep(Loop(s))
      <4>1. \E label \in Ensuring \cup {"wait"} : Goto(Loop(s), label)
        BY <2>1, <2>3, <2>13, <3>4, AfterLabels, ThreadClients
           DEF EnsureStep, Register, LockInit, Connect, ConnectFails, Return, Ensuring
      <4> QED
        BY <4>1, ThreadKinds DEF Goto, LabelsOK
    <3> QED
      BY <2>13, <3>1, <3>2, <3>3, <3>4 DEF LoopStep
  <2> QED
    BY <2>7, <2>8, <2>9, <2>10, <2>11, <2>12, <2>13, StreamThreads, ThreadKinds DEF ReaderStep
<1> QED
  BY <1>2, <1>3

\* A connection that is not over has not left.
LEMMA BoundOpen ==
    ASSUME Types, BoundUntilGone
    PROVE  BoundWhileOpen
BY DEF Types, Located, Ending, BoundUntilGone, BoundWhileOpen, Free

\* What the recovery of a lost stream rests on holds in every reachable state.
LEMMA RecoveryCorrect ==
    Spec => [](BoundUntilGone /\ BoundWhileOpen /\ ReaderThere /\ LostHasNone /\ LossCovered)
<1>1. Init => BoundUntilGone /\ ReaderThere /\ LostHasNone /\ LossCovered
  BY ThreadKinds, NilAssumption DEF Init, BoundUntilGone, Free, ReaderThere, LostHasNone, LossCovered
<1> QED
  BY <1>1, BoundStep, BoundOpen, ReaderThereStep, LostStep, LossStep, LoopsCorrect, SlottedCorrect, PTL
     DEF Spec

\* A connection that has lost its stream is always being reconnected, unless
\* its reader met a loop that was about to finish.
THEOREM LossesCovered == Spec => []LossCovered
BY RecoveryCorrect, PTL

\* What a stream that is being opened has attached as.
AttachingMatches ==
    \A th \in Threads : LET c == ClientOf(th) IN
        pc[th] = "publish" /\ ~ended[c] /\ "rebound" \notin mishap[c] =>
            attachedAs[hand[th]] = Membership(c)

\* Reconnect loops that went on after Done was closed are noted.
LateNoted ==
    \A s \in Streams :
        pc[Loop(s)] \in Ensuring /\ ended[owner[s]] => "late" \in mishap[owner[s]]

\* A connection is registered under its peer id.
Registered ==
    \A c, p \in Clients :
        registry[p] = c /\ "rebound" \notin mishap[c] => p = peerOf[c]

GoneInv ==
    \A c \in Clients : "late" \notin mishap[c] =>
        /\ pc[Handler(c)] \in {"leave", "gone"} => current[c] = Nil
        /\ pc[Handler(c)] \in Ending \ {"unregister"} /\ "rebound" \notin mishap[c] =>
               \A p \in Clients : registry[p] # c

\* The connection and the handshake of a stream that somebody can name stay.
LEMMA OwnerEffects ==
    ASSUME LabelsOK, Types, Slotted, [Next]_vars
    PROVE  /\ \A s \in Streams : \/ owner'[s] = owner[s] /\ attachedAs'[s] = attachedAs[s]
                                \/ Gone(s)
           /\ \A th \in Threads : pc[th] # "dead" => ClientOf(th)' = ClientOf(th)
<1>1. \A s \in Streams : \/ owner'[s] = owner[s] /\ attachedAs'[s] = attachedAs[s]
                        \/ Gone(s)
  BY LoopEffects DEF StartReconnect, FinishReconnect, Connect, Types, TypeOK, sfuVars
<1>2. ASSUME NEW th \in Threads, pc[th] # "dead"
      PROVE  ClientOf(th)' = ClientOf(th)
  <2>1. CASE th \in Handlers
    BY <2>1 DEF ClientOf
  <2>2. ASSUME NEW s \in Streams, th = Reader(s) \/ th = Loop(s)
        PROVE  ClientOf(th)' = ClientOf(th)
    <3>1. owner'[s] = owner[s]
      BY <1>1, <1>2, <2>2 DEF Gone
    <3>2. th[2] = s /\ th \notin Handlers
      BY <2>2, ThreadKinds, ThreadClients
    <3> QED
      BY <3>1, <3>2 DEF ClientOf
  <2> QED
    BY <2>1, <2>2 DEF Threads, Readers, Loops
<1> QED
  BY <1>1, <1>2

\* A thread comes to publish by opening a stream, and to open one by looking
\* for one.
LEMMA PublishingEffects ==
    ASSUME LabelsOK, LabelsOK', Types, Slotted, [Next]_vars, NEW th \in Threads
    PROVE  /\ pc'[th] = "publish" =>
                  \/ pc[th] = "publish" /\ hand'[th] = hand[th]
                  \/ \E s \in Streams : Connect(th, s)
           /\ pc'[th] \in Ensuring =>
                  \/ pc[th] \in Ensuring
                  \/ th \in Handlers
                  \/ \E s \in Streams : th = Loop(s) /\ LoopTimer(s)
<1>1. ASSUME pc'[th] = "publish"
      PROVE  \/ pc[th] = "publish" /\ hand'[th] = hand[th]
             \/ \E s \in Streams : Connect(th, s)
  <2>1. CASE Quiet
    BY <1>1, <2>1 DEF Quiet, Holding, Working
  <2>2. ASSUME NEW o \in Handlers \cup Readers, Drops(o)
        PROVE  pc[th] = "publish" /\ hand'[th] = hand[th]
    BY <1>1, <2>2 DEF Drops
  <2>3. ASSUME NEW o \in Handlers \cup Readers, Takes(o)
        PROVE  pc[th] = "publish" /\ hand'[th] = hand[th]
    BY <1>1, <2>3 DEF Takes
  <2>4. ASSUME NEW c \in Clients, GetStream(c)
        PROVE  pc[th] = "publish" /\ hand'[th] = hand[th]
    BY <1>1, <2>4, ThreadKinds DEF GetStream, Goto, LabelsOK, Types, TypeOK
  <2>5. ASSUME NEW o \in Handlers \cup Loops,
               LockInit(o) /\ current[ClientOf(o)] = Nil
        PROVE  pc[th] = "publish" /\ hand'[th] = hand[th]
    BY <1>1, <2>5 DEF LockInit, Goto, LabelsOK, Threads
  <2>6. ASSUME NEW o \in Handlers \cup Loops, ConnectFails(o)
        PROVE  pc[th] = "publish" /\ hand'[th] = hand[th]
    <3>1. After(o, FALSE) # "publish"
      BY AfterLabels DEF Handlers, Loops
    <3> QED
      BY <1>1, <2>6, <3>1 DEF ConnectFails, Return, Goto, LabelsOK, Threads
  <2>7. ASSUME NEW o \in Handlers \cup Loops, NEW s \in Streams, Connect(o, s)
        PROVE  (pc[th] = "publish" /\ hand'[th] = hand[th]) \/ th = o
    BY <1>1, <2>7 DEF Connect, Goto, LabelsOK, Types, TypeOK, Threads
  <2>8. ASSUME NEW o \in Handlers \cup Loops, Publish(o)
        PROVE  pc[th] = "publish" /\ hand'[th] = hand[th]
    <3>1. /\ \A q \in Threads : pc'[q] = IF q = Reader(hand[o]) THEN "recv"
                                         ELSE IF q = o THEN After(o, TRUE) ELSE pc[q]
          /\ After(o, TRUE) \in {"finish", "token", "get"}
      BY <2>8, PublishEffect
    <3>2. \A q \in Threads : hand'[q] = IF q = Reader(hand[o]) THEN hand[o]
                                        ELSE IF q = o THEN Nil ELSE hand[q]
      BY <2>8, PublishEffect
    <3> QED
      BY <1>1, <3>1, <3>2
  <2>9. ASSUME NEW s \in Streams, StreamBreaks(s)
        PROVE  pc[th] = "publish" /\ hand'[th] = hand[th]
    BY <1>1, <2>9 DEF StreamBreaks, threadVars
  <2> QED
    BY <2>1, <2>2, <2>3, <2>4, <2>5, <2>6, <2>7, <2>8, <2>9, StreamEffects DEF Types, Slotted
<1>2. ASSUME NEW s \in Streams, th = Loop(s), pc'[th] \in Ensuring
      PROVE  pc[th] \in Ensuring \/ LoopTimer(s)
  <2>1. ASSUME NEW o \in Handlers \cup Loops, Publish(o)
        PROVE  pc[th] \in Ensuring
    <3>1. o # th => pc'[th] = pc[th]
      <4>1. \A q \in Threads : pc'[q] = IF q = Reader(hand[o]) THEN "recv"
                                        ELSE IF q = o THEN After(o, TRUE) ELSE pc[q]
        BY <2>1, PublishEffect
      <4>2. th # Reader(hand[o])
        BY <1>2, ThreadNames
      <4> QED
        BY <4>1, <4>2
    <3>2. pc[o] \in Ensuring
      BY <2>1 DEF Publish, Ensuring
    <3> QED
      BY <1>2, <3>1, <3>2
  <2>2. ASSUME LoopStep(s)
        PROVE  pc[th] \in Ensuring \/ LoopTimer(s)
    <3>1. ~LoopStops(s) /\ ~FinishReconnect(s)
      BY <1>2, ThreadKinds DEF LoopStops, FinishReconnect, Goto, LabelsOK, Ensuring
    <3> QED
      BY <1>2, <2>2, <3>1, EnsureLabels, ThreadKinds DEF LoopStep
  <2>3. ASSUME ReaderStep(s) \/ RecvBackpressured(s)
        PROVE  pc[th] \in Ensuring
    <3>1. CASE StartReconnect(s)
      BY <1>2, <3>1, ThreadKinds, ThreadNames DEF StartReconnect, Goto, LabelsOK, Ensuring
    <3>2. CASE ~StartReconnect(s)
      <4>1. PICK label : Goto(Reader(s), label)
        BY <2>3, <3>2, ThreadKinds
           DEF ReaderStep, RecvError, ResetCheck, ResetTake, AfterReset, Schedule,
               RecvBackpressured
      <4> QED
        BY <1>2, <4>1, ThreadKinds, ThreadNames DEF Goto, LabelsOK
    <3> QED
      BY <3>1, <3>2
  <2> QED
    BY <1>2, <2>1, <2>2, <2>3, StreamThreads
<1>3. th \in Readers => pc'[th] \notin Ensuring
  BY DEF LabelsOK, Readers, ReaderLabels, Ensuring
<1> QED
  BY <1>1, <1>2, <1>3 DEF Threads, Loops

\* A connection that is not bound twice changes its peer id and its session
\* only when it has none.
LEMMA MembershipEffects ==
    ASSUME LabelsOK, Types, [Next]_vars, NEW c \in Clients, ~ended'[c],
           "rebound" \notin mishap'[c]
    PROVE  \/ peerOf'[c] = peerOf[c] /\ sessionOf'[c] = sessionOf[c]
           \/ sessionOf[c] = Nil /\ pc[Handler(c)] \in {"idle", "call"}
<1> USE DEF Types, TypeOK, clientVars
<1> DEFINE Same == peerOf'[c] = peerOf[c] /\ sessionOf'[c] = sessionOf[c]
           Fresh == sessionOf[c] = Nil /\ pc[Handler(c)] \in {"idle", "call"}
<1>1. ASSUME NEW d \in Clients, d # c, Request(d) \/ HandlerStep(d) \/ ConnectionLost(d)
      PROVE  Same
  BY <1>1, HandlerMoves
<1>2. ASSUME Answered(c)
      PROVE  Same \/ Fresh
  <2>1. ASSUME NEW sid \in Sessions, Bind(c, sid), pc[Handler(c)] = "call"
        PROVE  Same \/ Fresh
    BY <2>1 DEF Bind, Note, NoteIf
  <2>2. ASSUME Unbound(c), pc[Handler(c)] = "call"
        PROVE  Same \/ Fresh
    BY <2>2 DEF Unbound
  <2> QED
    BY <1>2, <2>1, <2>2, Answers
<1>3. CASE CreateSession(c) \/ JoinSession(c) \/ \E sid \in Sessions : SendSignalMessage(c, sid)
  BY <1>3 DEF CreateSession, JoinSession, Call, SendSignalMessage, Receive
<1>4. ASSUME NEW token \in tokens, ResumeSession(c, token)
      PROVE  Fresh
  BY <1>4 DEF ResumeSession, Receive
<1>5. CASE \/ Rejoined(c) \/ RejoinFails(c) \/ IssueToken(c)
           \/ GetStream(c) \/ SendOk(c) \/ SendError(c)
           \/ CloseDone(c) \/ Unregister(c) \/ Detach(c) \/ LeaveFails(c)
  BY <1>5 DEF Rejoined, RejoinFails, IssueToken, GetStream, SendOk, SendError, CloseDone,
              Unregister, Detach, LeaveFails
<1>6. CASE ConnectionLost(c)
  BY <1>6 DEF ConnectionLost
<1>7. ~LeaveOk(c)
  BY DEF LeaveOk, Located, Ending
<1>8. ASSUME NEW th \in Threads, ResetCheck(th) \/ ResetTake(th) \/ EnsureStep(th)
      PROVE  Same
  BY <1>8 DEF ResetCheck, ResetTake, EnsureStep, Register, LockInit, Connect, ConnectFails,
              Publish
<1>9. ASSUME NEW s \in Streams,
              ReaderStep(s) \/ LoopStep(s) \/ StreamBreaks(s) \/ RecvBackpressured(s)
      PROVE  Same
  BY <1>9, StreamMoves
<1>10. CASE UNCHANGED vars
  BY <1>10 DEF vars
<1> HIDE DEF Types, TypeOK, Same, Fresh
<1>11. CASE Request(c)
  BY <1>3, <1>4, <1>11 DEF Request, Same, Fresh
<1>12. CASE HandlerStep(c)
  BY <1>2, <1>5, <1>7, <1>8, <1>12, ThreadKinds DEF HandlerStep, Same, Fresh
<1>13. Same \/ Fresh
  BY <1>1, <1>6, <1>9, <1>10, <1>11, <1>12 DEF Next, AllGone, Same, Fresh
<1> QED
  BY <1>13 DEF Same, Fresh

\* A stream attaches as the peer of its connection, in its session.
LEMMA AttachStep ==
    ASSUME LabelsOK, LabelsOK', Types, Slotted, BoundWhileOpen, AttachingMatches, AttachMatches,
           [Next]_vars
    PROVE  AttachingMatches' /\ AttachMatches'
<1>1. ASSUME NEW th \in Threads, pc'[th] = "publish"
      PROVE  (LET c == ClientOf(th) IN
                ~ended[c] /\ "rebound" \notin mishap[c] => attachedAs[hand[th]] = Membership(c))'
  <2> DEFINE c == ClientOf(th)
  <2>1. th \in Handlers \cup Loops /\ pc[th] \in {"connect", "publish"}
    <3>1. pc[th] \in {"connect", "publish"}
      BY <1>1, PublishingEffects DEF Connect
    <3> QED
      BY <3>1 DEF LabelsOK, ReaderLabels, Threads, Readers
  <2>2. ClientOf(th)' = c /\ c \in Clients
    BY <2>1, Served, OwnerEffects
  <2> SUFFICES ASSUME ~ended'[c], "rebound" \notin mishap'[c]
               PROVE  attachedAs'[hand'[th]] = <<sessionOf'[c], peerOf'[c]>>
    BY <2>2 DEF Membership
  <2> HIDE DEF c
  <2>3. ~ended[c] /\ "rebound" \notin mishap[c]
    BY <2>2, ClientEffects, HistoryEffects
  <2>4. sessionOf[c] # Nil
    BY <2>1, <2>3, EnsuringBound DEF Ensuring, c
  <2>5. peerOf'[c] = peerOf[c] /\ sessionOf'[c] = sessionOf[c]
    BY <2>2, <2>4, MembershipEffects
  <2>6. CASE pc[th] = "publish" /\ hand'[th] = hand[th]
    <3>1. hand[th] \in Streams /\ attachedAs[hand[th]] = <<sessionOf[c], peerOf[c]>>
      BY <2>3, <2>6, Publishers DEF AttachingMatches, Membership, Slotted, Types, c
    <3>2. attachedAs'[hand[th]] = attachedAs[hand[th]]
      BY <3>1, OwnerEffects DEF Gone
    <3> QED
      BY <2>5, <2>6, <3>1, <3>2
  <2>7. ASSUME NEW s \in Streams, Connect(th, s)
        PROVE  attachedAs'[hand'[th]] = <<sessionOf'[c], peerOf'[c]>>
    BY <2>5, <2>7 DEF Connect, Types, TypeOK, c
  <2> QED
    BY <1>1, <2>6, <2>7, PublishingEffects
<1>2. AttachingMatches'
  BY <1>1 DEF AttachingMatches
<1>3. ASSUME NEW c \in Clients, current'[c] # Nil, ~ended'[c], "rebound" \notin mishap'[c]
      PROVE  attachedAs'[current'[c]] = <<sessionOf'[c], peerOf'[c]>>
  <2>1. ~ended[c] /\ "rebound" \notin mishap[c]
    BY <1>3, ClientEffects, HistoryEffects
  <2>2. CASE current'[c] = current[c]
    <3>1. sessionOf[c] # Nil /\ attachedAs[current[c]] = <<sessionOf[c], peerOf[c]>>
      BY <1>3, <2>1, <2>2 DEF BoundWhileOpen, Free, AttachMatches
    <3>2. peerOf'[c] = peerOf[c] /\ sessionOf'[c] = sessionOf[c]
      BY <1>3, <3>1, MembershipEffects
    <3>3. current[c] \in Streams /\ attachedAs'[current[c]] = attachedAs[current[c]]
      BY <1>3, <2>2, OwnerEffects DEF Gone, Types, TypeOK
    <3> QED
      BY <2>2, <3>1, <3>2, <3>3
  <2>3. ASSUME NEW th \in Handlers \cup Loops, Publish(th), ClientOf(th) = c
        PROVE  attachedAs'[current'[c]] = <<sessionOf'[c], peerOf'[c]>>
    <3>1. current'[c] = hand[th] /\ th \in Threads
      BY <2>3, PublishEffect
    <3>2. UNCHANGED <<sessionOf, peerOf, attachedAs>> /\ pc[th] = "publish"
      BY <2>3 DEF Publish, clientVars
    <3> QED
      BY <2>1, <2>3, <3>1, <3>2 DEF AttachingMatches, Membership
  <2>4. ASSUME NEW th \in Handlers \cup Loops, Publish(th), ClientOf(th) # c
        PROVE  current'[c] = current[c]
    BY <2>4, PublishEffect
  <2>5. ASSUME NEW th \in Handlers \cup Loops, NEW s \in Streams, Connect(th, s)
        PROVE  current'[c] = current[c]
    BY <2>5 DEF Connect, streamVars
  <2> QED
    BY <1>3, <2>2, <2>3, <2>4, <2>5, Arrivals
<1>4. AttachMatches'
  BY <1>3 DEF AttachMatches
<1> QED
  BY <1>2, <1>4

\* A connection that is bound once talks to the SFU as the peer, and in the
\* session, it is bound to.
THEOREM AttachedRight == Spec => []AttachMatches
<1>1. Init => AttachingMatches /\ AttachMatches
  BY DEF Init, AttachingMatches, AttachMatches
<1>2. LabelsOK /\ LabelsOK' /\ Types /\ Slotted /\ BoundWhileOpen /\ AttachingMatches
      /\ AttachMatches /\ [Next]_vars => AttachingMatches' /\ AttachMatches'
  BY AttachStep
<1> QED
  BY <1>1, <1>2, RecoveryCorrect, SlottedCorrect, PTL DEF Spec

\* A reconnect loop that works for a connection that is over is noted.
LEMMA LateStep ==
    ASSUME LabelsOK, LabelsOK', Types, Slotted, LateNoted, [Next]_vars
    PROVE  LateNoted'
<1> SUFFICES ASSUME NEW s \in Streams, pc'[Loop(s)] \in Ensuring, ended'[owner'[s]]
             PROVE  "late" \in mishap'[owner'[s]]
  BY DEF LateNoted
<1> DEFINE c == owner[s]
<1>1. CASE pc[Loop(s)] \in Ensuring
  <2>1. owner'[s] = c /\ c \in Clients
    BY <1>1, OwnerEffects DEF Gone, Ensuring, Types, Owned, Used
  <2>2. CASE ended[c]
    BY <1>1, <2>1, <2>2, HistoryEffects DEF LateNoted
  <2>3. CASE ~ended[c]
    <3>1. CloseDone(c)
      BY <2>1, <2>3, ClientEffects
    <3> QED
      BY <1>1, <2>1, <3>1 DEF CloseDone, Note, NoteIf, Types, TypeOK
  <2> QED
    BY <2>2, <2>3
<1>2. CASE LoopTimer(s)
  BY <1>2 DEF LoopTimer, Note, NoteIf, Types, TypeOK, Owned, Used, clientVars, sfuVars
<1> QED
  BY <1>1, <1>2, PublishingEffects, ThreadKinds, ThreadNames

\* A connection that is bound once is registered under its peer id only.
LEMMA RegisteredStep ==
    ASSUME LabelsOK, Types, Slotted, BoundWhileOpen, Registered, [Next]_vars
    PROVE  Registered'
<1> SUFFICES ASSUME NEW c \in Clients, NEW p \in Clients, registry'[p] = c,
                    "rebound" \notin mishap'[c]
             PROVE  p = peerOf'[c]
  BY DEF Registered
<1>1. "rebound" \notin mishap[c]
  BY HistoryEffects
<1>2. CASE registry[p] = c
  <2>1. p = peerOf[c]
    BY <1>1, <1>2 DEF Registered
  <2>2. ASSUME NEW token \in tokens, ResumeSession(c, token)
        PROVE  FALSE
    <3>1. sessionOf[c] = Nil /\ ~ended[c]
      BY <2>2 DEF ResumeSession, Receive, Types, TypeOK, Located, Ending
    <3> QED
      BY <1>2, <3>1 DEF BoundWhileOpen, Free
  <2> QED
    BY <2>1, <2>2, ClientEffects
<1>3. ASSUME NEW th \in Handlers \cup Loops, Register(th), p = peerOf[ClientOf(th)], ClientOf(th) = c
      PROVE  p = peerOf'[c]
  BY <1>3 DEF Register, clientVars
<1> QED
  BY <1>2, <1>3, RegistryEffects, NilAssumption

\* A connection that has left has no stream and no registration.
LEMMA GoneStep ==
    ASSUME LabelsOK, LabelsOK', Types, Types', Slotted, LateNoted, Registered, GoneInv, [Next]_vars
    PROVE  GoneInv'
<1> SUFFICES ASSUME NEW c \in Clients, "late" \notin mishap'[c]
             PROVE  /\ pc'[Handler(c)] \in {"leave", "gone"} => current'[c] = Nil
                    /\ pc'[Handler(c)] \in Ending \ {"unregister"} /\ "rebound" \notin mishap'[c] =>
                           \A p \in Clients : registry'[p] # c
  BY DEF GoneInv
<1>1. "late" \notin mishap[c] /\ ("rebound" \notin mishap'[c] => "rebound" \notin mishap[c])
  BY HistoryEffects
<1>2. ASSUME ended[c], NEW th \in Handlers \cup Loops, ClientOf(th) = c
      PROVE  pc[th] \notin Ensuring
  <2>1. CASE th = Handler(c)
    BY <1>2, <2>1 DEF Types, Located, Ending, Ensuring
  <2>2. ASSUME NEW s \in Streams, th = Loop(s)
        PROVE  pc[th] \notin Ensuring
    BY <1>1, <1>2, <2>2, ThreadClients DEF LateNoted
  <2> QED
    BY <1>2, <2>1, <2>2, ThreadClients DEF Handlers, Loops
<1>3. ASSUME pc'[Handler(c)] \in Ending \ {"unregister"}
      PROVE  ended[c] /\ pc[Handler(c)] \in Ending
  <2>1. pc'[Handler(c)] \in Ending /\ ended'[c]
    BY <1>3 DEF Types, Located
  <2>2. ~CloseDone(c)
    BY <1>3, ThreadKinds DEF CloseDone, Goto, LabelsOK
  <2>3. ended[c]
    BY <2>1, <2>2, ClientEffects
  <2> QED
    BY <2>3 DEF Types, Located
<1>4. ASSUME pc'[Handler(c)] \in {"leave", "gone"}
      PROVE  current'[c] = Nil
  <2>1. ended[c] /\ pc[Handler(c)] \in Ending
    BY <1>3, <1>4 DEF Ending
  <2>2. CASE pc[Handler(c)] \in {"leave", "gone"}
    <3>1. current[c] = Nil
      BY <1>1, <2>2 DEF GoneInv
    <3>2. ASSUME NEW th \in Handlers \cup Loops, Publish(th)
          PROVE  current'[c] = Nil
      <4>1. ClientOf(th) # c
        BY <1>2, <2>1, <3>2 DEF Publish, Ensuring
      <4> QED
        BY <3>1, <3>2, <4>1, PublishEffect
    <3>3. ASSUME NEW th \in Handlers \cup Loops, NEW s \in Streams, Connect(th, s)
          PROVE  UNCHANGED current
      BY <3>3 DEF Connect, streamVars
    <3> QED
      BY <3>1, <3>2, <3>3, Arrivals
  <2>3. CASE pc[Handler(c)] \notin {"leave", "gone"}
    <3>1. Detach(c)
      <4>1. ~Unregister(c)
        BY <1>4, ThreadKinds DEF Unregister, Goto, LabelsOK
      <4>2. ~LeaveOk(c) /\ ~LeaveFails(c)
        BY <2>3 DEF LeaveOk, LeaveFails
      <4> QED
        BY <1>4, <2>1, <2>3, <4>1, <4>2, EndingMoves
    <3> QED
      BY <3>1, TakeEffect DEF Detach, Types
  <2> QED
    BY <2>2, <2>3
<1>5. ASSUME pc'[Handler(c)] \in Ending \ {"unregister"}, "rebound" \notin mishap'[c],
             NEW p \in Clients
      PROVE  registry'[p] # c
  <2>1. ended[c] /\ pc[Handler(c)] \in Ending
    BY <1>3, <1>5
  <2>2. ~\E th \in Handlers \cup Loops : Register(th) /\ ClientOf(th) = c
    BY <1>2, <2>1 DEF Register, Ensuring
  <2>3. registry'[p] = c => registry[p] = c
    BY <2>2, RegistryEffects, NilAssumption
  <2>4. CASE pc[Handler(c)] # "unregister"
    BY <1>1, <1>5, <2>1, <2>3, <2>4 DEF GoneInv
  <2>5. CASE pc[Handler(c)] = "unregister"
    <3>1. Unregister(c)
      BY <1>5, <2>1, <2>5, EndingMoves DEF Detach, LeaveOk, LeaveFails
    <3>2. registry[p] = c => p = peerOf[c]
      BY <1>1, <1>5 DEF Registered
    <3>3. registry'[p] # c
      BY <2>3, <3>1, <3>2, NilAssumption DEF Unregister, Types, TypeOK
    <3> QED
      BY <3>3
  <2> QED
    BY <2>4, <2>5
<1> QED
  BY <1>4, <1>5

\* What the end of a connection rests on holds in every reachable state.
LEMMA GoneCorrect == Spec => [](LateNoted /\ Registered /\ GoneInv)
<1>1. Init => LateNoted /\ Registered /\ GoneInv
  BY ThreadKinds, NilAssumption
     DEF Init, LateNoted, Registered, GoneInv, Ensuring, Ending
<1>2. LabelsOK /\ LabelsOK' /\ Types /\ Types' /\ Slotted /\ LateNoted /\ Registered /\ GoneInv
      /\ [Next]_vars => GoneInv'
  BY GoneStep
<1>3. LabelsOK /\ LabelsOK' /\ Types /\ Slotted /\ LateNoted /\ [Next]_vars => LateNoted'
  BY LateStep
<1>4. LabelsOK /\ Types /\ Slotted /\ BoundWhileOpen /\ Registered /\ [Next]_vars => Registered'
  BY RegisteredStep
<1> QED
  BY <1>1, <1>2, <1>3, <1>4, RecoveryCorrect, SlottedCorrect, PTL DEF Spec

\* LeaveSession leaves no registration and no stream of the connection behind,
\* unless a reconnect loop was already past its look at Done.
THEOREM GoneLeaves == Spec => []GoneLeavesNothing
<1>1. GoneInv => GoneLeavesNothing
  BY DEF GoneInv, GoneLeavesNothing, Ending
<1> QED
  BY <1>1, GoneCorrect, PTL

-----------------------------------------------------------------------------
(* A connection that has resumed a peer.                                   *)

\* A thread works for the connection behind its look at the registry.
Behind(c) ==
    \/ pc[Handler(c)] \in Ensuring \ {"register"}
    \/ \E s \in Streams : owner[s] = c /\ pc[Loop(s)] \in Ensuring \ {"register"}

\* A connection that nobody has taken the peer id from is registered from
\* registerPeer on.
HeirInv ==
    \A p \in Clients : LET c == heir[p] IN
        /\ peerOf[c] = p /\ ~ended[c]
        /\ mishap[c] \cap {"rebound", "displaced"} = {}
        /\ current[c] # Nil \/ Behind(c)
        => registry[p] = c

\* A connection that asks to be let in as a peer works on no stream.
RejoiningIdle ==
    \A c \in Clients : pc[Handler(c)] = "rejoin" /\ "rebound" \notin mishap[c] => Free(c)

\* A connection that has taken over a peer has its session too.
ResumedBound ==
    \A c \in Clients : peerOf[c] # c => sessionOf[c] # Nil \/ ended[c]

\* A connection that holds the peer id of one that is about to leave the
\* session is noted.
KickNoted ==
    \A c, d \in Clients :
        pc[Handler(d)] \in {"detachAndLeave", "leave"} /\ c # d /\ peerOf[c] = peerOf[d]
            => "kicked" \in mishap[c]

\* A thread gets behind registerPeer only through it.
LEMMA BehindStep ==
    ASSUME LabelsOK, LabelsOK', Types, Slotted, [Next]_vars, NEW c \in Clients, Behind(c)',
           ~\E th \in Handlers \cup Loops : Register(th) /\ ClientOf(th) = c
    PROVE  Behind(c)
<1>1. ASSUME pc'[Handler(c)] \in Ensuring \ {"register"}
      PROVE  pc[Handler(c)] \in Ensuring \ {"register"}
  <2>1. CASE pc'[Handler(c)] = pc[Handler(c)]
    BY <1>1, <2>1
  <2>2. ASSUME NEW d \in Clients, Request(d) \/ HandlerStep(d) \/ ConnectionLost(d),
               pc'[Handler(c)] # pc[Handler(c)]
        PROVE  d = c
    BY <2>2, HandlerMoves DEF Types
  <2>3. ~Request(c) \/ pc'[Handler(c)] = pc[Handler(c)]
    <3>1. Request(c) => \E label \in {"call", "register", "rejoin"} : Goto(Handler(c), label)
      BY DEF Request, CreateSession, JoinSession, Call, ResumeSession, SendSignalMessage
    <3> QED
      BY <1>1, <3>1, ThreadKinds DEF Goto, LabelsOK, Ensuring
  <2>4. ASSUME \/ Answered(c) \/ Rejoined(c) \/ RejoinFails(c) \/ IssueToken(c)
               \/ GetStream(c) \/ SendOk(c) \/ SendError(c)
               \/ CloseDone(c) \/ Unregister(c) \/ Detach(c) \/ LeaveOk(c) \/ LeaveFails(c)
        PROVE  FALSE
    <3>1. PICK label \in HandlerLabels \ (Ensuring \ {"register"}) : Goto(Handler(c), label)
      BY <2>4 DEF Answered, Created, Joined, CallRefused, AdmittedUnheard, Bind, Rejoined,
                  RejoinFails, IssueToken, GetStream, SendOk, SendError, CloseDone, Unregister,
                  Detach, LeaveOk, LeaveFails, HandlerLabels, Ensuring
    <3> QED
      BY <1>1, <3>1, ThreadKinds DEF Goto, LabelsOK
  <2>5. ASSUME ResetCheck(Handler(c)) \/ ResetTake(Handler(c))
        PROVE  FALSE
    <3>1. PICK label \in {"take", "register", "idle"} : Goto(Handler(c), label)
      BY <2>5, ThreadKinds DEF ResetCheck, ResetTake, AfterReset
    <3> QED
      BY <1>1, <3>1, ThreadKinds DEF Goto, LabelsOK, Ensuring
  <2>6. ASSUME EnsureStep(Handler(c))
        PROVE  pc[Handler(c)] \in Ensuring \ {"register"}
    <3>1. ~Register(Handler(c))
      BY ThreadKinds, ThreadClients
    <3> QED
      BY <2>6, <3>1 DEF EnsureStep, LockInit, Connect, ConnectFails, Publish, Ensuring
  <2>7. ASSUME NEW s \in Streams,
               ReaderStep(s) \/ LoopStep(s) \/ StreamBreaks(s) \/ RecvBackpressured(s)
        PROVE  pc'[Handler(c)] = pc[Handler(c)]
    BY <2>7, StreamMoves DEF Types
  <2>8. CASE UNCHANGED vars
    BY <1>1, <2>8 DEF vars, threadVars
  <2>9. ASSUME HandlerStep(c)
        PROVE  pc[Handler(c)] \in Ensuring \ {"register"}
    BY <2>4, <2>5, <2>6, <2>9 DEF HandlerStep
  <2>10. ConnectionLost(c) => pc'[Handler(c)] = pc[Handler(c)]
    BY DEF ConnectionLost, threadVars
  <2> QED
    BY <2>1, <2>2, <2>3, <2>7, <2>8, <2>9, <2>10 DEF Next, AllGone
<1>2. ASSUME NEW s \in Streams, owner'[s] = c, pc'[Loop(s)] \in Ensuring \ {"register"}
      PROVE  owner[s] = c /\ pc[Loop(s)] \in Ensuring \ {"register"}
  <2>1. ~LoopTimer(s)
    BY <1>2, ThreadKinds DEF LoopTimer, Goto, LabelsOK
  <2>2. pc[Loop(s)] \in Ensuring
    BY <1>2, <2>1, PublishingEffects, ThreadKinds, ThreadNames
  <2>3. owner[s] = c
    BY <1>2, <2>2, OwnerEffects DEF Gone, Ensuring
  <2>4. ~Register(Loop(s))
    BY <2>3, ThreadKinds, ThreadClients
  <2>5. pc[Loop(s)] # pc'[Loop(s)] => LoopStep(s) \/ \E th \in Handlers \cup Loops : Publish(th)
    <3>1. ASSUME ReaderStep(s) \/ RecvBackpressured(s)
          PROVE  pc'[Loop(s)] = pc[Loop(s)]
      <4>1. CASE StartReconnect(s)
        BY <1>2, <4>1, ThreadKinds, ThreadNames DEF StartReconnect, Goto, LabelsOK, Ensuring
      <4>2. CASE ~StartReconnect(s)
        <5>1. PICK label : Goto(Reader(s), label)
          BY <3>1, <4>2, ThreadKinds
             DEF ReaderStep, RecvError, ResetCheck, ResetTake, AfterReset, Schedule,
                 RecvBackpressured
        <5> QED
          BY <5>1, ThreadKinds, ThreadNames DEF Goto, LabelsOK
      <4> QED
        BY <4>1, <4>2
    <3> QED
      BY <3>1, StreamThreads
  <2>6. ASSUME NEW th \in Handlers \cup Loops, Publish(th), pc[Loop(s)] = "register"
        PROVE  FALSE
    <3>1. \A o \in Threads : pc'[o] = IF o = Reader(hand[th]) THEN "recv"
                                      ELSE IF o = th THEN After(th, TRUE) ELSE pc[o]
      BY <2>6, PublishEffect
    <3>2. Loop(s) # Reader(hand[th]) /\ Loop(s) # th
      BY <2>6, ThreadNames DEF Publish
    <3> QED
      BY <1>2, <2>6, <3>1, <3>2, ThreadKinds
  <2>7. ASSUME LoopStep(s), pc[Loop(s)] = "register"
        PROVE  FALSE
    BY <2>4, <2>7 DEF LoopStep, LoopStops, LoopTimer, FinishReconnect, EnsureStep, LockInit,
                      Connect, ConnectFails, Publish
  <2> QED
    BY <1>2, <2>2, <2>3, <2>5, <2>6, <2>7
<1> QED
  BY <1>1, <1>2 DEF Behind

\* Who changes what connections are bound to and what the SFU knows of them.
LEMMA BindingEffects ==
    ASSUME LabelsOK, Types, [Next]_vars
    PROVE  \/ UNCHANGED <<peerOf, sessionOf, members, unseen, split, tokens, heir>>
           \/ \E c \in Clients : \/ Request(c) \/ Answered(c) \/ Rejoined(c)
                                 \/ RejoinFails(c) \/ IssueToken(c)
                                 \/ LeaveOk(c) \/ LeaveFails(c)
<1> USE DEF clientVars, rooming, dirVars, history
<1> DEFINE Same == UNCHANGED <<peerOf, sessionOf, members, unseen, split, tokens, heir>>
<1>1. ASSUME NEW c \in Clients, \/ GetStream(c) \/ SendOk(c) \/ SendError(c)
                                \/ CloseDone(c) \/ Unregister(c) \/ Detach(c) \/ ConnectionLost(c)
      PROVE  Same
  BY <1>1 DEF GetStream, SendOk, SendError, CloseDone, Unregister, Detach, ConnectionLost
<1>2. ASSUME NEW th \in Threads, ResetCheck(th) \/ ResetTake(th) \/ EnsureStep(th)
      PROVE  Same
  BY <1>2 DEF ResetCheck, ResetTake, EnsureStep, Register, LockInit, Connect, ConnectFails,
              Publish
<1>3. ASSUME NEW s \in Streams,
             ReaderStep(s) \/ LoopStep(s) \/ StreamBreaks(s) \/ RecvBackpressured(s)
      PROVE  Same
  BY <1>3, StreamMoves DEF Types
<1>4. ASSUME UNCHANGED vars
      PROVE  Same
  BY <1>4 DEF vars
<1> HIDE DEF Same, clientVars, rooming, dirVars, history
<1>5. ASSUME NEW c \in Clients, HandlerStep(c)
      PROVE  \/ Same \/ Answered(c) \/ Rejoined(c) \/ RejoinFails(c) \/ IssueToken(c)
             \/ LeaveOk(c) \/ LeaveFails(c)
  BY <1>1, <1>2, <1>5, ThreadKinds DEF HandlerStep
<1>6. \/ Same
      \/ \E c \in Clients : \/ Request(c) \/ Answered(c) \/ Rejoined(c)
                            \/ RejoinFails(c) \/ IssueToken(c)
                            \/ LeaveOk(c) \/ LeaveFails(c)
  <2>1. ASSUME NEW c \in Clients, Request(c) \/ HandlerStep(c) \/ ConnectionLost(c)
        PROVE  Same \/ Request(c) \/ Answered(c) \/ Rejoined(c) \/ RejoinFails(c) \/ IssueToken(c)
               \/ LeaveOk(c) \/ LeaveFails(c)
    BY <1>1, <1>5, <2>1
  <2> QED
    BY <1>3, <1>4, <2>1 DEF Next, AllGone
<1> QED
  BY <1>6 DEF Same

\* Only the answer to a resumption makes a connection the heir of a peer.
LEMMA HeirEffects ==
    ASSUME LabelsOK, Types, [Next]_vars, NEW p \in Clients, heir'[p] # heir[p]
    PROVE  \E c \in Clients : Rejoined(c) /\ peerOf[c] = p /\ heir'[p] = c
<1>1. PICK c \in Clients : \/ Request(c) \/ Answered(c) \/ Rejoined(c)
                           \/ RejoinFails(c) \/ IssueToken(c)
                           \/ LeaveOk(c) \/ LeaveFails(c)
  BY BindingEffects
<1>2. Rejoined(c)
  BY <1>1 DEF Request, CreateSession, JoinSession, Call, SendSignalMessage, ResumeSession,
              Answered, Created, Joined, CallRefused, AdmittedUnheard, Bind, RejoinFails,
              IssueToken, LeaveOk, LeaveFails, history
<1> QED
  BY <1>2 DEF Rejoined, Types, TypeOK

\* A handler comes to wait for the answer to a resumption by asking for it.
LEMMA RejoinComes ==
    ASSUME LabelsOK, Types, [Next]_vars, NEW c \in Clients, pc[Handler(c)] # "rejoin",
           pc'[Handler(c)] = "rejoin"
    PROVE  \E token \in tokens : ResumeSession(c, token)
<1>1. ASSUME NEW d \in Clients, d # c, Request(d) \/ HandlerStep(d) \/ ConnectionLost(d)
      PROVE  FALSE
  BY <1>1, HandlerMoves DEF Types
<1>2. ASSUME \/ CreateSession(c) \/ JoinSession(c) \/ \E sid \in Sessions : SendSignalMessage(c, sid)
             \/ ConnectionLost(c)
      PROVE  FALSE
  BY <1>2, ThreadKinds
     DEF CreateSession, JoinSession, Call, SendSignalMessage, ConnectionLost, threadVars, Goto,
         LabelsOK
<1>3. ~HandlerStep(c)
  <2>1. ASSUME \/ Answered(c) \/ Rejoined(c) \/ RejoinFails(c) \/ IssueToken(c)
               \/ GetStream(c) \/ SendOk(c) \/ SendError(c)
               \/ CloseDone(c) \/ Unregister(c) \/ Detach(c) \/ LeaveOk(c) \/ LeaveFails(c)
        PROVE  FALSE
    <3>1. PICK label \in HandlerLabels \ {"rejoin"} : Goto(Handler(c), label)
      BY <2>1 DEF Answered, Created, Joined, CallRefused, AdmittedUnheard, Bind, Rejoined,
                  RejoinFails, IssueToken, GetStream, SendOk, SendError, CloseDone, Unregister,
                  Detach, LeaveOk, LeaveFails, HandlerLabels, Ensuring
    <3> QED
      BY <3>1, ThreadKinds DEF Goto, LabelsOK
  <2>2. ASSUME ResetCheck(Handler(c)) \/ ResetTake(Handler(c))
        PROVE  FALSE
    <3>1. PICK label \in {"take", "register", "idle"} : Goto(Handler(c), label)
      BY <2>2, ThreadKinds DEF ResetCheck, ResetTake, AfterReset
    <3> QED
      BY <3>1, ThreadKinds DEF Goto, LabelsOK
  <2>3. ~EnsureStep(Handler(c))
    BY EnsureLabels, AfterLabels, ThreadKinds DEF Ensuring
  <2> QED
    BY <2>1, <2>2, <2>3 DEF HandlerStep
<1>4. ASSUME NEW s \in Streams,
             ReaderStep(s) \/ LoopStep(s) \/ StreamBreaks(s) \/ RecvBackpressured(s)
      PROVE  FALSE
  BY <1>4, StreamMoves DEF Types
<1>5. ~UNCHANGED vars
  BY DEF vars, threadVars
<1> QED
  BY <1>1, <1>2, <1>3, <1>4, <1>5 DEF Next, Request, AllGone

\* A handler leaves "rejoin" with the answer of the SFU.
LEMMA RejoinMoves ==
    ASSUME LabelsOK, Types, [Next]_vars, NEW c \in Clients, pc[Handler(c)] = "rejoin",
           pc'[Handler(c)] # "rejoin"
    PROVE  Rejoined(c) \/ RejoinFails(c)
<1>1. ASSUME NEW d \in Clients, d # c, Request(d) \/ HandlerStep(d) \/ ConnectionLost(d)
      PROVE  FALSE
  BY <1>1, HandlerMoves DEF Types
<1>2. ~Request(c) /\ ~ConnectionLost(c)
  BY DEF Request, CreateSession, JoinSession, Call, ResumeSession, SendSignalMessage,
         Receive, ConnectionLost, threadVars
<1>3. /\ ~Answered(c) /\ ~IssueToken(c) /\ ~GetStream(c) /\ ~SendOk(c) /\ ~SendError(c)
      /\ ~CloseDone(c) /\ ~Unregister(c) /\ ~Detach(c) /\ ~LeaveOk(c) /\ ~LeaveFails(c)
      /\ ~ResetCheck(Handler(c)) /\ ~ResetTake(Handler(c)) /\ ~EnsureStep(Handler(c))
  BY DEF Answered, Created, Joined, CallRefused, AdmittedUnheard, IssueToken, GetStream, SendOk,
         SendError, CloseDone, Unregister, Detach, LeaveOk, LeaveFails, ResetCheck, ResetTake,
         EnsureStep, Register, LockInit, Connect, ConnectFails, Publish
<1>4. ASSUME NEW s \in Streams,
             ReaderStep(s) \/ LoopStep(s) \/ StreamBreaks(s) \/ RecvBackpressured(s)
      PROVE  FALSE
  BY <1>4, StreamMoves DEF Types
<1>5. ~UNCHANGED vars
  BY DEF vars, threadVars
<1> QED
  BY <1>1, <1>2, <1>3, <1>4, <1>5 DEF Next, HandlerStep, AllGone

\* It gets no stream and no thread while it waits for the answer.
LEMMA RejoiningStep ==
    ASSUME LabelsOK, Types, Slotted, BoundWhileOpen, RejoiningIdle, [Next]_vars
    PROVE  RejoiningIdle'
<1> SUFFICES ASSUME NEW c \in Clients, pc'[Handler(c)] = "rejoin", "rebound" \notin mishap'[c]
             PROVE  Free(c)'
  BY DEF RejoiningIdle
<1>1. CASE pc[Handler(c)] # "rejoin"
  <2>1. PICK token \in tokens : ResumeSession(c, token)
    BY <1>1, RejoinComes
  <2>2. Free(c)
    BY <2>1 DEF ResumeSession, Receive, BoundWhileOpen, Free, Types, TypeOK, Located, Ending
  <2>3. UNCHANGED <<current, owner>> /\ Goto(Handler(c), "rejoin")
    BY <2>1 DEF ResumeSession, streamVars, sfuVars
  <2> QED
    BY <2>2, <2>3, ThreadKinds, ThreadNames DEF Free, Goto, LabelsOK
<1>2. CASE pc[Handler(c)] = "rejoin"
  <2>1. Free(c)
    BY <1>2, HistoryEffects DEF RejoiningIdle
  <2>2. \A th \in Handlers \cup Loops : pc[th] \in Ensuring => ClientOf(th) # c
    BY <1>2, <2>1, ThreadClients DEF Free, Handlers, Loops, Ensuring
  <2> QED
    BY <2>1, <2>2, FreeStays
<1> QED
  BY <1>1, <1>2

\* The last connection to have been let in as a peer keeps its registration.
LEMMA HeirStep ==
    ASSUME LabelsOK, LabelsOK', Types, Slotted, BoundWhileOpen, RejoiningIdle, HeirInv,
           [Next]_vars
    PROVE  HeirInv'
<1> SUFFICES ASSUME NEW p \in Clients, peerOf'[heir'[p]] = p, ~ended'[heir'[p]],
                    mishap'[heir'[p]] \cap {"rebound", "displaced"} = {},
                    current'[heir'[p]] # Nil \/ Behind(heir[p])'
             PROVE  registry'[p] = heir'[p]
  BY DEF HeirInv
<1>1. CASE heir'[p] # heir[p]
  <2>1. PICK c \in Clients : Rejoined(c) /\ heir'[p] = c
    BY <1>1, HeirEffects
  <2>2. "rebound" \notin mishap[c]
    BY <2>1, HistoryEffects
  <2>3. pc[Handler(c)] = "rejoin" /\ UNCHANGED <<current, owner>>
    BY <2>1 DEF Rejoined, streamVars, sfuVars
  <2>4. /\ pc'[Handler(c)] = "register"
        /\ \A s \in Streams : pc'[Loop(s)] = pc[Loop(s)]
    BY <2>1, ThreadKinds, ThreadNames DEF Rejoined, Goto, LabelsOK
  <2>5. /\ current'[c] = Nil
        /\ \A s \in Streams : owner'[s] = c => pc'[Loop(s)] = "dead"
    BY <2>2, <2>3, <2>4 DEF RejoiningIdle, Free
  <2> QED
    BY <2>1, <2>4, <2>5 DEF Behind, Ensuring
<1>2. CASE heir'[p] = heir[p]
  <2>1. PICK c \in Clients : c = heir[p]
    BY DEF Types, TypeOK
  <2>2. /\ peerOf'[c] = p /\ ~ended'[c]
        /\ "rebound" \notin mishap'[c] /\ "displaced" \notin mishap'[c]
        /\ current'[c] # Nil \/ Behind(c)'
    BY <1>2, <2>1 DEF Behind
  <2>3. ~ended[c] /\ "rebound" \notin mishap[c]
    BY <2>2, ClientEffects, HistoryEffects
  <2>4. ASSUME NEW th \in Handlers \cup Loops, Register(th), ClientOf(th) = c
        PROVE  registry'[p] = c
    BY <2>2, <2>4 DEF Register, clientVars, Types, TypeOK
  <2>5. ASSUME ~\E th \in Handlers \cup Loops : Register(th) /\ ClientOf(th) = c
        PROVE  registry'[p] = c
    <3>1. "displaced" \notin mishap[c]
      BY <2>2, <2>5, HistoryEffects
    <3>2. Behind(c)' => Behind(c)
      BY <2>5, BehindStep
    <3>3. current'[c] # Nil => current[c] # Nil \/ Behind(c)
      <4>1. ASSUME NEW th \in Handlers \cup Loops, Publish(th), ClientOf(th) = c
            PROVE  Behind(c)
        BY <4>1, ThreadClients DEF Publish, Ensuring, Handlers, Loops, Behind
      <4>2. ASSUME NEW th \in Handlers \cup Loops, Publish(th), ClientOf(th) # c
            PROVE  current'[c] = current[c]
        BY <4>2, PublishEffect
      <4>3. ASSUME NEW th \in Handlers \cup Loops, NEW s \in Streams, Connect(th, s)
            PROVE  current'[c] = current[c]
        BY <4>3 DEF Connect, streamVars
      <4> QED
        BY <4>1, <4>2, <4>3, Arrivals
    <3>4. sessionOf[c] # Nil
      BY <2>2, <2>3, <3>2, <3>3 DEF Behind, BoundWhileOpen, Free, Types, Located, Ensuring
    <3>5. peerOf[c] = p
      BY <2>2, <3>4, MembershipEffects
    <3>6. registry[p] = c
      BY <2>1, <2>2, <2>3, <3>1, <3>2, <3>3, <3>5 DEF HeirInv
    <3>7. ~Unregister(c)
      BY <2>3 DEF Unregister, Types, Located, Ending
    <3>8. ASSUME NEW th \in Handlers \cup Loops, Register(th), p = peerOf[ClientOf(th)]
          PROVE  FALSE
      BY <2>1, <2>2, <2>5, <3>8 DEF Register, Types, TypeOK
    <3> QED
      BY <3>6, <3>7, <3>8, RegistryEffects, NilAssumption
  <2> QED
    BY <1>2, <2>1, <2>4, <2>5
<1> QED
  BY <1>1, <1>2

\* A connection that was let in as a peer and has a stream gets the messages of
\* the peer, unless another one has sent something or reconnected as the peer
\* since.  How the others end, lose their streams or are refused does not count.
THEOREM HeirsReachable == Spec => []HeirReachable
<1>1. Init => RejoiningIdle /\ HeirInv
  BY ThreadKinds, NilAssumption DEF Init, RejoiningIdle, HeirInv, Behind, Ensuring
<1>2. HeirInv => HeirReachable
  BY DEF HeirInv, HeirReachable
<1>3. LabelsOK /\ LabelsOK' /\ Types /\ Slotted /\ BoundWhileOpen /\ RejoiningIdle /\ HeirInv
      /\ [Next]_vars => HeirInv'
  BY HeirStep
<1>4. LabelsOK /\ Types /\ Slotted /\ BoundWhileOpen /\ RejoiningIdle /\ [Next]_vars
      => RejoiningIdle'
  BY RejoiningStep
<1> QED
  BY <1>1, <1>2, <1>3, <1>4, RecoveryCorrect, SlottedCorrect, PTL DEF Spec

\* A connection that takes over a peer takes over its session.
LEMMA ResumedStep ==
    ASSUME LabelsOK, Types, ResumedBound, [Next]_vars
    PROVE  ResumedBound'
<1> SUFFICES ASSUME NEW c \in Clients, sessionOf'[c] = Nil, ~ended'[c]
             PROVE  peerOf'[c] = c
  BY DEF ResumedBound
<1>1. sessionOf[c] = Nil /\ ~ended[c]
  BY ClientEffects
<1>2. peerOf[c] = c
  BY <1>1 DEF ResumedBound
<1>3. ASSUME NEW token \in tokens, ResumeSession(c, token)
      PROVE  FALSE
  BY <1>3, NilAssumption DEF ResumeSession, Types, TypeOK
<1> QED
  BY <1>2, <1>3, ClientEffects

\* Only the calls of LeaveSession take a peer out of a session.
LEMMA ExpelEffects ==
    ASSUME LabelsOK, Types, [Next]_vars, NEW m \in members, m \notin members'
    PROVE  \E d \in Clients : (LeaveOk(d) \/ LeaveFails(d)) /\ m = Membership(d)
<1>1. PICK c \in Clients : \/ Request(c) \/ Answered(c) \/ Rejoined(c)
                           \/ RejoinFails(c) \/ IssueToken(c)
                           \/ LeaveOk(c) \/ LeaveFails(c)
  BY BindingEffects
<1>2. ~Request(c) /\ ~Answered(c) /\ ~Rejoined(c) /\ ~RejoinFails(c) /\ ~IssueToken(c)
  BY DEF Request, CreateSession, JoinSession, Call, ResumeSession, SendSignalMessage, Answered,
         Created, Joined, CallRefused, AdmittedUnheard, Bind, Admit, Rejoined, RejoinFails,
         IssueToken, dirVars, rooming
<1> QED
  BY <1>1, <1>2 DEF LeaveOk, LeaveFails, Expel

\* A connection that is leaving the session of a peer keeps its identity.
LEMMA LeaverKeeps ==
    ASSUME LabelsOK, Types, [Next]_vars, NEW d \in Clients, ended[d]
    PROVE  peerOf'[d] = peerOf[d]
<1>1. \A token \in tokens : ~ResumeSession(d, token)
  BY DEF ResumeSession, Receive, Types, Located
<1> QED
  BY <1>1, ClientEffects

\* A connection with the peer id of one that is leaving is noted.
LEMMA KickStep ==
    ASSUME LabelsOK, Types, Types', KickNoted, [Next]_vars
    PROVE  KickNoted'
<1> SUFFICES ASSUME NEW c \in Clients, NEW d \in Clients, c # d, peerOf'[c] = peerOf'[d],
                    pc'[Handler(d)] \in {"detachAndLeave", "leave"}
             PROVE  "kicked" \in mishap'[c]
  BY DEF KickNoted
<1>1. ended[d]
  <2>1. ended'[d]
    BY DEF Types, Located, Ending
  <2>2. ~CloseDone(d)
    BY ThreadKinds DEF CloseDone, Goto, LabelsOK
  <2> QED
    BY <2>1, <2>2, ClientEffects
<1>2. peerOf'[d] = peerOf[d]
  BY <1>1, LeaverKeeps
<1>3. CASE pc[Handler(d)] \in {"detachAndLeave", "leave"}
  <2>1. CASE peerOf[c] = peerOf[d]
    BY <1>3, <2>1, HistoryEffects DEF KickNoted
  <2>2. ASSUME NEW token \in tokens, ResumeSession(c, token)
        PROVE  "kicked" \in mishap'[c]
    <3>1. token[3] = peerOf[d]
      BY <1>2, <2>2 DEF ResumeSession, Types, TypeOK
    <3> QED
      BY <1>3, <2>2, <3>1 DEF ResumeSession, Types, TypeOK
  <2> QED
    BY <1>2, <2>1, <2>2, ClientEffects
<1>4. CASE pc[Handler(d)] \notin {"detachAndLeave", "leave"}
  <2>1. Unregister(d)
    BY <1>1, <1>4, EndingMoves DEF Detach, LeaveOk, LeaveFails, Goto, LabelsOK
  <2>2. registry[peerOf[d]] = d /\ peerOf[c] = peerOf[d]
    BY <1>2, <2>1, ThreadKinds DEF Unregister, Goto, LabelsOK, clientVars
  <2> QED
    BY <2>1, <2>2 DEF Unregister
<1> QED
  BY <1>3, <1>4

\* A resumed connection stays in its session.
LEMMA HeirMemberStep ==
    ASSUME LabelsOK, Types, Types', ResumedBound, KickNoted, HeirStaysMember, [Next]_vars
    PROVE  HeirStaysMember'
<1> SUFFICES ASSUME NEW p \in Clients, heir'[p] # p, peerOf'[heir'[p]] = p,
                    pc'[Handler(heir'[p])] # "rejoin", ~ended'[heir'[p]],
                    mishap'[heir'[p]] \cap {"kicked", "refused"} = {}
             PROVE  <<sessionOf'[heir'[p]], peerOf'[heir'[p]]>> \in members'
  BY DEF HeirStaysMember, Membership
<1>1. PICK c \in Clients : c = heir'[p]
  BY DEF Types, TypeOK
<1>2. /\ c # p /\ peerOf'[c] = p /\ pc'[Handler(c)] # "rejoin" /\ ~ended'[c]
      /\ "kicked" \notin mishap'[c] /\ "refused" \notin mishap'[c]
  BY <1>1
<1>3. SUFFICES <<sessionOf'[c], p>> \in members'
  BY <1>1
<1>4. CASE Rejoined(c)
  BY <1>2, <1>4 DEF Rejoined, Admit, Membership, clientVars
<1>5. SUFFICES ASSUME ~Rejoined(c)
               PROVE  <<sessionOf'[c], p>> \in members'
  BY <1>4
<1>6. \A token \in tokens : ~ResumeSession(c, token)
  BY <1>2, ThreadKinds DEF ResumeSession, Goto, LabelsOK
<1>7. /\ peerOf[c] = p /\ ~ended[c]
      /\ "kicked" \notin mishap[c] /\ "refused" \notin mishap[c]
  BY <1>2, <1>5, <1>6, ClientEffects, HistoryEffects
<1>8. heir[p] = c
  BY <1>1, <1>5, HeirEffects
<1>9. sessionOf[c] # Nil
  BY <1>2, <1>7 DEF ResumedBound
<1>10. CASE Answered(c) /\ sessionOf'[c] # sessionOf[c]
  BY <1>7, <1>10 DEF Answered, Created, Joined, CallRefused, AdmittedUnheard, Bind, Admit,
                     clientVars, Types, TypeOK
<1>11. CASE sessionOf'[c] = sessionOf[c]
  <2>1. ~RejoinFails(c)
    BY <1>2 DEF RejoinFails, Note, Types, TypeOK
  <2>2. pc[Handler(c)] # "rejoin"
    BY <1>2, <1>5, <2>1, RejoinMoves
  <2>3. <<sessionOf[c], p>> \in members
    BY <1>2, <1>7, <1>8, <2>2 DEF HeirStaysMember, Membership
  <2>4. ASSUME NEW d \in Clients, LeaveOk(d) \/ LeaveFails(d), Membership(d) = <<sessionOf[c], p>>
        PROVE  FALSE
    <3>1. pc[Handler(d)] = "leave" /\ peerOf[d] = p
      BY <2>4 DEF LeaveOk, LeaveFails, Membership
    <3>2. d # c
      BY <1>7, <3>1 DEF Types, Located, Ending
    <3> QED
      BY <1>7, <3>1, <3>2 DEF KickNoted
  <2> QED
    BY <1>11, <2>3, <2>4, ExpelEffects
<1>12. sessionOf'[c] # sessionOf[c] => Answered(c)
  <2> SUFFICES ASSUME sessionOf'[c] # sessionOf[c]
               PROVE  Answered(c)
    OBVIOUS
  <2>1. PICK d \in Clients :
            \/ Request(d) \/ Answered(d) \/ Rejoined(d) \/ RejoinFails(d) \/ IssueToken(d)
            \/ LeaveOk(d) \/ LeaveFails(d)
    BY BindingEffects
  <2>2. d = c
    BY <2>1, HandlerMoves DEF HandlerStep, Types
  <2>3. ~LeaveOk(c)
    BY <1>7 DEF LeaveOk, Types, Located, Ending
  <2>4. \A sid \in Sessions : ~SendSignalMessage(c, sid)
    BY <1>9 DEF SendSignalMessage, Types, TypeOK
  <2> QED
    BY <1>5, <1>6, <2>1, <2>2, <2>3, <2>4
       DEF Request, CreateSession, JoinSession, Call, RejoinFails, IssueToken, LeaveFails, clientVars
<1> QED
  BY <1>10, <1>11, <1>12

\* A connection that was let in as a peer stays in its session however the
\* others end, unless one of them was leaving it with the same peer id, or
\* unless it has tried to resume the peer once more and was refused.
THEOREM HeirsStay == Spec => []HeirStaysMember
<1>1. Init => ResumedBound /\ KickNoted /\ HeirStaysMember
  BY ThreadKinds DEF Init, ResumedBound, KickNoted, HeirStaysMember
<1>2. LabelsOK /\ Types /\ ResumedBound /\ [Next]_vars => ResumedBound'
  BY ResumedStep
<1>3. LabelsOK /\ Types /\ Types' /\ KickNoted /\ [Next]_vars => KickNoted'
  BY KickStep
<1>4. LabelsOK /\ Types /\ Types' /\ ResumedBound /\ KickNoted /\ HeirStaysMember /\ [Next]_vars
      => HeirStaysMember'
  BY HeirMemberStep
<1> QED
  BY <1>1, <1>2, <1>3, <1>4, SlottedCorrect, PTL DEF Spec

-----------------------------------------------------------------------------
(* Who keeps a peer in a session.                                          *)

\* The memberships the service knows of.
Known == members \ unseen

\* What there is to say in which session a peer is.
Claims ==
    {<<t[2], t[3]>> : t \in tokens} \cup Known
    \cup {Membership(c) : c \in {d \in Clients : sessionOf[d] # Nil}}

\* Nothing names two sessions of one peer, unless a connection has bound it to
\* two.
OneSessionEach ==
    \A x, y \in Claims : x[2] = y[2] /\ x[2] \notin split => x = y

\* Nobody knows the peer id of a connection that is not bound yet.
Unclaimed ==
    \A c \in Clients : sessionOf[c] = Nil /\ ~ended[c] =>
        /\ peerOf[c] = c
        /\ \A x \in Claims : x[2] # c
        /\ \A d \in Clients \ {c} : peerOf[d] # c

\* The connection has the duty to take the peer out of the session: it is in
\* it and registered, on its way to register or to leave, or has registered
\* late.
Keeper(c, m) ==
    \/ registry[m[2]] = c /\ Membership(c) = m /\ pc[Handler(c)] \notin {"detach", "gone"}
    \/ Membership(c) = m /\ pc[Handler(c)] \in {"register", "detachAndLeave", "leave"}
    \/ registry[m[2]] = c /\ "late" \in mishap[c]

Kept == \A m \in Known : m[2] \notin split => \E c \in Clients : Keeper(c, m)

\* The connection takes a session, its own or a first or another one.
Binds(c, sid) ==
    /\ pc[Handler(c)] \in {"idle", "call"}
    /\ sessionOf'[c] = sid
    /\ sessionOf[c] \notin {Nil, sid} => peerOf[c] \in split'
    /\ UNCHANGED peerOf
    /\ Claims' \subseteq Claims \cup {<<sid, peerOf[c]>>}

\* Where claims come from.
LEMMA ClaimsEffects ==
    ASSUME LabelsOK, Types, [Next]_vars
    PROVE  /\ split \subseteq split'
           /\ \/ Claims' \subseteq Claims
              \/ \E c \in Clients, sid \in Sessions : Binds(c, sid)
<1> DEFINE Kept1 == split \subseteq split' /\ Claims' \subseteq Claims
<1>1. CASE UNCHANGED <<peerOf, sessionOf, members, unseen, split, tokens, heir>>
  BY <1>1 DEF Claims, Known, Membership
<1>2. ASSUME NEW c \in Clients, NEW sid \in Sessions, Created(c, sid) \/ Joined(c, sid)
      PROVE  split \subseteq split' /\ Binds(c, sid)
  <2>1. pc[Handler(c)] = "call" /\ Bind(c, sid)
    BY <1>2 DEF Created, Joined
  <2>2. /\ split' = split \cup {p \in {peerOf[c]} : sessionOf[c] \notin {Nil, sid}}
        /\ sessionOf' = [sessionOf EXCEPT ![c] = sid]
        /\ members' = members \cup {<<sid, peerOf[c]>>}
        /\ unseen' = (unseen \cup Held(c)) \ {<<sid, peerOf[c]>>}
        /\ UNCHANGED <<peerOf, tokens>>
    BY <2>1 DEF Bind, Admit
  <2>3. Known' \subseteq Known \cup {<<sid, peerOf[c]>>}
    BY <2>2 DEF Known
  <2>4. Claims' \subseteq Claims \cup {<<sid, peerOf[c]>>}
    BY <2>2, <2>3, NilAssumption DEF Claims, Membership, Types, TypeOK
  <2> QED
    BY <2>1, <2>2, <2>4 DEF Binds, Types, TypeOK
<1>3. ASSUME NEW c \in Clients, NEW sid \in Sessions, SendSignalMessage(c, sid)
      PROVE  split \subseteq split' /\ Binds(c, sid)
  <2>1. /\ sessionOf' = [sessionOf EXCEPT ![c] = sid]
        /\ UNCHANGED <<peerOf, tokens, members, unseen, split>>
    BY <1>3 DEF SendSignalMessage, dirVars, rooming
  <2>2. Claims' \subseteq Claims \cup {<<sid, peerOf[c]>>}
    BY <2>1, NilAssumption DEF Claims, Known, Membership, Types, TypeOK
  <2> QED
    BY <1>3, <2>1, <2>2 DEF SendSignalMessage, Binds, Receive, Types, TypeOK
<1>4. ASSUME NEW c \in Clients, NEW sid \in Sessions, AdmittedUnheard(c, sid)
      PROVE  Kept1
  BY <1>4 DEF AdmittedUnheard, Admit, clientVars, Claims, Known, Membership
<1>5. ASSUME NEW c \in Clients, NEW token \in tokens, ResumeSession(c, token)
      PROVE  Kept1
  <2>1. /\ peerOf' = [peerOf EXCEPT ![c] = token[3]]
        /\ sessionOf' = [sessionOf EXCEPT ![c] = token[2]]
        /\ unseen \subseteq unseen'
        /\ UNCHANGED <<tokens, members, split>>
    BY <1>5 DEF ResumeSession
  <2>2. Known' \subseteq Known
    BY <2>1 DEF Known
  <2>3. \A d \in Clients : <<sessionOf'[d], peerOf'[d]>> = IF d = c THEN <<token[2], token[3]>>
                                                          ELSE <<sessionOf[d], peerOf[d]>>
    BY <2>1 DEF Types, TypeOK
  <2>4. \A d \in Clients : d # c => sessionOf'[d] = sessionOf[d]
    BY <2>1 DEF Types, TypeOK
  <2>5. <<token[2], token[3]>> \in Claims
    BY DEF Claims
  <2>6. ASSUME NEW d \in Clients, sessionOf'[d] # Nil
        PROVE  <<sessionOf'[d], peerOf'[d]>> \in Claims
    <3>1. CASE d = c
      BY <2>3, <2>5, <3>1
    <3>2. CASE d # c
      BY <2>3, <2>4, <2>6, <3>2 DEF Claims, Membership
    <3> QED
      BY <3>1, <3>2
  <2>7. \A t \in tokens' : <<t[2], t[3]>> \in Claims
    BY <2>1 DEF Claims
  <2>8. Known' \subseteq Claims
    BY <2>2 DEF Claims
  <2> QED
    BY <2>1, <2>6, <2>7, <2>8 DEF Claims, Membership
<1>6. ASSUME NEW c \in Clients, Rejoined(c)
      PROVE  Kept1
  <2>1. Known' \subseteq Known \cup {Membership(c)}
    BY <1>6 DEF Rejoined, Admit, Known
  <2>2. Membership(c) \in Claims
    BY <1>6 DEF Rejoined, Claims, Types, Located
  <2> QED
    BY <1>6, <2>1, <2>2 DEF Rejoined, clientVars, Claims, Membership
<1>7. ASSUME NEW c \in Clients, RejoinFails(c)
      PROVE  Kept1
  <2>1. Known' \subseteq Known
    BY <1>7 DEF RejoinFails, Admit, Known
  <2> QED
    BY <1>7, <2>1 DEF RejoinFails, clientVars, Claims, Membership
<1>8. ASSUME NEW c \in Clients, IssueToken(c)
      PROVE  Kept1
  <2>1. Membership(c) \in Claims
    BY <1>8 DEF IssueToken, Claims, Types, Located
  <2>2. /\ tokens' = tokens \cup {<<UserOf[c], sessionOf[c], peerOf[c]>>}
        /\ UNCHANGED <<peerOf, sessionOf, members, unseen, split>>
    BY <1>8 DEF IssueToken, clientVars, rooming
  <2> QED
    BY <2>1, <2>2 DEF Claims, Known, Membership
<1>9. ASSUME NEW c \in Clients, LeaveOk(c)
      PROVE  Kept1
  <2>1. Known' \subseteq Known
    BY <1>9 DEF LeaveOk, Expel, Known
  <2>2. \A d \in Clients : /\ sessionOf'[d] \in {sessionOf[d], Nil}
                          /\ peerOf'[d] = peerOf[d]
    BY <1>9 DEF LeaveOk, Types, TypeOK
  <2> QED
    BY <1>9, <2>1, <2>2 DEF LeaveOk, Claims, Membership
<1>10. ASSUME NEW c \in Clients, LeaveFails(c)
       PROVE  Kept1
  <2>1. Known' \subseteq Known
    BY <1>10 DEF LeaveFails, Expel, Known
  <2> QED
    BY <1>10, <2>1 DEF LeaveFails, clientVars, Claims, Membership
<1>11. ASSUME NEW c \in Clients, CreateSession(c) \/ JoinSession(c) \/ CallRefused(c)
       PROVE  Kept1
  BY <1>11 DEF CreateSession, JoinSession, CallRefused, Call, clientVars, dirVars, rooming, Claims,
               Known, Membership
<1> HIDE DEF Kept1
<1>12. ASSUME NEW c \in Clients, Request(c)
       PROVE  Kept1 \/ \E sid \in Sessions : split \subseteq split' /\ Binds(c, sid)
  BY <1>3, <1>5, <1>12, <1>11 DEF Request
<1>13. ASSUME NEW c \in Clients, Answered(c)
       PROVE  Kept1 \/ \E sid \in Sessions : split \subseteq split' /\ Binds(c, sid)
  BY <1>2, <1>4, <1>13, <1>11 DEF Answered
<1> QED
  BY <1>1, <1>6, <1>7, <1>8, <1>9, <1>10, <1>12, <1>13, BindingEffects DEF Kept1

\* No peer comes to be in two sessions.
LEMMA OneSessionStep ==
    ASSUME LabelsOK, Types, OneSessionEach, Unclaimed, [Next]_vars
    PROVE  OneSessionEach'
<1> SUFFICES ASSUME NEW x \in Claims', NEW y \in Claims', x[2] = y[2], x[2] \notin split'
             PROVE  x = y
  BY DEF OneSessionEach
<1>1. x[2] \notin split
  BY ClaimsEffects
<1>2. CASE x \in Claims /\ y \in Claims
  BY <1>1, <1>2 DEF OneSessionEach
<1>3. ASSUME NEW c \in Clients, NEW sid \in Sessions, Binds(c, sid), NEW z \in Claims,
             z[2] = peerOf[c], z[2] \notin split'
      PROVE  z = <<sid, peerOf[c]>>
  <2>1. ~ended[c]
    BY <1>3 DEF Binds, Types, Located, Ending
  <2>2. sessionOf[c] # Nil
    BY <1>3, <2>1 DEF Unclaimed
  <2>3. sessionOf[c] = sid
    BY <1>3, <2>2 DEF Binds
  <2>4. <<sid, peerOf[c]>> \in Claims
    BY <2>2, <2>3 DEF Claims, Membership
  <2>5. z[2] \notin split
    BY <1>3, ClaimsEffects
  <2> QED
    BY <1>3, <2>4, <2>5 DEF OneSessionEach
<1>4. ASSUME NEW c \in Clients, NEW sid \in Sessions, Binds(c, sid)
      PROVE  x = y
  <2>1. x \in Claims \/ x = <<sid, peerOf[c]>>
    BY <1>4 DEF Binds
  <2>2. y \in Claims \/ y = <<sid, peerOf[c]>>
    BY <1>4 DEF Binds
  <2> QED
    BY <1>2, <1>3, <1>4, <2>1, <2>2
<1> QED
  BY <1>2, <1>4, ClaimsEffects

\* A peer id stays unknown until its connection is bound.
LEMMA UnclaimedStep ==
    ASSUME LabelsOK, Types, Unclaimed, [Next]_vars
    PROVE  Unclaimed'
<1> SUFFICES ASSUME NEW c \in Clients, sessionOf'[c] = Nil, ~ended'[c]
             PROVE  /\ peerOf'[c] = c
                    /\ \A x \in Claims' : x[2] # c
                    /\ \A d \in Clients \ {c} : peerOf'[d] # c
  BY DEF Unclaimed
<1>1. sessionOf[c] = Nil /\ ~ended[c]
  BY ClientEffects
<1>2. /\ peerOf[c] = c
      /\ \A x \in Claims : x[2] # c
      /\ \A d \in Clients \ {c} : peerOf[d] # c
  BY <1>1 DEF Unclaimed
<1>3. peerOf'[c] = c
  <2>1. ASSUME NEW token \in tokens, ResumeSession(c, token)
        PROVE  FALSE
    BY <2>1, NilAssumption DEF ResumeSession, Types, TypeOK
  <2> QED
    BY <1>2, <2>1, ClientEffects
<1>4. ASSUME NEW x \in Claims'
      PROVE  x[2] # c
  <2>1. ASSUME NEW d \in Clients, NEW sid \in Sessions, Binds(d, sid)
        PROVE  x \in Claims \/ x[2] # c
    BY <1>2, <1>4, <2>1, NilAssumption DEF Binds
  <2> QED
    BY <1>2, <1>4, <2>1, ClaimsEffects
<1>5. ASSUME NEW d \in Clients \ {c}
      PROVE  peerOf'[d] # c
  <2>1. ASSUME NEW token \in tokens, ResumeSession(d, token)
        PROVE  peerOf'[d] # c
    <3>1. <<token[2], token[3]>> \in Claims
      BY DEF Claims
    <3>2. peerOf'[d] = token[3]
      BY <2>1 DEF ResumeSession, Types, TypeOK
    <3> QED
      BY <1>2, <3>1, <3>2
  <2> QED
    BY <1>2, <2>1, ClientEffects
<1> QED
  BY <1>3, <1>4, <1>5

\* A membership comes to be known with the answer to the call that makes it.
LEMMA KnownEffects ==
    ASSUME LabelsOK, Types, [Next]_vars, NEW m \in Known', m \notin Known
    PROVE  \E c \in Clients : Membership(c)' = m /\ pc'[Handler(c)] = "register"
<1>1. ASSUME NEW c \in Clients, NEW sid \in Sessions, Created(c, sid) \/ Joined(c, sid)
      PROVE  Membership(c)' = m /\ pc'[Handler(c)] = "register"
  <2>1. Bind(c, sid)
    BY <1>1 DEF Created, Joined
  <2>2. m = <<sid, peerOf[c]>>
    BY <2>1 DEF Bind, Admit, Known
  <2> QED
    BY <2>1, <2>2, ThreadKinds DEF Bind, Goto, LabelsOK, Membership, Types, TypeOK
<1>2. ASSUME NEW c \in Clients, Rejoined(c)
      PROVE  Membership(c)' = m /\ pc'[Handler(c)] = "register"
  <2>1. m = Membership(c)
    BY <1>2 DEF Rejoined, Admit, Known
  <2> QED
    BY <1>2, <2>1, ThreadKinds DEF Rejoined, Goto, LabelsOK, Membership, clientVars
<1>3. ~UNCHANGED <<peerOf, sessionOf, members, unseen, split, tokens, heir>>
  BY DEF Known
<1>4. ASSUME NEW c \in Clients, NEW sid \in Sessions, AdmittedUnheard(c, sid)
      PROVE  FALSE
  BY <1>4 DEF AdmittedUnheard, Admit, Known
<1>5. ASSUME NEW c \in Clients,
             \/ CreateSession(c) \/ JoinSession(c) \/ CallRefused(c)
             \/ \E sid \in Sessions : SendSignalMessage(c, sid)
      PROVE  FALSE
  BY <1>5 DEF CreateSession, JoinSession, Call, CallRefused, SendSignalMessage, dirVars, rooming,
              Known
<1>6. ASSUME NEW c \in Clients, NEW token \in tokens, ResumeSession(c, token)
      PROVE  FALSE
  BY <1>6 DEF ResumeSession, Known
<1>7. ASSUME NEW c \in Clients, RejoinFails(c) \/ IssueToken(c) \/ LeaveOk(c) \/ LeaveFails(c)
      PROVE  FALSE
  BY <1>7 DEF RejoinFails, IssueToken, LeaveOk, LeaveFails, Admit, Expel, rooming, Known
<1> QED
  BY <1>1, <1>2, <1>3, <1>4, <1>5, <1>6, <1>7, BindingEffects DEF Request, Answered

\* A connection is in one session until the service has lost sight of it there,
\* or has bound the peer to another one.
LEMMA MemberStays ==
    ASSUME LabelsOK, Types, [Next]_vars, NEW c \in Clients, Membership(c) \in Known,
           Membership(c) \in Known', peerOf[c] \notin split'
    PROVE  /\ Membership(c)' = Membership(c)
           /\ ~LeaveOk(c) /\ ~LeaveFails(c)
<1>1. sessionOf[c] \in Sessions /\ sessionOf[c] # Nil
  BY NilAssumption DEF Membership, Known, Types, TypeOK
<1>2. ~LeaveOk(c)
  BY DEF LeaveOk, Expel, Known
<1>3. ~LeaveFails(c)
  BY DEF LeaveFails, Expel, Held, Known
<1>4. \A token \in tokens : ~ResumeSession(c, token)
  BY DEF ResumeSession, Held, Known
<1>5. ASSUME NEW d \in Clients, d # c, Request(d) \/ HandlerStep(d) \/ ConnectionLost(d)
      PROVE  peerOf'[c] = peerOf[c] /\ sessionOf'[c] = sessionOf[c]
  BY <1>5, HandlerMoves DEF Types
<1>6. ASSUME Answered(c)
      PROVE  peerOf'[c] = peerOf[c] /\ sessionOf'[c] = sessionOf[c]
  <2>1. ASSUME NEW sid \in Sessions, Bind(c, sid), pc[Handler(c)] = "call"
        PROVE  peerOf'[c] = peerOf[c] /\ sessionOf'[c] = sessionOf[c]
    BY <1>1, <2>1 DEF Bind, Types, TypeOK
  <2>2. ASSUME Unbound(c), pc[Handler(c)] = "call"
        PROVE  peerOf'[c] = peerOf[c] /\ sessionOf'[c] = sessionOf[c]
    BY <1>1, <2>2 DEF Unbound, clientVars
  <2> QED
    BY <1>6, <2>1, <2>2, Answers
<1>7. ASSUME CreateSession(c) \/ JoinSession(c) \/ \E sid \in Sessions : SendSignalMessage(c, sid)
      PROVE  peerOf'[c] = peerOf[c] /\ sessionOf'[c] = sessionOf[c]
  BY <1>1, <1>7 DEF CreateSession, JoinSession, Call, SendSignalMessage, clientVars, Types, TypeOK
<1>8. peerOf'[c] = peerOf[c] /\ sessionOf'[c] = sessionOf[c]
  <2>1. CASE UNCHANGED <<peerOf, sessionOf, members, unseen, split, tokens, heir>>
    BY <2>1
  <2>2. ASSUME NEW d \in Clients, d # c,
               \/ Request(d) \/ Answered(d) \/ Rejoined(d) \/ RejoinFails(d) \/ IssueToken(d)
               \/ LeaveOk(d) \/ LeaveFails(d)
        PROVE  peerOf'[c] = peerOf[c] /\ sessionOf'[c] = sessionOf[c]
    BY <1>5, <2>2 DEF HandlerStep
  <2>3. CASE Request(c)
    BY <1>4, <1>7, <2>3 DEF Request
  <2>4. CASE Rejoined(c) \/ RejoinFails(c) \/ IssueToken(c)
    BY <2>4 DEF Rejoined, RejoinFails, IssueToken, clientVars
  <2> QED
    BY <1>2, <1>3, <1>6, <2>1, <2>2, <2>3, <2>4, BindingEffects
<1> QED
  BY <1>2, <1>3, <1>8 DEF Membership

\* A handler leaves "register" by registering.
LEMMA RegisterMoves ==
    ASSUME LabelsOK, Types, [Next]_vars, NEW c \in Clients, pc[Handler(c)] = "register",
           ~Register(Handler(c))
    PROVE  pc'[Handler(c)] = "register"
<1>1. ASSUME NEW d \in Clients, d # c, Request(d) \/ HandlerStep(d) \/ ConnectionLost(d)
      PROVE  pc'[Handler(c)] = pc[Handler(c)]
  BY <1>1, HandlerMoves DEF Types
<1>2. ~Request(c) /\ (ConnectionLost(c) => UNCHANGED pc)
  BY DEF Request, CreateSession, JoinSession, Call, ResumeSession, SendSignalMessage,
         Receive, ConnectionLost, threadVars
<1>3. ~HandlerStep(c)
  BY DEF HandlerStep, Answered, Created, Joined, CallRefused, AdmittedUnheard, Bind, Rejoined,
         RejoinFails, IssueToken, GetStream, SendOk, SendError, CloseDone, Unregister, Detach,
         LeaveOk, LeaveFails, ResetCheck, ResetTake, EnsureStep, LockInit, Connect, ConnectFails,
         Publish
<1>4. ASSUME NEW s \in Streams,
             ReaderStep(s) \/ LoopStep(s) \/ StreamBreaks(s) \/ RecvBackpressured(s)
      PROVE  pc'[Handler(c)] = pc[Handler(c)]
  BY <1>4, StreamMoves DEF Types
<1>5. CASE UNCHANGED vars
  BY <1>5 DEF vars, threadVars
<1> QED
  BY <1>1, <1>2, <1>3, <1>4, <1>5 DEF Next, AllGone

\* A connection that registers takes over the duty of the one before it.
LEMMA RegisterKeeps ==
    ASSUME LabelsOK, Types, BoundWhileOpen, LateNoted, OneSessionEach, [Next]_vars,
           NEW m \in Known, m[2] \notin split, NEW th \in Handlers \cup Loops, Register(th),
           NEW c \in Clients, c = ClientOf(th), peerOf[c] = m[2]
    PROVE  Keeper(c, m)'
<1>1. registry'[m[2]] = c /\ UNCHANGED <<peerOf, sessionOf>>
  BY DEF Register, clientVars, Types, TypeOK
<1>2. sessionOf[c] # Nil => Membership(c) = m
  BY DEF OneSessionEach, Claims, Membership
<1>3. ASSUME th = Handler(c)
      PROVE  Keeper(c, m)'
  <2>1. Membership(c) = m
    BY <1>2, <1>3 DEF Register, Types, Located
  <2>2. pc'[Handler(c)] = "lock"
    BY <1>3 DEF Register, Goto, LabelsOK, Threads
  <2> QED
    BY <1>1, <2>1, <2>2 DEF Keeper, Membership
<1>4. ASSUME NEW s \in Streams, th = Loop(s)
      PROVE  Keeper(c, m)'
  <2>1. owner[s] = c /\ pc[Loop(s)] \in Ensuring
    BY <1>4, ThreadClients DEF Register, Ensuring
  <2>2. CASE ended[c]
    <3>1. "late" \in mishap[c]
      BY <2>1, <2>2 DEF LateNoted
    <3>2. "late" \in mishap'[c]
      BY <3>1, HistoryEffects
    <3> QED
      BY <1>1, <3>2 DEF Keeper
  <2>3. CASE ~ended[c]
    <3>1. Membership(c) = m
      BY <1>2, <2>1, <2>3 DEF BoundWhileOpen, Free, Ensuring
    <3>2. pc'[Handler(c)] = pc[Handler(c)]
      BY <1>4, ThreadKinds, ThreadNames DEF Register, Goto, LabelsOK
    <3>3. pc[Handler(c)] \notin {"detach", "gone"}
      BY <2>3 DEF Types, Located, Ending
    <3> QED
      BY <1>1, <3>1, <3>2, <3>3 DEF Keeper, Membership
  <2> QED
    BY <2>2, <2>3
<1> QED
  BY <1>3, <1>4, ThreadClients DEF Handlers, Loops

\* Nobody else ends the duty of a connection.
LEMMA KeeperStays ==
    ASSUME LabelsOK, Types, Types', BoundUntilGone, OneSessionEach, [Next]_vars,
           NEW m \in Known, m \in Known', m[2] \notin split', m[2] \notin split, NEW c \in Clients,
           Keeper(c, m),
           ~\E th \in Handlers \cup Loops : Register(th) /\ peerOf[ClientOf(th)] = m[2]
    PROVE  Keeper(c, m)'
<1>1. m[1] \in Sessions /\ m[1] # Nil /\ m[2] \in Clients
  BY NilAssumption DEF Known, Types, TypeOK
<1>2. ASSUME Membership(c) = m
      PROVE  Membership(c)' = m /\ ~LeaveOk(c) /\ ~LeaveFails(c)
  <2>1. peerOf[c] = m[2]
    BY <1>2 DEF Membership
  <2> QED
    BY <1>2, <2>1, MemberStays
<1>3. \/ registry'[m[2]] = registry[m[2]]
      \/ \E d \in Clients : Unregister(d) /\ m[2] = peerOf[d] /\ registry[m[2]] = d
  BY <1>1, RegistryEffects
<1>4. ASSUME Membership(c) = m, Unregister(c), registry[m[2]] = c
      PROVE  pc'[Handler(c)] = "detachAndLeave"
  <2>1. sessionOf[c] = m[1] /\ peerOf[c] = m[2]
    BY <1>4 DEF Membership
  <2> QED
    BY <1>1, <1>4, <2>1, ThreadKinds DEF Unregister, Goto, LabelsOK
<1>5. CASE registry[m[2]] = c /\ Membership(c) = m /\ pc[Handler(c)] \notin {"detach", "gone"}
  <2>1. CASE Unregister(c)
    BY <1>2, <1>4, <1>5, <2>1 DEF Keeper
  <2>2. CASE ~Unregister(c)
    <3>1. registry'[m[2]] = c
      BY <1>3, <1>5, <2>2
    <3>2. pc'[Handler(c)] \notin {"detach", "gone"}
      <4>1. SUFFICES ASSUME pc'[Handler(c)] \in {"detach", "gone"}
                     PROVE  FALSE
        OBVIOUS
      <4>2. ended'[c]
        BY <4>1 DEF Types, Located, Ending
      <4>3. ~CloseDone(c)
        BY <4>1, ThreadKinds DEF CloseDone, Goto, LabelsOK
      <4>4. ended[c]
        BY <4>2, <4>3, ClientEffects
      <4>5. Detach(c)
        BY <1>2, <1>5, <2>2, <4>1, <4>4, EndingMoves
      <4> QED
        BY <1>5, <4>1, <4>5, ThreadKinds DEF Detach, Goto, LabelsOK
    <3> QED
      BY <1>2, <1>5, <3>1, <3>2 DEF Keeper
  <2> QED
    BY <2>1, <2>2
<1>6. CASE Membership(c) = m /\ pc[Handler(c)] \in {"register", "detachAndLeave", "leave"}
  <2>1. pc'[Handler(c)] \in {"register", "detachAndLeave", "leave"}
    <3>1. CASE pc[Handler(c)] = "register"
      <4>1. ~Register(Handler(c))
        BY <1>6, ThreadKinds, ThreadClients DEF Membership
      <4> QED
        BY <3>1, <4>1, RegisterMoves
    <3>2. CASE pc[Handler(c)] \in {"detachAndLeave", "leave"}
      <4>1. ended[c]
        BY <3>2 DEF Types, Located, Ending
      <4>2. ~Unregister(c)
        BY <3>2 DEF Unregister
      <4>3. CASE Detach(c)
        BY <3>2, <4>3, ThreadKinds DEF Detach, Goto, LabelsOK
      <4> QED
        BY <1>2, <1>6, <4>1, <4>2, <4>3, EndingMoves
    <3> QED
      BY <1>6, <3>1, <3>2
  <2> QED
    BY <1>2, <1>6, <2>1 DEF Keeper
<1>7. CASE registry[m[2]] = c /\ "late" \in mishap[c]
  <2>1. "late" \in mishap'[c]
    BY <1>7, HistoryEffects
  <2>2. ASSUME Unregister(c), m[2] = peerOf[c]
        PROVE  Keeper(c, m)'
    <3>1. sessionOf[c] # Nil
      BY <1>1, <1>7, <2>2 DEF Unregister, BoundUntilGone, Free
    <3>2. Membership(c) = m
      BY <2>2, <3>1 DEF OneSessionEach, Claims, Membership
    <3> QED
      BY <1>2, <1>4, <1>7, <2>2, <3>2 DEF Keeper
  <2> QED
    BY <1>3, <1>7, <2>1, <2>2 DEF Keeper
<1> QED
  BY <1>5, <1>6, <1>7 DEF Keeper

\* Every peer the service knows to be in a session keeps somebody who will
\* take it out.
LEMMA KeptStep ==
    ASSUME LabelsOK, Types, Types', BoundUntilGone, BoundWhileOpen, LateNoted, OneSessionEach, Kept,
           [Next]_vars
    PROVE  Kept'
<1> SUFFICES ASSUME NEW m, m \in Known', m[2] \notin split'
             PROVE  \E c \in Clients : Keeper(c, m)'
  BY DEF Kept
<1>1. CASE m \notin Known
  <2>1. PICK c \in Clients : Membership(c)' = m /\ pc'[Handler(c)] = "register"
    BY <1>1, KnownEffects
  <2> QED
    BY <2>1 DEF Keeper
<1>2. CASE m \in Known
  <2>1. m[2] \notin split
    BY ClaimsEffects
  <2>2. PICK c \in Clients : Keeper(c, m)
    BY <1>2, <2>1 DEF Kept
  <2>3. ASSUME NEW th \in Handlers \cup Loops, Register(th), peerOf[ClientOf(th)] = m[2]
        PROVE  \E d \in Clients : Keeper(d, m)'
    <3>1. PICK d \in Clients : d = ClientOf(th)
      BY <2>3, Served DEF Register, Threads
    <3> QED
      BY <1>2, <2>1, <2>3, <3>1, RegisterKeeps
  <2> QED
    BY <1>2, <2>1, <2>2, <2>3, KeeperStays
<1> QED
  BY <1>1, <1>2

\* A peer that the SFU has in a session belongs to a connection that is in that
\* session and will leave it, unless the service has lost sight of it, has bound
\* the peer to two sessions, or a late loop has taken the registration.
THEOREM NoGhosts == Spec => []NoGhostMember
<1>1. Init => OneSessionEach /\ Unclaimed /\ Kept
  BY DEF Init, OneSessionEach, Unclaimed, Kept, Claims, Known
<1>2. LabelsOK /\ Types /\ OneSessionEach /\ Unclaimed /\ [Next]_vars
      => OneSessionEach' /\ Unclaimed'
  BY OneSessionStep, UnclaimedStep
<1>3. LabelsOK /\ Types /\ Types' /\ BoundUntilGone /\ BoundWhileOpen /\ LateNoted /\ OneSessionEach
      /\ Kept /\ [Next]_vars => Kept'
  BY KeptStep
<1>4. Kept => NoGhostMember
  BY DEF Kept, Keeper, Known, NoGhostMember
<1> QED
  BY <1>1, <1>2, <1>3, <1>4, GoneCorrect, RecoveryCorrect, SlottedCorrect, PTL DEF Spec
=============================================================================
