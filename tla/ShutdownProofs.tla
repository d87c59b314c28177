---------------------------- MODULE ShutdownProofs ----------------------------
(***************************************************************************)
(* How the process ends, for any number of requests and WebSocket          *)
(* connections, wherever they are when the signal comes.                   *)
(***************************************************************************)
EXTENDS Shutdown, SequenceTheorems, TLAPS

Funcs == {"storage", "grpc client"}

\* The sequences of functions there are, and how they are taken apart.
LEMMA Sequences ==
    /\ <<>> \in Seq(Funcs) /\ <<"storage">> \in Seq(Funcs) /\ <<"grpc client">> \in Seq(Funcs)
    /\ Append(<<>>, "storage") = <<"storage">>
    /\ Append(<<"storage">>, "grpc client") = <<"storage", "grpc client">>
    /\ Append(<<>>, "grpc client") = <<"grpc client">>
    /\ Append(<<"grpc client">>, "storage") = <<"grpc client", "storage">>
    /\ Registry!Front(<<"storage", "grpc client">>) = <<"storage">>
    /\ Registry!Front(<<"storage">>) = <<>>
    /\ Registry!Last(<<"storage", "grpc client">>) = "grpc client"
    /\ Registry!Last(<<"storage">>) = "storage"
    /\ <<"storage">> # <<>> /\ <<"storage", "grpc client">> # <<>>
    /\ Append(<<"grpc client">>, "grpc client") # Append(<<"grpc client">>, "storage")
    /\ Append(<<>>, "grpc client") # Append(<<>>, "storage")
<1>1. /\ <<>> \in Seq(Funcs) /\ <<"storage">> \in Seq(Funcs) /\ <<"grpc client">> \in Seq(Funcs)
  BY DEF Funcs
<1>2. /\ Append(<<>>, "storage") = <<"storage">>
      /\ Append(<<"storage">>, "grpc client") = <<"storage", "grpc client">>
      /\ Append(<<>>, "grpc client") = <<"grpc client">>
      /\ Append(<<"grpc client">>, "storage") = <<"grpc client", "storage">>
  <2>1. ASSUME NEW a \in Funcs, NEW b \in Funcs
        PROVE  Append(<<>>, a) = <<a>> /\ Append(<<a>>, b) = <<a, b>>
    <3>1. Append(<<>>, a) = <<a>>
      OBVIOUS
    <3>2. /\ <<a>> \in Seq(Funcs) /\ <<a, b>> \in Seq(Funcs)
          /\ Len(<<a>>) = 1 /\ Len(<<a, b>>) = 2
      OBVIOUS
    <3>3. /\ Append(<<a>>, b) \in Seq(Funcs) /\ Len(Append(<<a>>, b)) = 2
          /\ Append(<<a>>, b)[1] = a /\ Append(<<a>>, b)[2] = b
      BY <3>2, AppendProperties
    <3>4. \A i \in 1 .. 2 : Append(<<a>>, b)[i] = <<a, b>>[i]
      BY <3>3
    <3> QED
      BY <3>1, <3>2, <3>3, <3>4, SeqEqual
  <2> QED
    BY <2>1 DEF Funcs
<1>3. Registry!Front(<<"storage", "grpc client">>) = <<"storage">>
  <2>1. SubSeq(<<"storage", "grpc client">>, 1, 1) = <<"storage">>
    <3> DEFINE two == <<"storage", "grpc client">>
    <3>1. two[1] = "storage"
      OBVIOUS
    <3> HIDE DEF two
    <3>2. ASSUME NEW i \in 1 .. 1
          PROVE  two[i] \in Funcs
      <4>1. i = 1
        OBVIOUS
      <4> QED
        BY <3>1, <4>1 DEF Funcs
    <3>3. /\ SubSeq(two, 1, 1) \in Seq(Funcs)
          /\ Len(SubSeq(two, 1, 1)) = 1
          /\ SubSeq(two, 1, 1)[1] = "storage"
      BY <3>1, <3>2, SubSeqProperties
    <3>4. <<"storage">> \in Seq(Funcs) /\ Len(<<"storage">>) = 1 /\ <<"storage">>[1] = "storage"
      BY <1>1
    <3>5. SubSeq(two, 1, 1) = <<"storage">>
      <4>1. \A i \in 1 .. 1 : SubSeq(two, 1, 1)[i] = <<"storage">>[i]
        BY <3>3, <3>4
      <4> QED
        BY <3>3, <3>4, <4>1, SeqEqual
    <3> QED
      BY <3>5 DEF two
  <2>2. Len(<<"storage", "grpc client">>) - 1 = 1
    OBVIOUS
  <2> QED
    BY <2>1, <2>2 DEF Registry!Front
<1>4. Registry!Front(<<"storage">>) = <<>>
  BY DEF Registry!Front
<1>5. /\ Registry!Last(<<"storage", "grpc client">>) = "grpc client"
      /\ Registry!Last(<<"storage">>) = "storage"
  BY DEF Registry!Last
<1>6. <<"storage">> # <<>> /\ <<"storage", "grpc client">> # <<>>
  OBVIOUS
<1>7. /\ Append(<<"grpc client">>, "grpc client") # Append(<<"grpc client">>, "storage")
      /\ Append(<<>>, "grpc client") # Append(<<>>, "storage")
  BY <1>1, AppendInjective DEF Funcs
<1> QED
  BY <1>1, <1>2, <1>3, <1>4, <1>5, <1>6, <1>7
-----------------------------------------------------------------------------
Phases == {"initStorage", "initRouter", "notify", "serve", "drain", "closeAll",
           "returned", "exit1", "killed"}

\* The next step of main in CloseAll.
InClose == caller["main"]

\* The types that the other parts need.
Ranges ==
    /\ phase \in Phases
    /\ caller \in [{"main"} -> {"idle", "once", "snapshot", "close", "returned"}]
    /\ request \in [Requests -> {"none", "accepted", "running", "query", "done"}]
    /\ socket \in [Sockets -> {"none", "accepted", "upgrading", "serving", "gone"}]

\* What is built is registered, the storage first.
BuiltInOrder ==
    /\ phase = "initStorage" => added = <<>> /\ pool = "none" /\ grpcConn = "none"
    /\ phase = "initRouter" => added = <<"storage">> /\ pool = "open" /\ grpcConn = "none"
    /\ phase \in {"notify", "serve", "drain", "closeAll", "returned"} =>
          added = <<"storage", "grpc client">>
    /\ phase \in {"notify", "serve", "drain"} => pool = "open" /\ grpcConn = "open"
    /\ InClose # "idle" => phase \in {"closeAll", "returned", "killed"}
    /\ phase = "returned" => InClose = "returned"

\* How far CloseAll is, in main and in what it closes.
NotTaken ==
    /\ InClose \in {"idle", "once", "snapshot"}
    /\ funcs = added /\ todo = <<>> /\ closed = <<>>
    /\ phase = "closeAll" => pool = "open" /\ grpcConn = "open"
    /\ pool \in {"none", "open"} /\ grpcConn \in {"none", "open"}
NoneClosed ==
    /\ InClose = "close"
    /\ todo = <<"storage", "grpc client">> /\ closed = <<>>
    /\ pool = "open" /\ grpcConn = "open"
GrpcClosed ==
    /\ InClose = "close"
    /\ todo = <<"storage">> /\ closed = <<"grpc client">>
    /\ pool \in {"open", "closing"} /\ grpcConn = "closed"
BothClosed ==
    /\ InClose \in {"close", "returned"}
    /\ todo = <<>> /\ closed = <<"grpc client", "storage">>
    /\ pool = "closed" /\ grpcConn = "closed"

Closing == NotTaken \/ NoneClosed \/ GrpcClosed \/ BothClosed

\* The server is drained before anything is closed, and serves no more.
DrainedFirst ==
    /\ phase \in {"drain", "closeAll", "returned"} \/ InClose # "idle" => listener = "closed"
    /\ phase \in {"closeAll", "returned"} \/ InClose # "idle" => timedOut \/ ~Active

\* A closed pool has all its connections.
ConnectionsBack == pool = "closed" => \A r \in Requests : request[r] # "query"

\* The inductive invariant.
ShutdownInv == Ranges /\ BuiltInOrder /\ Closing /\ DrainedFirst /\ ConnectionsBack

\* initDeps and the wait for the signal.
LEMMA StartStep ==
    ASSUME ShutdownInv,
           \/ InitStorage \/ InitRouter \/ InitFails \/ NotifyContext \/ Signal \/ Listen
           \/ StopNotify \/ Drained \/ DrainTimeout
    PROVE  ShutdownInv'
<1> USE DEF ShutdownInv, procVars, workVars, depVars, closerVars, InClose
<1>1. CASE InitStorage
  <2>1. /\ phase = "initStorage" /\ phase' = "initRouter" /\ pool' = "open"
        /\ funcs' = Append(funcs, "storage") /\ added' = Append(added, "storage")
        /\ UNCHANGED <<caller, request, socket, grpcConn, todo, closed, listener, timedOut>>
    BY <1>1 DEF InitStorage, Registry!Add
  <2>2. NotTaken /\ InClose = "idle" /\ added = <<>>
    BY <2>1 DEF BuiltInOrder, Closing, NotTaken, NoneClosed, GrpcClosed, BothClosed
  <2>3. added' = <<"storage">> /\ funcs' = <<"storage">>
    BY <2>1, <2>2, Sequences DEF NotTaken
  <2>4. Ranges' /\ BuiltInOrder'
    BY <2>1, <2>2, <2>3 DEF Ranges, Phases, BuiltInOrder
  <2>5. NotTaken'
    BY <2>1, <2>2, <2>3 DEF NotTaken, BuiltInOrder
  <2>6. DrainedFirst' /\ ConnectionsBack'
    BY <2>1, <2>2 DEF DrainedFirst, ConnectionsBack
  <2> QED
    BY <2>4, <2>5, <2>6 DEF Closing
<1>2. CASE InitRouter
  <2>1. /\ phase = "initRouter" /\ phase' = "notify" /\ grpcConn' = "open"
        /\ funcs' = Append(funcs, "grpc client") /\ added' = Append(added, "grpc client")
        /\ UNCHANGED <<caller, request, socket, pool, todo, closed, listener, timedOut>>
    BY <1>2 DEF InitRouter, Registry!Add
  <2>2. NotTaken /\ InClose = "idle" /\ added = <<"storage">> /\ pool = "open"
    BY <2>1 DEF BuiltInOrder, Closing, NotTaken, NoneClosed, GrpcClosed, BothClosed
  <2>3. /\ added' = <<"storage", "grpc client">>
        /\ funcs' = <<"storage", "grpc client">>
    BY <2>1, <2>2, Sequences DEF NotTaken
  <2>4. Ranges' /\ BuiltInOrder'
    BY <2>1, <2>2, <2>3 DEF Ranges, Phases, BuiltInOrder
  <2>5. NotTaken'
    BY <2>1, <2>2, <2>3 DEF NotTaken
  <2>6. DrainedFirst' /\ ConnectionsBack'
    BY <2>1, <2>2 DEF DrainedFirst, ConnectionsBack
  <2> QED
    BY <2>4, <2>5, <2>6 DEF Closing
<1>3. CASE InitFails \/ NotifyContext \/ Signal \/ Listen
  <2>1. /\ UNCHANGED <<caller, request, socket, depVars, closerVars, timedOut>>
        /\ phase' = phase \/ phase' \in {"exit1", "killed"} \/ (phase = "notify" /\ phase' = "serve")
        /\ phase' = "exit1" => phase \in {"initStorage", "initRouter"}
        /\ phase' = "killed" => Alive
        /\ listener' = listener \/ phase = "serve"
    BY <1>3 DEF InitFails, NotifyContext, Signal, Listen, Alive, Over
  <2>2. Ranges' /\ BuiltInOrder' /\ ConnectionsBack'
    BY <2>1 DEF Ranges, Phases, BuiltInOrder, ConnectionsBack, Alive, Over
  <2>3. Closing'
    BY <2>1 DEF Closing, NotTaken, NoneClosed, GrpcClosed, BothClosed, BuiltInOrder
  <2>4. DrainedFirst'
    BY <2>1 DEF DrainedFirst, Active, BuiltInOrder
  <2> QED
    BY <2>2, <2>3, <2>4
<1>4. CASE StopNotify \/ Drained \/ DrainTimeout
  <2>1. /\ UNCHANGED <<caller, request, socket, depVars, closerVars>>
        /\ \/ phase = "serve" /\ phase' = "drain" /\ listener' = "closed"
           \/ /\ phase = "drain" /\ phase' = "closeAll" /\ listener' = listener
              /\ timedOut' \/ ~Active
    BY <1>4 DEF StopNotify, Drained, DrainTimeout
  <2>2. InClose = "idle" /\ NotTaken /\ pool = "open" /\ grpcConn = "open"
    BY <2>1 DEF BuiltInOrder, Closing, NotTaken, NoneClosed, GrpcClosed, BothClosed
  <2>3. Ranges' /\ BuiltInOrder' /\ ConnectionsBack'
    BY <2>1, <2>2 DEF Ranges, Phases, BuiltInOrder, ConnectionsBack
  <2>4. NotTaken'
    BY <2>1, <2>2 DEF NotTaken
  <2>5. DrainedFirst'
    BY <2>1, <2>2 DEF DrainedFirst, Active
  <2> QED
    BY <2>3, <2>4, <2>5 DEF Closing
<1> QED
  BY <1>1, <1>2, <1>3, <1>4

\* CloseAll: the gRPC client is closed before the storage, which waits for its
\* connections.
LEMMA CloseStep ==
    ASSUME ShutdownInv, CloseAll \/ CloseGrpc \/ PoolCloses \/ CloseStorage \/ MainReturns
    PROVE  ShutdownInv'
<1> USE DEF ShutdownInv, procVars, workVars, depVars, closerVars, InClose
<1>1. CASE CloseAll
  <2>1. /\ phase = "closeAll" /\ InClose # "close" /\ InClose # "returned"
        /\ UNCHANGED <<procVars, workVars, depVars, added, closed>>
        /\ caller' \in [{"main"} -> {"idle", "once", "snapshot", "close", "returned"}]
        /\ \/ InClose' \in {"once", "snapshot"} /\ UNCHANGED <<funcs, todo>>
           \/ InClose' = "close" /\ todo' = funcs
    BY <1>1 DEF CloseAll, Registry!CloseAll, Registry!RunOnce, Registry!Snapshot, Registry!Goto, Ranges
  <2>2. NotTaken /\ added = <<"storage", "grpc client">>
    BY <2>1 DEF BuiltInOrder, Closing, NoneClosed, GrpcClosed, BothClosed
  <2>3. Ranges' /\ BuiltInOrder' /\ ConnectionsBack'
    BY <2>1 DEF Ranges, Phases, BuiltInOrder, ConnectionsBack
  <2>4. NotTaken' \/ NoneClosed'
    BY <2>1, <2>2 DEF NotTaken, NoneClosed
  <2>5. DrainedFirst'
    BY <2>1 DEF DrainedFirst, Active
  <2> QED
    BY <2>3, <2>4, <2>5 DEF Closing
<1>2. CASE CloseGrpc
  <2>1. /\ phase = "closeAll" /\ InClose = "close" /\ todo # <<>>
        /\ todo' = Registry!Front(todo)
        /\ closed' = Append(closed, Registry!Last(todo))
        /\ closed' = Append(closed, "grpc client")
        /\ grpcConn' = "closed"
        /\ UNCHANGED <<procVars, workVars, pool, added, caller>>
    BY <1>2 DEF CloseGrpc, Registry!RunFunc
  <2>2. NoneClosed
    <3>1. ~NotTaken /\ ~BothClosed
      BY <2>1 DEF NotTaken, BothClosed
    <3>2. ~GrpcClosed
      BY <2>1, Sequences DEF GrpcClosed
    <3> QED
      BY <3>1, <3>2 DEF Closing
  <2>3. GrpcClosed'
    BY <2>1, <2>2, Sequences DEF NoneClosed, GrpcClosed
  <2>4. Ranges' /\ BuiltInOrder' /\ ConnectionsBack' /\ DrainedFirst'
    BY <2>1 DEF Ranges, BuiltInOrder, ConnectionsBack, DrainedFirst, Active
  <2> QED
    BY <2>3, <2>4 DEF Closing
<1>3. CASE PoolCloses
  <2>1. /\ phase = "closeAll" /\ InClose = "close" /\ todo # <<>>
        /\ Registry!Last(todo) = "storage"
        /\ pool = "open" /\ pool' = "closing"
        /\ UNCHANGED <<procVars, workVars, grpcConn, closerVars>>
    BY <1>3 DEF PoolCloses, Registry!Last
  <2>2. GrpcClosed
    BY <2>1, Sequences DEF Closing, NotTaken, NoneClosed, BothClosed
  <2>3. GrpcClosed'
    BY <2>1, <2>2 DEF GrpcClosed
  <2>4. Ranges' /\ BuiltInOrder' /\ ConnectionsBack' /\ DrainedFirst'
    BY <2>1 DEF Ranges, BuiltInOrder, ConnectionsBack, DrainedFirst, Active
  <2> QED
    BY <2>3, <2>4 DEF Closing
<1>4. CASE CloseStorage
  <2>1. /\ phase = "closeAll" /\ pool = "closing"
        /\ \A r \in Requests : request[r] # "query"
        /\ InClose = "close" /\ todo' = Registry!Front(todo)
        /\ closed' = Append(closed, "storage")
        /\ pool' = "closed"
        /\ UNCHANGED <<procVars, workVars, grpcConn, added, caller>>
    BY <1>4 DEF CloseStorage, Registry!RunFunc
  <2>2. GrpcClosed
    BY <2>1 DEF Closing, NotTaken, NoneClosed, BothClosed
  <2>3. BothClosed'
    BY <2>1, <2>2, Sequences DEF GrpcClosed, BothClosed
  <2>4. Ranges' /\ BuiltInOrder' /\ ConnectionsBack' /\ DrainedFirst'
    BY <2>1 DEF Ranges, BuiltInOrder, ConnectionsBack, DrainedFirst, Active
  <2> QED
    BY <2>3, <2>4 DEF Closing
<1>5. CASE MainReturns
  <2>1. /\ phase = "closeAll" /\ phase' = "returned"
        /\ InClose = "close" /\ InClose' = "returned" /\ todo = <<>>
        /\ caller' \in [{"main"} -> {"idle", "once", "snapshot", "close", "returned"}]
        /\ UNCHANGED <<timedOut, workVars, depVars, added, todo, closed>>
    BY <1>5 DEF MainReturns, Registry!Return, Registry!Goto, Ranges
  <2>2. BothClosed
    BY <2>1, Sequences DEF Closing, NotTaken, NoneClosed, GrpcClosed
  <2>3. BothClosed'
    BY <2>1, <2>2 DEF BothClosed
  <2>4. Ranges' /\ BuiltInOrder' /\ ConnectionsBack' /\ DrainedFirst'
    BY <2>1 DEF Ranges, Phases, BuiltInOrder, ConnectionsBack, DrainedFirst, Active
  <2> QED
    BY <2>3, <2>4 DEF Closing
<1> QED
  BY <1>1, <1>2, <1>3, <1>4, <1>5

\* What the server does starts nothing once the listener is closed, and gets no
\* connection once the pool is.
LEMMA WorkStep ==
    ASSUME ShutdownInv, Work
    PROVE  ShutdownInv'
<1> USE DEF ShutdownInv, procVars, depVars, closerVars, InClose
<1>1. /\ UNCHANGED <<procVars, listener, depVars, closerVars>>
      /\ request' \in [Requests -> {"none", "accepted", "running", "query", "done"}]
      /\ socket' \in [Sockets -> {"none", "accepted", "upgrading", "serving", "gone"}]
  BY DEF Work, Accept,
         HangUp, Arrive, Acquire, Release, Answer, Upgrade, Hijack, UpgradeFails, SocketEnds, Ranges
<1>2. ASSUME NEW r \in Requests, request'[r] = "query", request[r] # "query"
      PROVE  pool = "open"
  BY <1>2 DEF Work, Accept,
              HangUp, Arrive, Acquire, Release, Answer, Upgrade, Hijack, UpgradeFails, SocketEnds, Ranges
<1>3. ASSUME listener = "closed", ~Active
      PROVE  ~Active'
  <2>1. ASSUME NEW r \in Requests
        PROVE  request'[r] \notin {"accepted", "running", "query"}
    BY <1>3 DEF Work, Accept,
                HangUp, Arrive, Acquire, Release, Answer, Upgrade, Hijack, UpgradeFails, SocketEnds,
                Ranges, Active
  <2>2. ASSUME NEW w \in Sockets
        PROVE  socket'[w] \notin {"accepted", "upgrading"}
    BY <1>3 DEF Work, Accept,
                HangUp, Arrive, Acquire, Release, Answer, Upgrade, Hijack, UpgradeFails, SocketEnds,
                Ranges, Active
  <2> QED
    BY <2>1, <2>2 DEF Active
<1>4. Ranges' /\ BuiltInOrder'
  BY <1>1 DEF Ranges, BuiltInOrder
<1>5. Closing'
  BY <1>1 DEF Closing, NotTaken, NoneClosed, GrpcClosed, BothClosed
<1>6. DrainedFirst'
  BY <1>1, <1>3 DEF DrainedFirst
<1>7. ConnectionsBack'
  BY <1>1, <1>2 DEF ConnectionsBack
<1> QED
  BY <1>4, <1>5, <1>6, <1>7

\* Every step keeps the invariant.
LEMMA ShutdownStep == ShutdownInv /\ [Next]_vars => ShutdownInv'
<1> SUFFICES ASSUME ShutdownInv, [Next]_vars
             PROVE  ShutdownInv'
  OBVIOUS
<1>1. CASE UNCHANGED vars
  <2>1. Ranges' /\ BuiltInOrder' /\ ConnectionsBack' /\ DrainedFirst'
    BY <1>1 DEF vars, procVars, workVars, depVars, closerVars, ShutdownInv, Ranges, BuiltInOrder,
                ConnectionsBack, DrainedFirst, Active, InClose
  <2>2. Closing'
    BY <1>1 DEF vars, procVars, workVars, depVars, closerVars, ShutdownInv,
                Closing, NotTaken, NoneClosed, GrpcClosed, BothClosed, InClose
  <2> QED
    BY <2>1, <2>2 DEF ShutdownInv
<1>2. Ended => UNCHANGED vars
  BY DEF Ended
<1> QED
  BY <1>1, <1>2, StartStep, CloseStep, WorkStep DEF Next, Main

\* The invariant holds in every reachable state.
LEMMA ShutdownCorrect == Spec => []ShutdownInv
<1>1. Init => ShutdownInv
  <2> SUFFICES ASSUME Init
               PROVE  ShutdownInv
    OBVIOUS
  <2>1. Ranges /\ InClose = "idle"
    BY DEF Init, Registry!Init, Ranges, Phases, InClose
  <2>2. BuiltInOrder /\ DrainedFirst /\ ConnectionsBack
    BY <2>1 DEF Init, Registry!Init, BuiltInOrder, DrainedFirst, ConnectionsBack
  <2>3. NotTaken
    BY <2>1 DEF Init, Registry!Init, NotTaken
  <2> QED
    BY <2>1, <2>2, <2>3 DEF ShutdownInv, Closing
<1> QED
  BY <1>1, ShutdownStep, PTL DEF Spec
-----------------------------------------------------------------------------
\* The process uses Closer as it is meant to be used: all that Closer promises
\* of its functions holds of the storage and the gRPC client.
THEOREM CloserUsed == Spec => Registry!Spec
<1>1. Init => Registry!Init
  BY DEF Init
<1>2. [Next]_vars => [Registry!Next]_(Registry!vars)
  <2> SUFFICES ASSUME [Next]_vars
               PROVE  Registry!Next \/ UNCHANGED closerVars
    BY DEF closerVars, Registry!vars
  <2>1. CASE InitStorage \/ InitRouter
    BY <2>1 DEF InitStorage, InitRouter, Registry!Next
  <2>2. CASE CloseAll
    BY <2>2 DEF CloseAll, Registry!Next, Registry!Close
  <2>3. CASE CloseGrpc \/ CloseStorage
    BY <2>3 DEF CloseGrpc, CloseStorage, Registry!Next, Registry!Close
  <2>4. CASE MainReturns
    BY <2>4 DEF MainReturns, Registry!Next, Registry!Close
  <2>5. CASE \/ InitFails \/ NotifyContext \/ Signal \/ Listen \/ StopNotify
             \/ Drained \/ DrainTimeout \/ PoolCloses
    BY <2>5 DEF InitFails, NotifyContext, Signal, Listen, StopNotify, Drained, DrainTimeout,
                PoolCloses, closerVars
  <2>6. CASE Work
    BY <2>6 DEF Work, Accept,
                HangUp, Arrive, Acquire, Release, Answer, Upgrade, Hijack, UpgradeFails, SocketEnds,
                closerVars
  <2>7. CASE Ended \/ UNCHANGED vars
    BY <2>7 DEF Ended, vars, closerVars
  <2> QED
    BY <2>1, <2>2, <2>3, <2>4, <2>5, <2>6, <2>7 DEF Next, Main
<1> QED
  BY <1>1, <1>2, PTL DEF Spec, Registry!Spec

\* What a handler needs is closed only when the server takes no more requests
\* and those it had are answered or have outlived ShutdownTimeout.
THEOREM DrainedBeforeClose == Spec => []ClosedAfterDraining
<1>1. ShutdownInv => ClosedAfterDraining
  BY DEF ShutdownInv, Closing, NotTaken, NoneClosed, GrpcClosed, BothClosed, DrainedFirst,
         ClosedAfterDraining
<1> QED
  BY <1>1, ShutdownCorrect, PTL

\* When main returns no statement or transaction is cut off, however many
\* requests Shutdown did not wait for.
THEOREM QueriesFinish == Spec => []NoQueryCutOff
<1>1. ShutdownInv => NoQueryCutOff
  BY DEF ShutdownInv, BuiltInOrder, Closing, NotTaken, NoneClosed, GrpcClosed, BothClosed,
         ConnectionsBack, NoQueryCutOff
<1> QED
  BY <1>1, ShutdownCorrect, PTL

\* The gRPC client is closed before the storage, and both before main returns.
THEOREM DependenciesInOrder == Spec => []ClosedInOrder
<1>1. ShutdownInv => ClosedInOrder
  BY DEF ShutdownInv, BuiltInOrder, Closing, NotTaken, NoneClosed, GrpcClosed, BothClosed,
         ClosedInOrder
<1> QED
  BY <1>1, ShutdownCorrect, PTL
=============================================================================
