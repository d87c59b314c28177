------------------------------- MODULE Shutdown -------------------------------
(***************************************************************************)
(* The life of the process (cmd/api/main.go, internal/app): initDeps       *)
(* builds the storage and then, for the router, the gRPC client; Run       *)
(* serves until a signal, drains the HTTP server and closes what was       *)
(* built, through Closer.                                                  *)
(*                                                                         *)
(* An HTTP request runs until its handler returns; it uses a connection of *)
(* the pool for a while.  A WebSocket is a request until Upgrade has       *)
(* hijacked its connection, and from then on the server knows nothing of   *)
(* it.  When main returns, or a signal kills the process, all goroutines   *)
(* are gone.                                                               *)
(***************************************************************************)
EXTENDS Naturals, Sequences

CONSTANTS Requests, Sockets

VARIABLES
    phase,      \* next step of main
    signals,    \* signals sent, at most two
    notify,     \* NotifyContext catches signals
    listener,   \* off, on, failed or closed
    request,    \* none, accepted (its connection), running, query (holds a
                \* pooled connection) or done
    socket,     \* none, accepted, upgrading, serving or gone
    pool,       \* none, open, closing or closed
    grpcConn,   \* none, open or closed
    timedOut,   \* history: Shutdown has given up waiting
    \* the variables of Closer
    funcs, once, todo, errs, caller, result, added, early, closed, failed

closerVars == <<funcs, once, todo, errs, caller, result, added, early, closed, failed>>
procVars   == <<phase, signals, notify, timedOut>>
workVars   == <<listener, request, socket>>
depVars    == <<pool, grpcConn>>
vars == <<procVars, workVars, depVars, closerVars>>

Registry == INSTANCE Closer WITH Funcs <- {"storage", "grpc client"}, Callers <- {"main"}

Init ==
    /\ phase = "initStorage"
    /\ signals = 0 /\ notify = FALSE
    /\ listener = "off"
    /\ request = [r \in Requests |-> "none"]
    /\ socket = [w \in Sockets |-> "none"]
    /\ pool = "none" /\ grpcConn = "none"
    /\ timedOut = FALSE
    /\ Registry!Init

Over == phase \in {"returned", "exit1", "killed"}
Alive == ~Over
-----------------------------------------------------------------------------
(* initDeps: each dependency registers how to close it once it is there.   *)

InitStorage ==
    /\ phase = "initStorage"
    /\ phase' = "initRouter"
    /\ pool' = "open"
    /\ Registry!Add("storage")
    /\ UNCHANGED <<signals, notify, timedOut, workVars, grpcConn>>

\* A version of InitRouter that forgets to register the client.
InitRouterUnregistered ==
    /\ phase = "initRouter"
    /\ phase' = "notify"
    /\ grpcConn' = "open"
    /\ UNCHANGED <<signals, notify, timedOut, workVars, pool, closerVars>>

InitRouter ==
    /\ phase = "initRouter"
    /\ phase' = "notify"
    /\ grpcConn' = "open"
    /\ Registry!Add("grpc client")
    /\ UNCHANGED <<signals, notify, timedOut, workVars, pool>>

\* os.Exit(1): what is registered already is not closed.
InitFails ==
    /\ phase \in {"initStorage", "initRouter"}
    /\ phase' = "exit1"
    /\ UNCHANGED <<signals, notify, timedOut, workVars, depVars, closerVars>>
-----------------------------------------------------------------------------
(* Run.                                                                    *)

NotifyContext ==
    /\ phase = "notify"
    /\ phase' = "serve"
    /\ notify' = TRUE
    /\ UNCHANGED <<signals, timedOut, workVars, depVars, closerVars>>

\* SIGINT or SIGTERM: caught, or the end of the process.
Signal ==
    /\ Alive /\ signals < 2
    /\ signals' = signals + 1
    /\ phase' = IF notify THEN phase ELSE "killed"
    /\ UNCHANGED <<notify, timedOut, workVars, depVars, closerVars>>

\* The goroutine of ListenAndServe; its failure is logged and nothing else.
Listen ==
    /\ phase = "serve" /\ listener = "off"
    /\ listener' \in {"on", "failed"}
    /\ UNCHANGED <<procVars, request, socket, depVars, closerVars>>

\* A version of StopNotify that goes straight to CloseAll.
StopNotifyUndrained ==
    /\ phase = "serve" /\ signals > 0
    /\ notify' = FALSE
    /\ phase' = "closeAll"
    /\ listener' = "closed"
    /\ UNCHANGED <<signals, timedOut, request, socket, depVars, closerVars>>

\* <-ctx.Done(), stop(): from here on a signal kills.  Shutdown closes the
\* listener; a ListenAndServe that comes later returns ErrServerClosed.
StopNotify ==
    /\ phase = "serve" /\ signals > 0
    /\ notify' = FALSE
    /\ phase' = "drain"
    /\ listener' = "closed"
    /\ UNCHANGED <<signals, timedOut, request, socket, depVars, closerVars>>

\* A connection that was just accepted counts.
Active == \/ \E r \in Requests : request[r] \in {"accepted", "running", "query"}
          \/ \E w \in Sockets : socket[w] \in {"accepted", "upgrading"}

\* Shutdown has seen no active connection.
Drained ==
    /\ phase = "drain" /\ ~Active
    /\ phase' = "closeAll"
    /\ UNCHANGED <<signals, notify, timedOut, workVars, depVars, closerVars>>

\* A version of DrainTimeout for a context without a deadline.
DrainTimeoutNever == FALSE /\ UNCHANGED vars

\* ShutdownTimeout has passed.
DrainTimeout ==
    /\ phase = "drain" /\ Active
    /\ phase' = "closeAll"
    /\ timedOut' = TRUE
    /\ UNCHANGED <<signals, notify, workVars, depVars, closerVars>>

\* CloseAll up to the first function; main is its only caller.
CloseAll ==
    /\ phase = "closeAll"
    /\ Registry!CloseAll("main") \/ Registry!RunOnce("main") \/ Registry!Snapshot("main")
    /\ UNCHANGED <<procVars, workVars, depVars>>

CloseGrpc ==
    /\ phase = "closeAll"
    /\ Registry!RunFunc("main") /\ closed' = Append(closed, "grpc client")
    /\ grpcConn' = "closed"
    /\ UNCHANGED <<procVars, workVars, pool>>

\* Storage.Close: the pool hands out no more connections ...
PoolCloses ==
    /\ phase = "closeAll" /\ caller["main"] = "close"
    /\ todo # <<>> /\ todo[Len(todo)] = "storage"
    /\ pool = "open"
    /\ pool' = "closing"
    /\ UNCHANGED <<procVars, workVars, grpcConn, closerVars>>

\* A version of CloseStorage for a pool that closes the connections in use.
CloseStorageAtOnce ==
    /\ phase = "closeAll" /\ pool = "closing"
    /\ Registry!RunFunc("main") /\ closed' = Append(closed, "storage")
    /\ failed' = failed
    /\ pool' = "closed"
    /\ UNCHANGED <<procVars, workVars, grpcConn>>

\* ... and Close waits, whatever CloseTimeout says, until it has all of them
\* back.  It returns no error.
CloseStorage ==
    /\ phase = "closeAll" /\ pool = "closing"
    /\ \A r \in Requests : request[r] # "query"
    /\ Registry!RunFunc("main") /\ closed' = Append(closed, "storage")
    /\ failed' = failed
    /\ pool' = "closed"
    /\ UNCHANGED <<procVars, workVars, grpcConn>>

\* CloseAll returns, and with it Run and main.
MainReturns ==
    /\ phase = "closeAll"
    /\ Registry!Return("main")
    /\ phase' = "returned"
    /\ UNCHANGED <<signals, notify, timedOut, workVars, depVars>>
-----------------------------------------------------------------------------
(* What the server is doing meanwhile.                                     *)

Accept ==
    /\ Alive /\ listener = "on"
    /\ \/ \E r \in Requests : /\ request[r] = "none"
                              /\ request' = [request EXCEPT ![r] = "accepted"]
                              /\ UNCHANGED socket
       \/ \E w \in Sockets : /\ socket[w] = "none"
                             /\ socket' = [socket EXCEPT ![w] = "accepted"]
                             /\ UNCHANGED request
    /\ UNCHANGED <<procVars, listener, depVars, closerVars>>

\* A connection without a request ends; Shutdown closes it when it has waited
\* some time for one.
HangUp ==
    /\ Alive
    /\ \/ \E r \in Requests : /\ request[r] = "accepted"
                              /\ request' = [request EXCEPT ![r] = "done"]
                              /\ UNCHANGED socket
       \/ \E w \in Sockets : /\ socket[w] = "accepted"
                             /\ socket' = [socket EXCEPT ![w] = "gone"]
                             /\ UNCHANGED request
    /\ UNCHANGED <<procVars, listener, depVars, closerVars>>

\* The request is read, also when the listener is closed by now.
Arrive(r) ==
    /\ Alive /\ request[r] = "accepted"
    /\ request' = [request EXCEPT ![r] = "running"]
    /\ UNCHANGED <<procVars, listener, socket, depVars, closerVars>>

\* The handler gets a connection, for a statement or a transaction.
Acquire(r) ==
    /\ Alive /\ request[r] = "running" /\ pool = "open"
    /\ request' = [request EXCEPT ![r] = "query"]
    /\ UNCHANGED <<procVars, listener, socket, depVars, closerVars>>

Release(r) ==
    /\ Alive /\ request[r] = "query"
    /\ request' = [request EXCEPT ![r] = "running"]
    /\ UNCHANGED <<procVars, listener, socket, depVars, closerVars>>

\* The handler answers; without a connection it answers with an error.
Answer(r) ==
    /\ Alive /\ request[r] = "running"
    /\ request' = [request EXCEPT ![r] = "done"]
    /\ UNCHANGED <<procVars, listener, socket, depVars, closerVars>>

\* GET /api/ws is a request ...
Upgrade(w) ==
    /\ Alive /\ socket[w] = "accepted"
    /\ socket' = [socket EXCEPT ![w] = "upgrading"]
    /\ UNCHANGED <<procVars, listener, request, depVars, closerVars>>

\* ... until its connection is hijacked, or refused.
Hijack(w) ==
    /\ Alive /\ socket[w] = "upgrading"
    /\ socket' = [socket EXCEPT ![w] = "serving"]
    /\ UNCHANGED <<procVars, listener, request, depVars, closerVars>>

UpgradeFails(w) ==
    /\ Alive /\ socket[w] = "upgrading"
    /\ socket' = [socket EXCEPT ![w] = "gone"]
    /\ UNCHANGED <<procVars, listener, request, depVars, closerVars>>

\* The client goes; its handler is one the server does not wait for.
SocketEnds(w) ==
    /\ Alive /\ socket[w] = "serving"
    /\ socket' = [socket EXCEPT ![w] = "gone"]
    /\ UNCHANGED <<procVars, listener, request, depVars, closerVars>>
-----------------------------------------------------------------------------
Main ==
    \/ InitStorage \/ InitRouter \/ NotifyContext \/ StopNotify
    \/ Drained \/ DrainTimeout
    \/ CloseAll \/ CloseGrpc \/ PoolCloses \/ CloseStorage \/ MainReturns

Work ==
    \/ Accept \/ HangUp
    \/ \E r \in Requests : Arrive(r) \/ Acquire(r) \/ Release(r) \/ Answer(r)
    \/ \E w \in Sockets : Upgrade(w) \/ Hijack(w) \/ UpgradeFails(w) \/ SocketEnds(w)

Ended == Over /\ UNCHANGED vars

Next == Main \/ InitFails \/ Signal \/ Listen \/ Work \/ Ended

Spec == Init /\ [][Next]_vars

(***************************************************************************)
(* main is scheduled and its timers fire.  A request gives its connection  *)
(* back, because queries end (AuthService, RequestsTerminate): Close waits *)
(* for it and CloseTimeout does not help.  Nothing else is assumed of      *)
(* handlers, and nothing of WebSocket connections.                         *)
(***************************************************************************)
Fairness == WF_vars(Main) /\ \A r \in Requests : WF_vars(Release(r))

FairSpec == Spec /\ Fairness
-----------------------------------------------------------------------------
\* What a handler needs is closed only when the server takes no more requests
\* and those it had are answered or have outlived ShutdownTimeout (Run:
\* Shutdown before CloseAll).
ClosedAfterDraining ==
    grpcConn = "closed" \/ pool \in {"closing", "closed"} =>
        listener = "closed" /\ (timedOut \/ ~Active)

\* When main returns no statement or transaction is cut off, not even of a
\* request that Shutdown did not wait for (Storage.Close).
NoQueryCutOff == phase = "returned" => \A r \in Requests : request[r] # "query"

\* The gRPC client, which was built last, is closed first, and main does not
\* return before both are closed (di.go, closer.go).
ClosedInOrder ==
    /\ pool \in {"closing", "closed"} => grpcConn = "closed"
    /\ phase = "returned" => grpcConn = "closed" /\ pool = "closed"

\* A signal ends the process, wherever requests and WebSocket connections are
\* and when the server never listened, as long as the queries of requests end
\* (Run).
SignalEnds == signals > 0 ~> Over
=============================================================================
