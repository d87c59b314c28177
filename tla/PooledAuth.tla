----------------------------- MODULE PooledAuth -----------------------------
(***************************************************************************)
(* AuthService over a connection pool of MaxConns connections              *)
(* (internal/storage/storage.go).  WithTx takes a connection with Begin    *)
(* and keeps it while it waits for row locks, until Commit or Rollback; a  *)
(* statement outside a transaction takes one from the pool for itself, and *)
(* GetQuerier gives a statement inside one the connection it has.          *)
(*                                                                         *)
(* A step is a step of AuthService whose request has its connection, or    *)
(* Begin, which AuthService does not see.                                  *)
(***************************************************************************)
EXTENDS AuthService

CONSTANT MaxConns

ASSUME MaxConnsAssumption == MaxConns \in Nat \ {0}

VARIABLE conns      \* the requests whose transaction holds a connection

pooledVars == <<vars, conns>>

PooledInit == Init /\ conns = {}

Free == Cardinality(conns) < MaxConns

\* A version of OnPool in which CreateRefreshToken is called with the context
\* of the request instead of that of the transaction.
OnPoolWithInsert == {"idle", "createUser", "registerTokens", "loginTokens", "insert"}

\* The steps whose statement runs on the pool (GetQuerier without a transaction).
OnPool == {"idle", "createUser", "registerTokens", "loginTokens"}

\* The statement of r has a connection to run on.
Connected(r) ==
    /\ pc[r] \in OnPool => Free
    /\ pc[r] \in InTx \ {"rollback"} => r \in conns
-----------------------------------------------------------------------------
\* The statement of GetByEmail, in RegisterUser and Login.
PooledLookup(r) ==
    /\ Connected(r)
    /\ \E u \in Users : RegisterLookup(r, u) \/ Login(r, u)
    /\ UNCHANGED conns

\* VerifyRefreshToken needs no connection.
PooledVerify(r) ==
    /\ \E t \in Tokens : RefreshVerify(r, t)
    /\ UNCHANGED conns

Begin(r) ==
    /\ pc[r] = "select" /\ r \notin conns
    /\ Free
    /\ conns' = conns \cup {r}
    /\ UNCHANGED vars

\* The request gives up in Begin: its context is cancelled or Begin fails.
BeginFails(r) ==
    /\ pc[r] = "select" /\ r \notin conns
    /\ TxFails(r)
    /\ UNCHANGED conns

\* A version of PooledStatement whose deferred Rollback releases the rows and
\* keeps the connection.
PooledStatementLeaks(r) ==
    /\ Connected(r)
    /\ Statement(r)
    /\ conns' = IF pc[r] = "commit" /\ pc'[r] \notin InTx THEN conns \ {r} ELSE conns

\* Any other statement.  Commit and Rollback give the connection back.
PooledStatement(r) ==
    /\ Connected(r)
    /\ Statement(r)
    /\ conns' = IF pc'[r] \in InTx THEN conns ELSE conns \ {r}

PooledNext ==
    \/ \E r \in Requests : \/ PooledLookup(r) \/ PooledVerify(r)
                           \/ Begin(r) \/ BeginFails(r) \/ PooledStatement(r)
    \/ \E t \in Tokens : Expire(t) /\ UNCHANGED conns

PooledSpec == PooledInit /\ [][PooledNext]_pooledVars
-----------------------------------------------------------------------------
\* A connection is given back on every way out of WithTx, and a transaction
\* that has locked rows or waits for one has its connection (WithTx).
ConnectionsReturned ==
    /\ \A r \in conns : pc[r] \in InTx
    /\ \A t \in Tokens : rowLock[t] # Nil => rowLock[t] \in conns
    /\ Cardinality(conns) <= MaxConns

\* When the pool is empty, some request that holds a connection waits neither
\* for a row nor for a second connection: a reuse detection and refreshes
\* that have taken every connection do not block themselves (auth.go:258).
EmptyPoolDrains ==
    ~Free => \E r \in conns : pc[r] \notin OnPool /\ \A q \in Requests \ {r} : ~WaitsFor(r, q)
=============================================================================
