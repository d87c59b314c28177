----------------------------- MODULE AuthService -----------------------------
(***************************************************************************)
(* Registration, login and refresh (internal/services/auth.go) as          *)
(* concurrent HTTP requests over the users and tokens tables, reached      *)
(* through the repositories and the transactor (internal/storage).         *)
(*                                                                         *)
(* Every SQL statement is one step.  Outside WithTx a statement commits by *)
(* itself.  Inside WithTx (only Refresh uses it) the writes of a request   *)
(* stay in marked and new until Commit, and the rows it has locked stay in *)
(* rowLock until Commit or Rollback.  PostgreSQL is modelled as the code   *)
(* relies on it: READ COMMITTED, row locks held to the end of the          *)
(* transaction, and a blocked UPDATE that re-reads the row it waited for.  *)
(*                                                                         *)
(* A refresh token string, its hash and its row are one value: the string  *)
(* carries a fresh UUID.  A family is named by its first token.            *)
(***************************************************************************)
EXTENDS Naturals, FiniteSets

CONSTANTS
    Users,      \* users.id, one per email
    Tokens,     \* refresh tokens; bounds how many are ever stored
    Requests,   \* HTTP requests in flight
    Nil         \* no user, no token, no request

ASSUME NilAssumption == Nil \notin Users \cup Tokens \cup Requests

VARIABLES
    users,      \* registered users (table users)
    status,     \* tokens.status as committed; "absent" without a row
    owner,      \* tokens.user_id
    family,     \* tokens.family_id
    age,        \* 0: valid, 1: JWT exp passed, 2: tokens.expires_at passed too
    rowLock,    \* the request whose transaction has locked the row
    held,       \* refresh tokens that have reached a client
    pc,         \* the next statement of each request
    subject,    \* the user a registration or login works for
    tok,        \* the token a refresh was called with
    new,        \* the token a request has inserted
    marked,     \* rows the open transaction has set to rotated
    todo        \* rows UPDATE ... WHERE family_id has yet to visit

tables  == <<users, status, owner, family>>
locals  == <<pc, subject, tok, new, marked, todo>>
vars    == <<users, status, owner, family, age, rowLock, held,
             pc, subject, tok, new, marked, todo>>

InTx == {"select", "reuse", "rotateFamily", "mark", "insert", "commit",
         "rejectReuse", "rollback"}
Labels == InTx \cup {"idle", "createUser", "registerTokens", "loginTokens", "respond"}

Init ==
    /\ users   = {}
    /\ status  = [t \in Tokens |-> "absent"]
    /\ owner   = [t \in Tokens |-> Nil]
    /\ family  = [t \in Tokens |-> Nil]
    /\ age     = [t \in Tokens |-> 0]
    /\ rowLock = [t \in Tokens |-> Nil]
    /\ held    = {}
    /\ pc      = [r \in Requests |-> "idle"]
    /\ subject = [r \in Requests |-> Nil]
    /\ tok     = [r \in Requests |-> Nil]
    /\ new     = [r \in Requests |-> Nil]
    /\ marked  = [r \in Requests |-> {}]
    /\ todo    = [r \in Requests |-> {}]
-----------------------------------------------------------------------------
Goto(r, label) == pc' = [pc EXCEPT ![r] = label]

\* The handler has returned: the locals of the request are gone.
Finish(r) ==
    /\ Goto(r, "idle")
    /\ subject' = [subject EXCEPT ![r] = Nil]
    /\ tok'     = [tok EXCEPT ![r] = Nil]
    /\ new'     = [new EXCEPT ![r] = Nil]
    /\ marked'  = [marked EXCEPT ![r] = {}]
    /\ todo'    = [todo EXCEPT ![r] = {}]

ReleaseRows(r) == rowLock' = [t \in Tokens |-> IF rowLock[t] = r THEN Nil ELSE rowLock[t]]

\* No row has this id and no open transaction is inserting it.
Fresh(n) == status[n] = "absent" /\ \A r \in Requests : new[r] # n

\* What Refresh decides on reading the row it has locked.
Verdict(t) ==
    CASE status[t] = "rotated"               -> "reuse"
      [] status[t] = "active" /\ age[t] < 2  -> "mark"
      [] OTHER                               -> "rollback"
-----------------------------------------------------------------------------
\* RegisterUser: GetByEmail has found no such user.
RegisterLookup(r, u) ==
    /\ pc[r] = "idle"
    /\ u \notin users
    /\ Goto(r, "createUser")
    /\ subject' = [subject EXCEPT ![r] = u]
    /\ UNCHANGED <<tables, age, rowLock, held, tok, new, marked, todo>>

\* A version of CreateUser for a table without UNIQUE (email).
CreateUserUnchecked(r) ==
    /\ pc[r] = "createUser"
    /\ users' = users \cup {subject[r]}
    /\ Goto(r, "registerTokens")
    /\ UNCHANGED <<status, owner, family, age, rowLock, held, subject, tok, new, marked, todo>>

\* userProvider.Create: the row is inserted and committed on its own.
CreateUser(r) ==
    /\ pc[r] = "createUser"
    /\ subject[r] \notin users
    /\ users' = users \cup {subject[r]}
    /\ Goto(r, "registerTokens")
    /\ UNCHANGED <<status, owner, family, age, rowLock, held, subject, tok, new, marked, todo>>

\* userProvider.Create: unique violation, ErrUserAlreadyExists.
CreateUserConflict(r) ==
    /\ pc[r] = "createUser"
    /\ subject[r] \in users
    /\ Finish(r)
    /\ UNCHANGED <<tables, age, rowLock, held>>

\* Login: the user exists and the password matches.
Login(r, u) ==
    /\ pc[r] = "idle"
    /\ u \in users
    /\ Goto(r, "loginTokens")
    /\ subject' = [subject EXCEPT ![r] = u]
    /\ UNCHANGED <<tables, age, rowLock, held, tok, new, marked, todo>>

\* CreateNewTokens outside a transaction: a new family and its first token.
CreateNewTokens(r, n) ==
    /\ pc[r] \in {"registerTokens", "loginTokens"}
    /\ Fresh(n)
    /\ status' = [status EXCEPT ![n] = "active"]
    /\ owner'  = [owner EXCEPT ![n] = subject[r]]
    /\ family' = [family EXCEPT ![n] = n]
    /\ new'    = [new EXCEPT ![r] = n]
    /\ Goto(r, "respond")
    /\ UNCHANGED <<users, age, rowLock, held, subject, tok, marked, todo>>

\* A version of StatementFails after which the handler answers with "".
StatementFailsUnnoticed(r) ==
    /\ pc[r] \in {"createUser", "registerTokens", "loginTokens"}
    /\ Goto(r, "respond")
    /\ UNCHANGED <<tables, age, rowLock, held, subject, tok, new, marked, todo>>

\* A statement outside a transaction fails: 500, what is committed stays.
StatementFails(r) ==
    /\ pc[r] \in {"createUser", "registerTokens", "loginTokens"}
    /\ Finish(r)
    /\ UNCHANGED <<tables, age, rowLock, held>>
-----------------------------------------------------------------------------
\* Refresh: VerifyRefreshToken accepts the string and WithTx begins.
RefreshVerify(r, t) ==
    /\ pc[r] = "idle"
    /\ t \in held
    /\ age[t] = 0
    /\ Goto(r, "select")
    /\ tok' = [tok EXCEPT ![r] = t]
    /\ UNCHANGED <<tables, age, rowLock, held, subject, new, marked, todo>>

\* A version of SelectForUpdate that reads with GetByHash.
SelectUnlocked(r) ==
    /\ pc[r] = "select"
    /\ Goto(r, Verdict(tok[r]))
    /\ UNCHANGED <<tables, age, rowLock, held, subject, tok, new, marked, todo>>

\* GetByHashForUpdate: waits for the row lock, then reads the latest row.
SelectForUpdate(r) ==
    /\ pc[r] = "select"
    /\ rowLock[tok[r]] = Nil
    /\ rowLock' = IF status[tok[r]] = "absent" THEN rowLock
                                               ELSE [rowLock EXCEPT ![tok[r]] = r]
    /\ Goto(r, Verdict(tok[r]))
    /\ UNCHANGED <<tables, age, held, subject, tok, new, marked, todo>>

\* A version of ReuseSnapshot whose UPDATE has lost AND status = 'active'.
ReuseSnapshotAnyStatus(r) ==
    /\ pc[r] = "reuse"
    /\ todo' = [todo EXCEPT ![r] = {t \in Tokens : status[t] # "absent"
                                                     /\ family[t] = family[tok[r]]}]
    /\ Goto(r, "rotateFamily")
    /\ UNCHANGED <<tables, age, rowLock, held, subject, tok, new, marked>>

\* ChangeFamilyStatus starts: the rows its snapshot selects.
ReuseSnapshot(r) ==
    /\ pc[r] = "reuse"
    /\ todo' = [todo EXCEPT ![r] = {t \in Tokens : status[t] = "active"
                                                     /\ family[t] = family[tok[r]]}]
    /\ Goto(r, "rotateFamily")
    /\ UNCHANGED <<tables, age, rowLock, held, subject, tok, new, marked>>

\* ChangeFamilyStatus visits a row: waits for its lock, re-reads it, and
\* updates it if it is still active.
RotateFamilyRow(r, t) ==
    /\ pc[r] = "rotateFamily"
    /\ t \in todo[r]
    /\ rowLock[t] \in {Nil, r}
    /\ rowLock' = [rowLock EXCEPT ![t] = r]
    /\ marked'  = IF status[t] = "active" THEN [marked EXCEPT ![r] = @ \cup {t}] ELSE marked
    /\ todo'    = [todo EXCEPT ![r] = @ \ {t}]
    /\ UNCHANGED <<tables, age, held, pc, subject, tok, new>>

\* ChangeFamilyStatus is done and Refresh returns ErrTokenAlreadyRotated.
ReuseRejected(r) ==
    /\ pc[r] = "rotateFamily"
    /\ todo[r] = {}
    /\ Goto(r, "rejectReuse")
    /\ UNCHANGED <<tables, age, rowLock, held, subject, tok, new, marked, todo>>
-----------------------------------------------------------------------------
\* A version of MarkRotated that runs on the pool and not on the transaction.
MarkRotatedOnPool(r) ==
    /\ pc[r] = "mark"
    /\ status' = [status EXCEPT ![tok[r]] = "rotated"]
    /\ Goto(r, "insert")
    /\ UNCHANGED <<users, owner, family, age, rowLock, held, subject, tok, new, marked, todo>>

\* MarkRefreshTokenAsRotated: ChangeStatus on the locked row.
MarkRotated(r) ==
    /\ pc[r] = "mark"
    /\ marked' = [marked EXCEPT ![r] = {tok[r]}]
    /\ Goto(r, "insert")
    /\ UNCHANGED <<tables, age, rowLock, held, subject, tok, new, todo>>

\* CreateNewTokens inside the transaction: the successor, not yet visible.
InsertSuccessor(r, n) ==
    /\ pc[r] = "insert"
    /\ Fresh(n)
    /\ new' = [new EXCEPT ![r] = n]
    /\ Goto(r, "commit")
    /\ UNCHANGED <<tables, age, rowLock, held, subject, tok, marked, todo>>

\* The writes of the transaction become the committed rows.
ApplyTx(r) ==
    /\ status' = [t \in Tokens |-> IF t = new[r] THEN "active"
                                   ELSE IF t \in marked[r] THEN "rotated" ELSE status[t]]
    /\ owner'  = [owner EXCEPT ![new[r]] = owner[tok[r]]]
    /\ family' = [family EXCEPT ![new[r]] = family[tok[r]]]
    /\ ReleaseRows(r)

\* tx.Commit returns nil.
Commit(r) ==
    /\ pc[r] = "commit"
    /\ ApplyTx(r)
    /\ Goto(r, "respond")
    /\ UNCHANGED <<users, age, held, subject, tok, new, marked, todo>>

\* tx.Commit returns an error although the server has committed.
CommitUnacknowledged(r) ==
    /\ pc[r] = "commit"
    /\ ApplyTx(r)
    /\ Finish(r)
    /\ UNCHANGED <<users, age, held>>

\* A version of TxFails that ignores the error of tx.Commit.
TxFailsUnnoticed(r) ==
    /\ pc[r] \in InTx \ {"rejectReuse", "rollback"}
    /\ Goto(r, IF pc[r] = "commit" THEN "respond" ELSE "rollback")
    /\ UNCHANGED <<tables, age, rowLock, held, subject, tok, new, marked, todo>>

\* A statement of the transaction, or its commit, fails (or the client has
\* gone and the request context is cancelled): WithTx is about to roll back.
TxFails(r) ==
    /\ pc[r] \in InTx \ {"rejectReuse", "rollback"}
    /\ Goto(r, "rollback")
    /\ UNCHANGED <<tables, age, rowLock, held, subject, tok, new, marked, todo>>

\* A version of Rollback without the deferred tx.Rollback.
RollbackForgotten(r) ==
    /\ pc[r] \in {"rollback", "rejectReuse"}
    /\ Finish(r)
    /\ UNCHANGED <<tables, age, rowLock, held>>

\* fn returned an error: the deferred tx.Rollback discards every write.
Rollback(r) ==
    /\ pc[r] \in {"rollback", "rejectReuse"}
    /\ ReleaseRows(r)
    /\ Finish(r)
    /\ UNCHANGED <<tables, age, held>>
-----------------------------------------------------------------------------
\* The handler has written the token pair and the client has read it.
Respond(r) ==
    /\ pc[r] = "respond"
    /\ held' = held \cup {new[r]}
    /\ Finish(r)
    /\ UNCHANGED <<tables, age, rowLock>>

\* NewAccessToken fails, the process dies or the client is gone by now.
ResponseLost(r) ==
    /\ pc[r] = "respond"
    /\ Finish(r)
    /\ UNCHANGED <<tables, age, rowLock, held>>

\* Time passes one of the two expiry dates of a token.  The JWT date is cut
\* to whole seconds, so it is never the later one.
Expire(t) ==
    /\ status[t] # "absent"
    /\ age[t] < 2
    /\ age' = [age EXCEPT ![t] = @ + 1]
    /\ UNCHANGED <<tables, rowLock, held, locals>>

Statement(r) ==
    \/ CreateUser(r) \/ CreateUserConflict(r)
    \/ \E n \in Tokens : CreateNewTokens(r, n)
    \/ StatementFails(r)
    \/ SelectForUpdate(r)
    \/ ReuseSnapshot(r) \/ \E t \in Tokens : RotateFamilyRow(r, t)
    \/ ReuseRejected(r)
    \/ MarkRotated(r) \/ \E n \in Tokens : InsertSuccessor(r, n)
    \/ Commit(r) \/ CommitUnacknowledged(r) \/ TxFails(r) \/ Rollback(r)
    \/ Respond(r) \/ ResponseLost(r)

Arrival(r) ==
    \/ \E u \in Users : RegisterLookup(r, u) \/ Login(r, u)
    \/ \E t \in Tokens : RefreshVerify(r, t)

Next ==
    \/ \E r \in Requests : Arrival(r) \/ Statement(r)
    \/ \E t \in Tokens : Expire(t)

Spec == Init /\ [][Next]_vars

(***************************************************************************)
(* A statement that waits for no lock returns, with a result or an error.  *)
(* PostgreSQL queues the waiters of a row in order, so a transaction that  *)
(* waits for a row that is released again and again gets it.  Nothing is   *)
(* assumed of TxFails while a request waits: no lock_timeout is set.       *)
(***************************************************************************)
Fairness ==
    \A r \in Requests :
        /\ WF_vars(pc[r] \notin {"select", "rotateFamily"} /\ Statement(r))
        /\ SF_vars(SelectForUpdate(r))
        /\ SF_vars(\E t \in Tokens : RotateFamilyRow(r, t))
        /\ WF_vars(ReuseRejected(r))

FairSpec == Spec /\ Fairness
-----------------------------------------------------------------------------
TypeOK ==
    /\ users \subseteq Users
    /\ status  \in [Tokens -> {"absent", "active", "rotated"}]
    /\ owner   \in [Tokens -> Users \cup {Nil}]
    /\ family  \in [Tokens -> Tokens \cup {Nil}]
    /\ age     \in [Tokens -> 0..2]
    /\ rowLock \in [Tokens -> Requests \cup {Nil}]
    /\ held \subseteq Tokens
    /\ pc      \in [Requests -> Labels]
    /\ subject \in [Requests -> Users \cup {Nil}]
    /\ tok     \in [Requests -> Tokens \cup {Nil}]
    /\ new     \in [Requests -> Tokens \cup {Nil}]
    /\ marked  \in [Requests -> SUBSET Tokens]
    /\ todo    \in [Requests -> SUBSET Tokens]

Families == INSTANCE TokenFamilies

\* Whatever the requests interleave and wherever they fail, the committed
\* tokens change only as TokenFamilies allows: a refresh spends a token and
\* stores its successor in one step or not at all (services/auth.go Refresh
\* inside storage/transactor.go WithTx), and nothing becomes active again.
ImplementsFamilies == Families!Spec

\* Two concurrent refreshes of one token do not both get a successor
\* (GetByHashForUpdate, repositories/token.go).
OneActivePerFamily == Families!OneActivePerFamily

\* A refresh token a client has seen is a committed row, so the client's
\* next refresh finds it (Refresh answers only after tx.Commit).
HeldTokensStored == \A t \in held : status[t] # "absent"

\* Of the registrations of one email that all passed the lookup, one at most
\* goes on to create tokens (RegisterUser; UNIQUE (email) in the migration).
OneRegistrationWins ==
    \A r, q \in Requests :
        pc[r] = "registerTokens" /\ pc[q] = "registerTokens" /\ subject[r] = subject[q]
            => r = q

\* r cannot go on before q ends its transaction.
WaitsFor(r, q) ==
    \/ pc[r] = "select" /\ rowLock[tok[r]] = q
    \/ pc[r] = "rotateFamily" /\ \E t \in todo[r] : rowLock[t] = q

\* No deadlock in the database: whatever rows a refresh (one row) and reuse
\* detections (their own row, then those of the family, in any order) have
\* locked, no set of requests waits within itself (auth.go:259 and 276).
NoWaitCycle ==
    \A S \in (SUBSET Requests) \ {{}} : \E r \in S : \A q \in S \ {r} : ~WaitsFor(r, q)

\* Every request is answered or dropped in the end, also those that queue
\* for a row another transaction has locked (the deferred tx.Rollback).
RequestsTerminate == \A r \in Requests : pc[r] # "idle" ~> pc[r] = "idle"

\* What the unit test of Refresh says of a reused token: when the request
\* that detected it ends, no token of the family is active.
ReuseRotatesFamily ==
    [][ \A r \in Requests : pc[r] = "rejectReuse" /\ pc'[r] = "idle" =>
            \A t \in Tokens : family[t] = family[tok[r]] => status'[t] # "active" ]_vars
=============================================================================
