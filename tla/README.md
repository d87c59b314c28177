# voice-chat-api in TLA+

voice-chat-api is the HTTP and WebSocket front of a voice chat. It registers users and
keeps their sessions alive with rotating refresh tokens (PostgreSQL), and it relays WebRTC
signaling between WebSocket clients and an SFU (gRPC). This directory holds TLA+ modules
of both halves and of the process around them, the TLC instances that check them, and
proofs for TLAPS.

## 1. The system

| Component | State | Operations | Talks to |
|---|---|---|---|
| `services/auth.go` AuthService | none of its own | RegisterUser, Login, Refresh, CreateNewTokens | repositories, transactor, jwt |
| `repositories`, `storage/transactor.go`, migration | tables `users`, `tokens`; row locks; open transactions | GetByEmail, Create, GetByHashForUpdate, ChangeStatus, ChangeFamilyStatus, WithTx | PostgreSQL |
| `lib/jwt` | none | create and verify access, refresh and reconnect tokens | all |
| `handlers/user.go`, `token.go` | none | Register, Login, Refresh | AuthService |
| `handlers/ws.go` WSHandler | goroutines readPump, writePump per connection | Handle, six message handlers | signaling service, Client |
| `models/client.go` Client | stream slot, `streamInitMu`, `reconnecting`, `Send`, `Done`, PeerID, SessionID | Enqueue, Get/Set/TakeSignalStream, Start/FinishReconnect | |
| `grpc/signaling` Service | `peers`; goroutines readLoop (per stream) and reconnectLoop | Create/Join/Resume/LeaveSession, SetOffer/Answer/Candidate | SFU, Client |
| SFU (external) | sessions, members, streams | CreateSession, JoinSession, SignalPeer, LeaveSession | |
| `storage/storage.go` | the connection pool | NewStorage, Close | PostgreSQL |
| `closer` | list of close functions, `once` | Add, CloseAll | |
| `app`, `cmd/api` | the process: dependencies, HTTP server, signals | initDeps, Run | closer, pool, gRPC connection |
| `middlewares` | none | AuthMiddleware | jwt |
| `config`, `cmd/migrator`, `dto`, `errors`, `logger` | none that changes | | |

What is hard in it:

* **Concurrent refreshes.** Two requests present one refresh token, or a spent one, while
  others of the family are in flight. Correctness hangs on `FOR UPDATE`, on the order of
  statements in one transaction, and on what a rollback takes with it.
* **Failure between statements.** Every statement, the commit and the answer may fail, and
  a commit may succeed without the service hearing of it.
* **Three kinds of goroutine on one Client.** The handler, the readers of its present and
  former streams and a reconnect loop open, use, reset and replace its stream. There are
  two mutexes and a flag, and some fields are read without any.
* **Calls without a deadline.** Only LeaveSession has one. A request waits for the SFU in
  readPump itself, under a context that ends when readPump does.
* **Resumption.** A second connection takes over the peer id of the first while the first
  is still ending or reconnecting.
* **Two ledgers of membership.** The SFU has peers in sessions; the service knows a session
  and a peer id per connection. Calls that fail after they took effect, second joins and
  resumptions pull the two apart.
* **One bounded queue, many senders.** Answers and signaling messages share `Client.Send`.
  A full queue, a slow client and the end of the connection meet in three `select`s.
* **Bounded connections.** A refresh holds a pooled connection while it waits for a row.
* **Time.** Pongs are noticed only while readPump reads; `exp` is rounded and
  `expires_at` is not.
* **The end.** LeaveSession must run and must leave nothing behind whatever the others do;
  on a signal, what requests use must outlive them.

What makes each part correct: a family of tokens has one active token at most; a token is
spent exactly when its successor is stored; a client's token exists; transactions do not
deadlock; requests end. A connection has at most one stream, opened by one thread at a time; a
lost stream is replaced; no stream or registration outlives its connection; the registry finds
the connection that resumed a peer last, and the SFU has it in its session. A client gets its
answers and messages in order and without gaps; a live client is kept as long as readPump
keeps up with it and a vanished one dropped. A token opens one door, for its time. A signal
ends the process after its requests.

`PROJECT.json` lists every hazard with its line and the property that watches it.

## 2. The modules

| Module | Models |
|---|---|
| `TokenFamilies` | abstract: what the token store promises, in two actions |
| `AuthService` | `services/auth.go` over repositories and transactor |
| `PooledAuth` (extends AuthService) | the same over `MaxConns` connections (`storage`, `GetQuerier`) |
| `StreamSlots` | abstract: what the SFU is promised about a connection's streams |
| `Signaling` | `grpc/signaling/signaling.go`, stream part of `models/client.go`, life of a connection in `handlers/ws.go` |
| `ClientQueue` | `Client.Enqueue`, `readPump`, `writePump`, and `readLoop` as a sender |
| `KeepAlive` | pings, pongs and the read deadline of `handlers/ws.go`, in discrete time |
| `JwtTokens` | `lib/jwt` and the doors its tokens open (middleware, Refresh, ResumeSession) |
| `Closer` | `closer/closer.go` |
| `Shutdown` (instantiates Closer) | `cmd/api`, `app`: initDeps, Run, and the work a signal meets |
| `AuthServiceProofs` | theorems about AuthService and PooledAuth |
| `SignalingProofs`, `ClientQueueProofs`, `KeepAliveProofs`, `JwtTokensProofs`, `CloserProofs`, `ShutdownProofs` | theorems about the module of that name |
| `MCAuth`, `MCSignaling`, ... | instances for TLC: symmetry, one user, which readers are the connection's own |

Definitions named "A version of X that ..." stand before X. They say what a plausible
slip in that code would look like, and each property is known to notice one of them.

### AuthService

One step per SQL statement; a request is a program counter with the locals of its Go
function. Outside WithTx a statement commits at once. Inside it, what the transaction has
written stays with the request (`marked`, `new`) and its row locks in `rowLock` until
`Commit` or `Rollback`. A token string, its SHA-256 and its row are one value, because the
string carries a fresh UUID; a family is named by its first token.

| Code | Definition |
|---|---|
| RegisterUser: GetByEmail, Create | `RegisterLookup`, `CreateUser`, `CreateUserConflict` |
| Login, and CreateNewTokens outside a transaction | `Login`, `CreateNewTokens` |
| Refresh: VerifyRefreshToken and Begin | `RefreshVerify` |
| GetByHashForUpdate and the checks on the row | `SelectForUpdate`, `Verdict` |
| ChangeFamilyStatus (a snapshot, then row by row in any order) and ErrTokenAlreadyRotated | `ReuseSnapshot`, `RotateFamilyRow`, `ReuseRejected` |
| MarkRefreshTokenAsRotated, CreateNewTokens in the transaction | `MarkRotated`, `InsertSuccessor` |
| tx.Commit, the deferred tx.Rollback | `Commit`, `CommitUnacknowledged`, `Rollback` |
| errors and cancelled requests | `StatementFails`, `TxFails` |
| the HTTP answer | `Respond`, `ResponseLost` |
| JWT `exp`, then `tokens.expires_at` | `Expire` |

PostgreSQL appears as the code relies on it: READ COMMITTED, row locks to the end of the
transaction, and a blocked UPDATE that reads the row again once it gets it. `claims.UserID`
never differs from the row's `user_id` for a token the service has signed, and no code
writes the status `revoked`, so neither check has a branch.

### Signaling

Threads: one handler per connection (readPump serves messages one at a time), one reader
and at most one reconnect loop per stream. A step is a region between two accesses to what
threads share, so check-then-act sequences are two steps (`ResetCheck`, `ResetTake`) and
everything inside one mutex is one.

| Code | Definition |
|---|---|
| readPump takes a message | `Receive` (guard of each request) |
| CreateSession, JoinSession up to the SFU call | `CreateSession`, `JoinSession`, `Call` |
| ... from its answer or its failure on | `Created`, `Joined`, `Bind`, `CallRefused`, `AdmittedUnheard` |
| ResumeSession before and after its JoinSession call | `ResumeSession`, `Rejoined`, `RejoinFails` |
| sendSignalMessage, getOrCreateStream | `SendSignalMessage`, `GetStream`, `SendOk`, `SendError` |
| ensureSignalStream | `Register`, `LockInit`, `Connect`, `ConnectFails`, `Publish` |
| resetSpecificSignalStream | `ResetCheck`, `ResetTake`, `AfterReset` |
| readLoop | `RecvError`, `RecvBackpressured` |
| scheduleReconnect, reconnectLoop | `Schedule`, `StartReconnect`, `LoopTimer`, `LoopStops`, `FinishReconnect` |
| Handle's deferred function, LeaveSession | `CloseDone`, `Unregister`, `Detach`, `LeaveOk`, `LeaveFails` |

A call is out between two steps (`call`, `rejoin`, `connect`, `send`, `leave`): meanwhile the
client may go, and the others run. But for LeaveSession it may never be answered. It takes
effect at the SFU, if it does, at its answer; a call that fails after the SFU has acted (a
lost answer, a deadline) is `AdmittedUnheard`, and `RejoinFails` and `LeaveFails` have both
outcomes. `members` is what these calls have made of the SFU's members. The names of streams
that no thread and no slot can reach any more are used again (`Gone`). SessionID and PeerID
are read without a lock: a read is part of the step that uses it and sees the old or the new
value as the steps interleave. A torn read of a UUID, which the Go memory model allows, is not
modelled, and the two assignments of ResumeSession are one step. Who could see one without the
other is a reader or a loop of a connection that already had a session, which is `rebound`
(below) and excepted by what relates the two.

Five variables are history. `lost`: the connection had a stream and has none. `heir`: the
connection the SFU has let in last as a peer. `unseen`: the memberships no connection knows
of any more, because a call failed that had taken effect, a LeaveSession failed, or SessionID
was overwritten. `split`: the peers one connection has bound to two sessions. `mishap` notes
which of the weaknesses below a connection has met; properties except those connections, so
they say that nothing **else** goes wrong:

* `dropped`: the new stream fails between reconnectLoop's success and FinishReconnect. Its
  reader finds `reconnecting` set and gives up, then the loop ends, and the connection has
  no stream until its client sends something (`signaling.go:390`, `client.go:100`).
* `late`: a reconnect loop that was past its look at Done registers the connection and
  publishes a stream after, or while, LeaveSession takes both away (`signaling.go:305`, `332`).
* `displaced`: another connection that holds the peer id has registered since. registerPeer
  runs first in everything a connection sends, also when its stream is there
  (`signaling.go:254`, `290`, `305`), and in its reconnects: a resumed client whose old
  connection still sends one candidate gets no more messages. It ends when the connection
  itself sends or reconnects. If the other one ends before that, nobody is registered under
  the peer id.
* `rebound`: a second Create, Join or Resume on one connection keeps the stream attached
  to the first session, and a registration under a former peer id is never removed.
* `kicked`: a connection resumes a peer while another is between unregistering it and its
  LeaveSession call, or another that was registered under the peer id unregisters: the
  call removes this one from the session (`signaling.go:142`, `159`).
* `refused`: a ResumeSession whose JoinSession failed; the connection keeps the identity
  without being a member.

Two more weaknesses show in `NoGhostMember` itself. A reconnect token names a session and a
peer. When a connection takes its peer to a second session, the token of the first still
resumes it there; then two connections hold one peer in two sessions, the registry has room
for one of them, and the other ends without leaving (`signaling.go:155`, `528`). And
LeaveSession tells the SFU only if the registration was the connection's own. A `late` loop of
an old connection registers it again under the peer of its heir; when the heir ends nobody
leaves.

The history variables stand in no guard: they change no behaviour.

`StreamSlots` forgets all of this. A connection has a set of open streams, `Open` needs it
to be empty and `Close` empties it. Signaling implements it with the live streams of each
connection; `Connect` is `Open`, a stream that breaks or is cancelled is `Close`, and the
rest stutters.

### PooledAuth

A step is a step of AuthService whose request has its connection (`Connected`), or `Begin`.
The one that WithTx took is kept from `Begin` to the end of `Commit` or `Rollback`; a
statement outside a transaction uses one for its own step and needs one to be free. `OnPool`
says which statements those are; what GetQuerier finds in the context decides. Because every
step but `Begin` is a step of AuthService, and `Begin` changes only `conns`, all that
AuthService promises about safety holds here too (`PoolIsTransparent`). That requests end is
checked without the pool (`auth_liveness`); what the pool could add is a wait that never ends,
and `EmptyPoolDrains` says that there is none: whoever holds the last connections, one of them
can go on and gives its connection back (`ConnectionsReturned`).

### ClientQueue

| Code | Definition |
|---|---|
| Enqueue: the message, the timer, Done | `Accepted`, `Backpressured`, `Closed` |
| readPump reads, serves, answers, replaces an answer by an error, gives up | `ReadMessage`, `Serve`, `Answer`, `AnswerBackpressured`, `ReadFails` |
| Handle's deferred functions | `CloseDone`, `HandleReturns` |
| readLoop and forwardToWebSocket | `Recv`, `Forward`, `ForwardBackpressured`, `ForwardClosed`, `RecvError` |
| writePump | `TakeMessage`, `WriteMessage`, `WriteFails`, `WritePumpDone`, `CloseConn` |

`Foreign` readers belong to a connection that was resumed here: forwardToWebSocket looks the
peer up and may find another connection than the one whose stream it reads, and on a full
queue readLoop closes the latter. Between `ReadMessage` and the answer a request is with the
service (`Serve`), whose SFU call has no deadline: it may never return. For readPump the Done
case of Enqueue is never ready, since it is readPump's own end that closes Done. Messages are
numbers per sender; `wire` and `skipped` are history.

### KeepAlive, JwtTokens

In `KeepAlive` the ticker ticks every `PingPeriod`; the ping is written up to `Lag` later, and
the pong comes up to `RoundTrip` after it. readPump serves the requests of the client in the
order of arrival, so a pong waits behind the requests that came first: `busy` is the time
since readPump last had nothing left to read, a whole backlog of requests and not just one.
Nothing in the code bounds it (an SFU call has no deadline), and nothing in the properties
does: `longest` remembers how far behind readPump has been, and they say what that costs.
With the defaults of 50 and 60 seconds a live client is safe while `longest`, the lag and the
round trip stay below 10 seconds together. `Handle`, `ReadAgain` and `HandlePong` choose
freely between a next request and a pong, so every order of arrival is among them. Time
passes only when nothing has to happen first (`MayWait`).

`JwtTokens` counts in parts of a second: `NumericDate` cuts to seconds, `ExpiresAt` does
not. Refresh verifies the token and reads its row in two steps with time between them.

### Closer, Shutdown

`Closer` has one action per critical section and per closing function. `Shutdown` uses
its `Add`, `RunOnce`, `Snapshot`, `RunFunc` and `Return` for what main does with the registry.
`InitRouter` stands for building the router, which builds the gRPC client. An HTTP request
is `accepted` first: net/http has the connection and may read the request after Shutdown has
closed the listener, and Shutdown waits for it (`HangUp`: no request comes). Then it is
`running`, or in a `query` that holds a pooled connection; a WebSocket is a request until
it is hijacked, and unknown to the server from then on. `PoolCloses` and `CloseStorage` are
pgxpool's Close: no new connections, then wait for those in use.

## 3. What is checked

All runs check for deadlock. `AllGone`, `Returned`, `Ended` and `Down` are the quiet ends of
Signaling and ClientQueue, Closer, Shutdown and KeepAlive; AuthService never stops.

| Run | Instance | Properties | States |
|---|---|---|---|
| `auth_safety` | 1 user, 3 tokens, 3 requests | TypeOK, OneActivePerFamily, HeldTokensStored, OneRegistrationWins, NoWaitCycle, ImplementsFamilies | 242,631 |
| `auth_liveness` | 1 user, 2 tokens, 2 requests, FairSpec | RequestsTerminate | 12,192 |
| `auth_reuse` | 1 user, 2 tokens, 1 request | ReuseRotatesFamily (**violated**) | |
| `signaling_one` | 1 connection, 2 sessions, 3 streams, 3 faults, 3 messages | TypeOK, NoOrphanStream, OneOpens, LossCovered, AttachMatches, OneLoop, ImplementsSlots | 1,045,326 |
| `signaling_resume` | 2 connections of a user, 1 session, 3 streams, 1 fault, 3 messages | HeirReachable, HeirStaysMember, NoGhostMember, GoneLeavesNothing | 1,358,159 |
| `signaling_live` | 1 connection, 1 session, 2 streams, 2 faults, 3 messages, FairSpec | LossRecovered, ConnectionEnds | 109,659 |
| `clientqueue` | 1 own and 1 foreign reader, capacity 2, 2 requests, 2 messages each, FairSpec | TypeOK, AnswersInOrder, ForwardedWithoutGap, AcceptedIsWritten, EndsTogether | 419,910 |
| `pooled` | 1 user, 3 tokens, 3 requests, 2 connections | ConnectionsReturned, EmptyPoolDrains | 422,894 |
| `closer` | 3 functions, 2 callers | ClosedInReverse, ReturnMeansClosed, FailuresReported | 508 |
| `shutdown` | 3 requests, 2 WebSockets, FairSpec | ClosedAfterDraining, NoQueryCutOff, ClosedInOrder, SignalEnds | 112,106 |
| `keepalive` | period 5, wait 12, lag 1, round trip 2, busy up to 6 | LiveKept, VanishedDropped | 51,600 |
| `jwt_tokens` | 2 users, seconds of 3 units, TTLs 2, 5 and 4, 2 tokens, until time 9 | NoCrossUse, NeverPastTTL, UsableForItsTime, StorageOutlivesToken | 738,714 |

**Bounds.** `Tokens` bounds the tokens ever stored: three allow a family of three, or two
families; three requests allow two refreshes and a detection on the same rows. A request that
finds no fresh token can still fail, so no run stops for want of names. `Streams` bounds the
streams in use at once (names are recycled): the present one, a former one whose reader is
still there, and one being opened. `MaxFaults` bounds calls that fail after they took effect,
attempts to open a stream that fail, and broken streams: a stream breaks, the attempt to
replace it fails, and the new one breaks within the window of the old loop. `MaxRequests`
bounds messages: bind, send, and one more. In `signaling_resume` one message binds the first
connection, one resumes it, one is sent by either; its one fault may be a call that fails
after it took effect, a LeaveSession that fails or a stream that breaks. Both connections
belong to one user, since a token of another user is refused and leaves no trace.

In ClientQueue a capacity of two with three senders fills the queue with messages of
different senders in every order; two requests let an answer be given up and the next one
follow. Three requests over two connections empty the pool with one request left outside,
which needs what those inside hold. `MaxConns` of 15 in the configuration differs by number
only. In `KeepAlive` the period, lag and round trip leave 4 of the 12 units of PongWait:
`MaxBusy` of 6 has executions on both sides, and a live client that is dropped at exactly 4.
`JwtTokens` makes tokens at every part of a second, one kind living less than a second.

**Symmetry** is used in runs without liveness only. No action names a particular token,
request, user, stream, session or connection. The history and the peer ids are named by
connections and permute with them.

**Reached, not vacuous.** The mishaps are reached in these instances: a lost stream nobody
replaces, a stream published after LeaveSession, and a resumed connection the registry
has lost to a plain send of the old one. That the second look of ensureSignalStream
(`signaling.go:326`) never finds a stream is part of `OneOpens`: it is dead code as long as
only ensureSignalStream publishes.

**Fairness.** AuthService: statements that wait for no lock return (weak fairness). A waiter
gets a row that is released again and again (strong fairness), since PostgreSQL queues waiters
in order. No step that fails a waiting request is assumed: no lock timeout is configured.
Signaling: each goroutine is scheduled, timers fire, and a thread that waits for nothing goes
on (weak fairness per goroutine); LeaveSession has a timeout. No other call to the SFU is
assumed to return (`InCall`): CreateSession, JoinSession and the streams have no deadline, and
Handle's context, which the first two run under, ends only when Handle does. So
`ConnectionEnds` and `LossRecovered` state their one exception, a call that is out for ever.
Nothing is assumed of clients, of faults or of full queues. ClientQueue: the pumps and every
Enqueue go on (weak fairness; writes, reads and Enqueue have deadlines, LeaveSession a
timeout), but `Serve` need never happen: no client has to send, no SFU has to answer or break.
Shutdown: main goes on and its timers fire. A query ends, which is what `auth_liveness` shows
of transactions and what Storage.Close depends on, since CloseTimeout bounds nothing; no
handler, no accepted connection and no WebSocket has to end.

### Finding

`auth_reuse`: Refresh answers a reused token by rotating the active tokens of its family
(`services/auth.go:276`) and then returns ErrTokenAlreadyRotated from the function it
gave WithTx. WithTx rolls back on any error (`storage/transactor.go:47`, `53`), so the
family stays active. The unit test "rotated token rotates family and returns domain error"
(`auth_test.go:778`) does not see this: its transaction provider has no rollback.

## 4. What is proved

Every invariant of the passing runs, and both refinements, are theorems for every value of
the constants. What a theorem assumes about them:

| Module of the theorems | Assumptions |
|---|---|
| `TokenFamilies`, `CloserProofs`, `ShutdownProofs` | none |
| `AuthServiceProofs` | `NilAssumption`; for the pool `MaxConnsAssumption`: there is a connection |
| `SignalingProofs` | `NilAssumption`; `BoundsAssumption`: the bounds are natural numbers |
| `ClientQueueProofs` | `ReadersAssumption`: own and foreign readers differ; `SizesAssumption`: the channel has room for a message, the bounds are natural numbers |
| `KeepAliveProofs` | `TimesAssumption`: natural numbers, the period is not zero |
| `JwtTokensProofs` | `SecondAssumption`, `TTLAssumption`: natural numbers, a second is not zero |

`MaxFaults`, `MaxRequests`, `MaxMessages` and `MaxBusy` bound the behaviours TLC explores. A safety
theorem that holds for all their values holds without them, because every behaviour is
finite up to the step that would violate it.

In all of these modules the theorem is a consequence of an inductive invariant, which TLC
had checked on the instances of section 3 (that of Signaling also with two connections in two
sessions, which showed the `split` weakness) before it was proved.

### AuthService and PooledAuth

| Theorem | States | Rests on |
|---|---|---|
| `AtMostOneActive` (TokenFamilies) | families are rooted and have one active token at most | itself inductive |
| `TypeCorrect` | `[](TypeOK /\ LocalsSet)` | |
| `TransactionsIsolated` | `[]TxInv` | TypeCorrect |
| `Refinement` | `Spec => ImplementsFamilies` | TransactionsIsolated |
| `NoDoubleRotation` | `[]OneActivePerFamily` | Refinement, AtMostOneActive |
| `HeldTokensCommitted` | `[]HeldTokensStored` | TransactionsIsolated |
| `DeadlockFree` | `[]NoWaitCycle` | TransactionsIsolated, NoDoubleRotation, the wait lemmas |
| `RegistrationUnique` | `[]OneRegistrationWins` | TypeCorrect |
| `PoolIsTransparent` | `PooledSpec => Spec` | |
| `PooledRefinement` | `PooledSpec => ImplementsFamilies` | PoolIsTransparent, Refinement |
| `ConnectionsComeBack` | `[]ConnectionsReturned` | PoolIsTransparent, TypeCorrect |
| `EmptyPoolMoves` | `[]EmptyPoolDrains` | ConnectionsComeBack, DeadlockFree |

That a commit is one abstract step does not follow from types: one has to know that the rows a
transaction has marked are still what it read. `LocalsSet` says which locals are set at which
statement. `TxInv` adds that a transaction has locked every row it has marked and the row it
refreshes, which is active until it commits, and that the token it inserts is reserved: no
row, no other request. It includes HeldTokensStored. With them `ApplyTx` is `Rotate` of
TokenFamilies; CreateNewTokens is `Start`; all else stutters. One active token per family is
then a fact about the abstract store alone.

`NoWaitCycle` is about sets of requests, of any size. `WaitOrder` says what can wait for
what. A request that waits in GetByHashForUpdate holds no row. A reuse detection has one
row at most to visit, because its family has one active token at most, and while it waits
it holds only its own row, which is rotated. So nobody a detection waits for waits for
anything, and a chain of waits is short and ends. The lemmas say how a step changes
the wait graph (it removes waits, or adds them at a node nobody waits for, or that waits
for nothing).

With the pool there are two things to wait for. Only a request with a connection has locked
a row, so the requests that hold the connections of an empty pool wait only for each other;
by DeadlockFree one of them waits for nobody, and no statement of a transaction needs
another connection.

### Signaling

The invariant has layers, each proved from those before it; a layer begins with lemmas that
say what any step may do to the state it is about ("effects"), so that most actions are
dealt with once.

| Theorem | States | Invariant it adds |
|---|---|---|
| `TypeCorrect` | `[]TypeOK` | `LabelsOK`, `Located`, `Owned`: which code a thread runs, for whom |
| `StreamsAreKept`, `OpensOneByOne` | `[]NoOrphanStream`, `[]OneOpens` | `Slotted` |
| `SlotsImplemented` | `Spec => ImplementsSlots` | (Slotted) |
| `LoopsOneByOne` | `[]OneLoop` | `LoopsCounted` |
| `LossesCovered` | `[]LossCovered` | `BoundUntilGone`, `BoundWhileOpen`, `ReaderThere`, `LostHasNone` |
| `AttachedRight` | `[]AttachMatches` | `AttachingMatches` |
| `GoneLeaves` | `[]GoneLeavesNothing` | `LateNoted`, `Registered`, `GoneInv` |
| `HeirsReachable` | `[]HeirReachable` | `HeirInv` |
| `HeirsStay` | `[]HeirStaysMember` | `ResumedBound`, `KickNoted` |
| `NoGhosts` | `[]NoGhostMember` | `OneSessionEach`, `Unclaimed`, `Kept` |

*Streams.* `Slotted` is the invariant of the slot and its mutex. Who connects or publishes
holds `streamInitMu` and the slot is empty (`MutexHeld`), because nothing but publishing
fills a slot. A stream that is not published is known to its opener alone (`Private`), so
no reset can cancel it. A stream in a slot is its owner's and uncancelled (`CurrentOK`),
what a thread holds is its connection's (`HandsOK`), and a reader that starts a loop returns
(`Succession`). With two live streams of one connection one would have to be published
while the other is current, against MutexHeld: hence the abstract `Open` finds no
stream.

*Loops.* The flag is set if and only if there is one loop (`LoopsCounted`). A connection
that has lost its stream had a reader which saw it (`ReaderThere`); that reader either starts
a loop or finds the flag set, that is, a loop that will try again or is the one
of `dropped`. A session is kept as long as anything works for the connection
(`BoundUntilGone`, `BoundWhileOpen`), so no loop gives up for want of one.

*The end.* What a connection leaves behind can only come from a loop that went on
(`LateNoted`); all other registrations are under the connection's peer id (`Registered`),
which Unregister removes.

*Resumption.* `HeirReachable` is not inductive: between registerPeer and SetSignalStream a
thread works for a connection that is registered but has no stream yet. `HeirInv` covers
it there. A connection becomes the heir when the SFU lets it in, and not before
(`RejoiningIdle`: nothing else works for a connection that is rejoining, unless it is
`rebound`), so a refused resumption makes no heir. Whoever holds the peer id of an heir, and is
on its way to a LeaveSession call, was on it before the resumption or has unregistered that
peer since (`KickNoted`); no other call takes the heir out of its session.

*Membership.* `NoGhostMember` needs to say who will leave (`Keeper`): the connection
registered under the peer, one on its way to register, one that has unregistered and decided
to leave, or a late one. `Kept` gives every membership a keeper. When one connection takes the
registration from another, the membership must be its own: nothing in the system, tokens
included, names two sessions of one peer (`OneSessionEach`), and nobody knows the peer id of a
connection not bound yet (`Unclaimed`). Where a connection has bound its peer to two sessions
that fails, and so does the property; that is `split`.

### The others

| Theorem | States | Inductive invariant |
|---|---|---|
| ClientQueue: `TypeCorrect`, `AnswersArrive`, `MessagesArrive` | `[]TypeOK`, `[]AnswersInOrder`, `[]ForwardedWithoutGap` | `QueueInv` |
| KeepAlive: `AliveIsKept`, `VanishedIsDropped` | `[]LiveKept`, `[]VanishedDropped` | `KeepAliveInv` |
| JwtTokens: `RightDoor`, `OverInTime`, `RoundingCosts`, `RowOutlivesToken` | `[]NoCrossUse`, `[]NeverPastTTL`, `[]UsableForItsTime`, `[]StorageOutlivesToken` | `TokenInv` |
| Closer: `BackwardsOnce`, `ClosedOnReturn`, `ReportedOnce` | `[]ClosedInReverse`, `[]ReturnMeansClosed`, `[]FailuresReported` | `CloserInv` |
| Shutdown: `CloserUsed` | `Spec => Registry!Spec` | |
| Shutdown: `DrainedBeforeClose`, `QueriesFinish`, `DependenciesInOrder` | `[]ClosedAfterDraining`, `[]NoQueryCutOff`, `[]ClosedInOrder` | `ShutdownInv` |

*ClientQueue.* The order of the wire follows from the order of the whole line: what is
written, what writePump holds and what is queued. While writePump writes, the line numbers
each sender's messages without a gap up to the last one sent (`LineNumbered`), and a
prefix of such a line is one too, which is what stays when the connection breaks. A reader
that has given up a message (`skipped`) is excepted; its stream is being closed.

*KeepAlive.* `PongsInTime`: wherever the next pong is (under way, asked for by a ping still to
be written, or by one still to come), it arrives within `PingPeriod + Lag + RoundTrip` of the
last time the deadline was moved, and once it is unread that time is over by no more than
readPump is behind. So a deadline that runs out on a living client gives a lower bound for
`longest`. Several pings may be out; that the oldest is answered in time suffices.
`SilenceBounded` is the other direction. Both hold for a PingPeriod shorter than the lag, too.

*JwtTokens.* All there is to know of a token is that it was made as its kind is (`Made`).
The lemma `Rounding` bounds what NewNumericDate cuts off, for seconds of any number of units.

*Closer.* `ClosingBackwards`: what has been taken is a prefix of what was added, `todo` is what
is left of it and `closed` the rest backwards. `OneRuns` is sync.Once. `ErrorsKept`: one caller's
result is all failures, the others' are empty.

*Shutdown.* The state of pool and gRPC client is a function of where main is in CloseAll
(`Closing`), and the pool's connections are back when pgxpool's Close returns.

### Only model-checked

The liveness properties `RequestsTerminate`, `LossRecovered`, `ConnectionEnds`,
`AcceptedIsWritten`, `EndsTogether` and `SignalEnds`: fairness is out of the prover's reach.
`ReuseRotatesFamily` is false (section 3).

In ClientQueue, that messages are in order is stated by `Numbered`, position by position,
and not by filtering the wire for a sender: a filter is defined by recursion, about which
nothing can be proved here.

## 5. What is left out

* What is in a message: decoding, validation, the mapping of offers and candidates to SFU
  messages, error texts. A message is a step of its sender. The length of the reconnect
  delay: the timer of a loop may fire at any time.
* What the SFU does of its own accord. `members` records only what the service's calls make.
* The end of hijacked WebSockets at shutdown: nothing waits for them, and their
  LeaveSession is cut off with the process. No doc or code promises otherwise.
* A lost answer after a commit (`auth.go:304`): the steps are there, but the code has no
  retry, so there is no promise to check; nor is there for a registration whose first
  token fails (`auth.go:171`).
* Configuration, migrator, DTOs and logging keep no state that changes. Repository queries
  nobody calls are not modelled. The HTTP read and write timeouts are not either: they end
  a connection, which is `ResponseLost` and `UpgradeFails`.

## 6. Plan

Done: every component with state that changes is modelled and checked (sections 2 and 3),
and every invariant and refinement is proved (section 4). Left:

1. The theorems of CloserProofs for the registry of Shutdown, by instantiation through
   `CloserUsed`.
2. An abstract specification of membership (a peer is in one session, for one connection) that
   Signaling implements as long as no history variable notes a weakness.
3. Shorter proofs in SignalingProofs, where several actions repeat one argument.
