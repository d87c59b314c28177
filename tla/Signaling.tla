------------------------------ MODULE Signaling ------------------------------
(***************************************************************************)
(* The signaling service (internal/grpc/signaling/signaling.go) between    *)
(* WebSocket connections (models.Client, handlers/ws.go) and the SFU: how  *)
(* a connection binds to a session, gets its gRPC signal stream, loses it, *)
(* gets a new one, is resumed by another connection, and ends.             *)
(*                                                                         *)
(* The goroutines are threads.  A connection has one handler, readPump,    *)
(* that serves its messages one by one and ends with LeaveSession.  A      *)
(* stream has one reader, readLoop, and a reader starts one reconnectLoop  *)
(* at most, so readers and loops are named by their stream.  A step is a   *)
(* region between two accesses to what the threads share.                  *)
(*                                                                         *)
(* The SFU is external: it answers a call or does not, and a stream may    *)
(* break at any time.  A call has no deadline, except LeaveSession: while  *)
(* it is out the thread waits for the answer.  What a call does at the SFU *)
(* is placed at its answer.                                                *)
(***************************************************************************)
EXTENDS Naturals, FiniteSets

CONSTANTS
    Clients,    \* connections; a peer id is named by the one it was drawn for
    Sessions,   \* session ids
    Streams,    \* gRPC streams; the name of one that is gone is used again
    UserOf,     \* the authenticated user of each connection
    MaxFaults,  \* bounds the calls that fail and the streams that break
    MaxRequests,\* bounds the messages all clients send
    Nil         \* uuid.Nil, a nil stream, no client, no thread

ASSUME BoundsAssumption == MaxFaults \in Nat /\ MaxRequests \in Nat

VARIABLES
    peerOf,         \* Client.PeerID
    sessionOf,      \* Client.SessionID
    connUp,         \* the WebSocket is open
    ended,          \* Client.Done is closed
    current,        \* Client.signalStream (and signalCancel)
    initMu,         \* Client.streamInitMu: the thread that holds it
    reconnecting,   \* Client.reconnecting
    registry,       \* Service.peers
    rooms,          \* sessions created at the SFU
    members,        \* the SFU's members, as the service's calls make them: <<session, peer>>
    tokens,         \* reconnect tokens issued: <<user, session, peer>>
    link,           \* state of each stream: idle, live, broken or cancelled
    owner,          \* the connection a stream was opened for
    attachedAs,     \* <<session, peer>> of the attach handshake
    pc, hand,       \* per thread: next step, stream in a local variable
    task,           \* what the handler runs ensureSignalStream for
    requests,       \* how many messages the clients have sent
    faults,         \* how many faults have happened
    lost,           \* history: the connection had a stream and has none
    heir,           \* history: the last connection to have been let in as a peer
    mishap,         \* history: the known weaknesses a connection has met
    unseen,         \* history: memberships the service has lost sight of
    split           \* history: peers one connection has bound to two sessions

clientVars == <<peerOf, sessionOf, connUp, ended>>
streamVars == <<current, initMu, reconnecting>>
sfuVars    == <<link, owner, attachedAs>>
rooming    == <<rooms, members, unseen, split>>
dirVars    == <<registry, tokens, rooming>>
threadVars == <<pc, hand, task>>
bounded    == <<requests, faults>>
history    == <<lost, heir, mishap>>
vars == <<clientVars, streamVars, sfuVars, dirVars, threadVars, bounded, history>>

Handler(c) == <<"handler", c>>
Reader(s)  == <<"reader", s>>
Loop(s)    == <<"loop", s>>
Handlers == {Handler(c) : c \in Clients}
Readers  == {Reader(s) : s \in Streams}
Loops    == {Loop(s) : s \in Streams}
Threads  == Handlers \cup Readers \cup Loops

ASSUME NilAssumption == Nil \notin Clients \cup Sessions \cup Streams \cup Threads

ClientOf(th) == IF th \in Handlers THEN th[2] ELSE owner[th[2]]

Ensuring == {"register", "lock", "connect", "publish"}

Init ==
    /\ peerOf = [c \in Clients |-> c]
    /\ sessionOf = [c \in Clients |-> Nil]
    /\ connUp = [c \in Clients |-> TRUE]
    /\ ended = [c \in Clients |-> FALSE]
    /\ current = [c \in Clients |-> Nil]
    /\ initMu = [c \in Clients |-> Nil]
    /\ reconnecting = [c \in Clients |-> FALSE]
    /\ registry = [p \in Clients |-> Nil]
    /\ rooms = {} /\ members = {} /\ tokens = {}
    /\ link = [s \in Streams |-> "idle"]
    /\ owner = [s \in Streams |-> Nil]
    /\ attachedAs = [s \in Streams |-> Nil]
    /\ pc = [th \in Threads |-> IF th \in Handlers THEN "idle" ELSE "dead"]
    /\ hand = [th \in Threads |-> Nil]
    /\ task = [c \in Clients |-> Nil]
    /\ requests = 0 /\ faults = 0
    /\ lost = [c \in Clients |-> FALSE]
    /\ heir = [p \in Clients |-> p]
    /\ mishap = [c \in Clients |-> {}]
    /\ unseen = {} /\ split = {}
-----------------------------------------------------------------------------
Goto(th, label) == pc' = [pc EXCEPT ![th] = label]

\* An SFU call or a stream fails.
Fault == faults < MaxFaults /\ faults' = faults + 1 /\ UNCHANGED requests

\* readPump has read the next message of the client.
Receive(c) ==
    /\ pc[Handler(c)] = "idle" /\ connUp[c]
    /\ requests < MaxRequests /\ requests' = requests + 1 /\ UNCHANGED faults

\* Note a weakness a connection has met, or that it has got over it.
Note(c, m)  == mishap' = [mishap EXCEPT ![c] = @ \cup {m}]
NoteIf(cond, c, m) == IF cond THEN Note(c, m) ELSE UNCHANGED mishap

\* The stream is over and no thread can name it any more.
Gone(s) ==
    /\ link[s] # "live"
    /\ pc[Reader(s)] = "dead" /\ pc[Loop(s)] = "dead"
    /\ \A c \in Clients : current[c] # s
    /\ \A th \in Threads : hand[th] # s

\* A version of After whose reconnect loop tries only once.
AfterGivesUp(th, ok) ==
    CASE th \in Loops -> "finish"
      [] th \in Handlers /\ ~ok -> "idle"
      [] OTHER -> IF task[th[2]] = "bind" THEN "token" ELSE "get"

\* Where a thread goes on after ensureSignalStream.
After(th, ok) ==
    CASE th \in Loops /\ ok  -> "finish"
      [] th \in Loops /\ ~ok -> "wait"
      [] th \in Handlers /\ ~ok -> "idle"
      [] OTHER -> IF task[th[2]] = "bind" THEN "token" ELSE "get"

Return(th, ok) ==
    /\ Goto(th, After(th, ok))
    /\ task' = IF th \in Handlers /\ ~ok THEN [task EXCEPT ![th[2]] = Nil] ELSE task

\* TakeSignalStream, then cancel and CloseSend on what it returned.
TakeAndCancel(c) ==
    /\ current' = [current EXCEPT ![c] = Nil]
    /\ link' = IF current[c] = Nil THEN link ELSE [link EXCEPT ![current[c]] = "cancelled"]
-----------------------------------------------------------------------------
(* Binding a connection to a session.                                      *)

Membership(c) == <<sessionOf[c], peerOf[c]>>
Held(c) == {Membership(c)} \cap members

\* The SFU takes a peer into a session, or hears that it leaves it.
Admit(m) == members' = members \cup {m}
Expel(m) == members' = members \ {m}

\* The SFU has accepted peerOf[c] into sid; SessionID is set and the handler
\* goes on to ensureSignalStream.  A session the connection was in before is
\* not left.
Bind(c, sid) ==
    LET m == <<sid, peerOf[c]>>
    IN  /\ sessionOf' = [sessionOf EXCEPT ![c] = sid]
        /\ task' = [task EXCEPT ![c] = "bind"]
        /\ Admit(m)
        /\ unseen' = (unseen \cup Held(c)) \ {m}
        /\ split' = split \cup {p \in {peerOf[c]} : sessionOf[c] \notin {Nil, sid}}
        /\ NoteIf(sessionOf[c] # Nil, c, "rebound")
        /\ Goto(Handler(c), "register")
        /\ UNCHANGED <<peerOf, connUp, ended, streamVars, sfuVars, registry, tokens,
                       hand, lost, heir>>

\* The handler calls the SFU.
Call(c, kind) ==
    /\ task' = [task EXCEPT ![c] = kind]
    /\ Goto(Handler(c), "call")
    /\ UNCHANGED <<clientVars, streamVars, sfuVars, dirVars, hand, history>>

\* Which session it is, drawn here or named by the client, comes with the
\* answer.
CreateSession(c) == Receive(c) /\ Call(c, "create")
JoinSession(c)   == Receive(c) /\ Call(c, "join")

Created(c, sid) ==
    /\ pc[Handler(c)] = "call" /\ task[c] = "create"
    /\ sid \notin rooms
    /\ rooms' = rooms \cup {sid}
    /\ Bind(c, sid)
    /\ UNCHANGED bounded

Joined(c, sid) ==
    /\ pc[Handler(c)] = "call" /\ task[c] = "join"
    /\ sid \in rooms
    /\ Bind(c, sid)
    /\ UNCHANGED <<rooms, bounded>>

\* The call returns an error and nothing has happened at the SFU.
CallRefused(c) ==
    /\ pc[Handler(c)] = "call"
    /\ task' = [task EXCEPT ![c] = Nil]
    /\ Goto(Handler(c), "idle")
    /\ UNCHANGED <<clientVars, streamVars, sfuVars, dirVars, hand, bounded, history>>

\* The SFU has done what it was asked for and the call returns an error: the
\* connection does not know that it is in a session.
AdmittedUnheard(c, sid) ==
    /\ pc[Handler(c)] = "call"
    /\ (task[c] = "create") <=> (sid \notin rooms)
    /\ Fault
    /\ rooms' = rooms \cup {sid}
    /\ Admit(<<sid, peerOf[c]>>)
    /\ unseen' = unseen \cup {<<sid, peerOf[c]>>}
    /\ task' = [task EXCEPT ![c] = Nil]
    /\ Goto(Handler(c), "idle")
    /\ UNCHANGED <<clientVars, streamVars, sfuVars, registry, tokens, split, hand, history>>

\* ResumeSession up to the SFU call: the claims are taken over before it.
ResumeSession(c, token) ==
    LET p == token[3]
        leaving == \E o \in Clients : /\ peerOf[o] = p /\ o # c
                                      /\ pc[Handler(o)] \in {"detachAndLeave", "leave"}
    IN  /\ Receive(c)
        /\ token \in tokens
        /\ token[1] = UserOf[c]
        /\ peerOf' = [peerOf EXCEPT ![c] = p]
        /\ sessionOf' = [sessionOf EXCEPT ![c] = token[2]]
        /\ unseen' = unseen \cup Held(c)
        /\ mishap' = [mishap EXCEPT ![c] =
                         @ \cup {m \in {"rebound"} : sessionOf[c] # Nil}
                           \cup {m \in {"kicked"} : leaving}]
        /\ Goto(Handler(c), "rejoin")
        /\ UNCHANGED <<connUp, ended, streamVars, sfuVars, registry, tokens, rooms, members,
                       split, hand, task, lost, heir>>

\* The SFU lets the connection in: from now on it is the peer.
Rejoined(c) ==
    /\ pc[Handler(c)] = "rejoin"
    /\ task' = [task EXCEPT ![c] = "bind"]
    /\ Admit(Membership(c))
    /\ unseen' = unseen \ {Membership(c)}
    /\ heir' = [heir EXCEPT ![peerOf[c]] = c]
    /\ mishap' = [mishap EXCEPT ![c] = @ \ {"refused"}]
    /\ Goto(Handler(c), "register")
    /\ UNCHANGED <<clientVars, streamVars, sfuVars, registry, tokens, rooms, split, hand,
                   bounded, lost>>

\* JoinSession fails, before or after the SFU has acted: the connection keeps
\* the identity it has claimed.
RejoinFails(c) ==
    /\ pc[Handler(c)] = "rejoin"
    /\ Fault
    /\ \/ UNCHANGED <<members, unseen>>
       \/ Admit(Membership(c)) /\ unseen' = unseen \cup {Membership(c)}
    /\ Note(c, "refused")
    /\ Goto(Handler(c), "idle")
    /\ UNCHANGED <<clientVars, streamVars, sfuVars, registry, tokens, rooms, split, hand, task,
                   lost, heir>>

\* newReconnectToken, and the handler answers.
IssueToken(c) ==
    /\ pc[Handler(c)] = "token"
    /\ tokens' = tokens \cup {<<UserOf[c], sessionOf[c], peerOf[c]>>}
    /\ Goto(Handler(c), "idle")
    /\ task' = [task EXCEPT ![c] = Nil]
    /\ UNCHANGED <<clientVars, streamVars, sfuVars, registry, rooming, hand, bounded, history>>
-----------------------------------------------------------------------------
(* Sending (SetOffer, SetAnswer, SetCandidate).                            *)

\* A version of SendSignalMessage without the "already bound" check.
SendSignalMessageAnySession(c, sid) ==
    /\ Receive(c)
    /\ sessionOf' = [sessionOf EXCEPT ![c] = sid]
    /\ task' = [task EXCEPT ![c] = "send"]
    /\ Goto(Handler(c), "register")
    /\ UNCHANGED <<peerOf, connUp, ended, streamVars, sfuVars, dirVars, hand, history>>

\* sendSignalMessage, getOrCreateStream: a connection without a session takes
\* the one of the message; a message for another session is refused.
SendSignalMessage(c, sid) ==
    /\ Receive(c)
    /\ sessionOf[c] \in {Nil, sid}
    /\ sessionOf' = [sessionOf EXCEPT ![c] = sid]
    /\ task' = [task EXCEPT ![c] = "send"]
    /\ Goto(Handler(c), "register")
    /\ UNCHANGED <<peerOf, connUp, ended, streamVars, sfuVars, dirVars, hand, history>>

\* getOrCreateStream after ensureSignalStream: the stream may be gone again.
GetStream(c) ==
    /\ pc[Handler(c)] = "get"
    /\ hand' = [hand EXCEPT ![Handler(c)] = current[c]]
    /\ Goto(Handler(c), IF current[c] = Nil THEN "idle" ELSE "send")
    /\ task' = [task EXCEPT ![c] = IF current[c] = Nil THEN Nil ELSE @]
    /\ UNCHANGED <<clientVars, streamVars, sfuVars, dirVars, bounded, history>>

SendOk(c) ==
    /\ pc[Handler(c)] = "send"
    /\ link[hand[Handler(c)]] = "live"
    /\ Goto(Handler(c), "idle")
    /\ hand' = [hand EXCEPT ![Handler(c)] = Nil]
    /\ task' = [task EXCEPT ![c] = Nil]
    /\ UNCHANGED <<clientVars, streamVars, sfuVars, dirVars, bounded, history>>

SendError(c) ==
    /\ pc[Handler(c)] = "send"
    /\ link[hand[Handler(c)]] # "live"
    /\ Goto(Handler(c), "check")
    /\ UNCHANGED <<clientVars, streamVars, sfuVars, dirVars, hand, task, bounded, history>>

\* What follows resetSpecificSignalStream: the reader schedules a reconnect,
\* the sender tries once more or gives up.
AfterReset(th) ==
    IF th \in Readers
    THEN Goto(th, "schedule") /\ UNCHANGED <<hand, task>>
    ELSE /\ Goto(th, IF task[th[2]] = "send" THEN "register" ELSE "idle")
         /\ task' = [task EXCEPT ![th[2]] = IF @ = "send" THEN "resend" ELSE Nil]
         /\ hand' = [hand EXCEPT ![th] = Nil]

\* A version of ResetCheck after which a reader whose stream somebody else
\* has reset returns at once.
ResetCheckReturns(th) ==
    /\ pc[th] = "check"
    /\ CASE current[ClientOf(th)] = hand[th] -> Goto(th, "take") /\ UNCHANGED <<hand, task>>
         [] th \in Readers /\ current[ClientOf(th)] # hand[th] ->
                /\ Goto(th, "dead")
                /\ hand' = [hand EXCEPT ![th] = Nil]
                /\ UNCHANGED task
         [] OTHER -> AfterReset(th)
    /\ UNCHANGED <<clientVars, streamVars, sfuVars, dirVars, bounded, history>>

\* resetSpecificSignalStream: compare ...
ResetCheck(th) ==
    /\ pc[th] = "check"
    /\ IF current[ClientOf(th)] = hand[th]
       THEN Goto(th, "take") /\ UNCHANGED <<hand, task>>
       ELSE AfterReset(th)
    /\ UNCHANGED <<clientVars, streamVars, sfuVars, dirVars, bounded, history>>

\* A version of ResetTake that does not cancel what it has taken.
ResetTakeUncancelled(th) ==
    /\ pc[th] = "take"
    /\ current' = [current EXCEPT ![ClientOf(th)] = Nil]
    /\ lost' = [lost EXCEPT ![ClientOf(th)] = @ \/ current[ClientOf(th)] # Nil]
    /\ AfterReset(th)
    /\ UNCHANGED <<clientVars, initMu, reconnecting, sfuVars, dirVars, bounded, heir, mishap>>

\* ... then resetSignalStream takes whatever is there by now.
ResetTake(th) ==
    /\ pc[th] = "take"
    /\ TakeAndCancel(ClientOf(th))
    /\ lost' = [lost EXCEPT ![ClientOf(th)] = @ \/ current[ClientOf(th)] # Nil]
    /\ AfterReset(th)
    /\ UNCHANGED <<clientVars, initMu, reconnecting, owner, attachedAs, dirVars, bounded,
                   heir, mishap>>
-----------------------------------------------------------------------------
(* ensureSignalStream, run by a handler or by a reconnect loop.            *)

\* registerPeer, first of all and also when the stream is there: whatever a
\* connection sends, and each of its reconnects, takes the peer id, also from
\* the connection that has resumed the peer.
Register(th) ==
    LET c == ClientOf(th)
        p == peerOf[c]
    IN  /\ pc[th] = "register"
        /\ registry' = [registry EXCEPT ![p] = c]
        /\ mishap' = IF heir[p] = c THEN [mishap EXCEPT ![c] = @ \ {"displaced"}]
                     ELSE [mishap EXCEPT ![heir[p]] = @ \cup {"displaced"}]
        /\ Goto(th, "lock")
        /\ UNCHANGED <<clientVars, streamVars, sfuVars, tokens, rooming, hand, task, bounded,
                       lost, heir>>

\* A version of LockInit without the mutex.
LockInitUnlocked(th) ==
    /\ pc[th] = "lock"
    /\ IF current[ClientOf(th)] # Nil
       THEN Return(th, TRUE)
       ELSE Goto(th, "connect") /\ UNCHANGED task
    /\ UNCHANGED <<clientVars, streamVars, sfuVars, dirVars, hand, bounded, history>>

\* LockSignalStreamInit; a stream that is already there will do.
LockInit(th) ==
    LET c == ClientOf(th)
    IN  /\ pc[th] = "lock"
        /\ initMu[c] = Nil
        /\ IF current[c] # Nil
           THEN Return(th, TRUE) /\ UNCHANGED initMu
           ELSE /\ Goto(th, "connect")
                /\ initMu' = [initMu EXCEPT ![c] = th]
                /\ UNCHANGED task
        /\ UNCHANGED <<clientVars, current, reconnecting, sfuVars, dirVars, hand, bounded,
                       history>>

\* A version of Connect whose handshake does not look for a session.
ConnectUnbound(th, s) ==
    LET c == ClientOf(th)
    IN  /\ pc[th] = "connect"
        /\ Gone(s)
        /\ link' = [link EXCEPT ![s] = "live"]
        /\ owner' = [owner EXCEPT ![s] = c]
        /\ attachedAs' = [attachedAs EXCEPT ![s] = <<sessionOf[c], peerOf[c]>>]
        /\ hand' = [hand EXCEPT ![th] = s]
        /\ Goto(th, "publish")
        /\ UNCHANGED <<clientVars, streamVars, dirVars, task, bounded, history>>

\* SignalPeer and the attach handshake.
Connect(th, s) ==
    LET c == ClientOf(th)
    IN  /\ pc[th] = "connect"
        /\ sessionOf[c] # Nil
        /\ Gone(s)
        /\ link' = [link EXCEPT ![s] = "live"]
        /\ owner' = [owner EXCEPT ![s] = c]
        /\ attachedAs' = [attachedAs EXCEPT ![s] = <<sessionOf[c], peerOf[c]>>]
        /\ hand' = [hand EXCEPT ![th] = s]
        /\ Goto(th, "publish")
        /\ UNCHANGED <<clientVars, streamVars, dirVars, task, bounded, history>>

\* A version of ConnectFails that returns without unlocking.
ConnectFailsLocked(th) ==
    /\ pc[th] = "connect"
    /\ IF sessionOf[ClientOf(th)] = Nil THEN UNCHANGED bounded ELSE Fault
    /\ Return(th, FALSE)
    /\ UNCHANGED <<clientVars, streamVars, sfuVars, dirVars, hand, history>>

\* SignalPeer or the handshake fails, or there is no session to attach to.
ConnectFails(th) ==
    /\ pc[th] = "connect"
    /\ IF sessionOf[ClientOf(th)] = Nil THEN UNCHANGED bounded ELSE Fault
    /\ initMu' = [initMu EXCEPT ![ClientOf(th)] = Nil]
    /\ Return(th, FALSE)
    /\ UNCHANGED <<clientVars, current, reconnecting, sfuVars, dirVars, hand, history>>

\* Look again, SetSignalStream, start readLoop, UnlockSignalStreamInit.
Publish(th) ==
    LET c == ClientOf(th)
        s == hand[th]
    IN  /\ pc[th] = "publish"
        /\ IF current[c] # Nil
           THEN /\ link' = [link EXCEPT ![s] = "cancelled"]
                /\ Goto(th, After(th, TRUE))
                /\ hand' = [hand EXCEPT ![th] = Nil]
                /\ UNCHANGED <<current, lost, mishap>>
           ELSE /\ current' = [current EXCEPT ![c] = s]
                /\ pc' = [pc EXCEPT ![th] = After(th, TRUE), ![Reader(s)] = "recv"]
                /\ hand' = [hand EXCEPT ![th] = Nil, ![Reader(s)] = s]
                /\ lost' = [lost EXCEPT ![c] = FALSE]
                /\ mishap' = [mishap EXCEPT ![c] = @ \ {"dropped"}]
                /\ UNCHANGED link
        /\ initMu' = [initMu EXCEPT ![c] = Nil]
        /\ UNCHANGED <<clientVars, reconnecting, owner, attachedAs, dirVars, task, bounded, heir>>
-----------------------------------------------------------------------------
(* readLoop and reconnectLoop.                                             *)

\* The stream breaks, on the way or at the SFU.
StreamBreaks(s) ==
    /\ link[s] = "live"
    /\ Fault
    /\ link' = [link EXCEPT ![s] = "broken"]
    /\ UNCHANGED <<clientVars, streamVars, owner, attachedAs, dirVars, threadVars, history>>

\* Recv returns an error.
RecvError(s) ==
    /\ pc[Reader(s)] = "recv"
    /\ link[s] # "live"
    /\ Goto(Reader(s), "check")
    /\ UNCHANGED <<clientVars, streamVars, sfuVars, dirVars, hand, task, bounded, history>>

\* forwardToWebSocket: the queue of the peer is full, so the reader closes
\* its own connection and leaves the stream as it is.
RecvBackpressured(s) ==
    /\ pc[Reader(s)] = "recv"
    /\ connUp' = [connUp EXCEPT ![owner[s]] = FALSE]
    /\ Goto(Reader(s), "dead")
    /\ hand' = [hand EXCEPT ![Reader(s)] = Nil]
    /\ UNCHANGED <<peerOf, sessionOf, ended, streamVars, sfuVars, dirVars, task, bounded, history>>

\* scheduleReconnect: nothing to do for a connection that is unbound or over.
Schedule(s) ==
    LET c == owner[s]
        goOn == sessionOf[c] # Nil /\ ~ended[c]
    IN  /\ pc[Reader(s)] = "schedule"
        /\ Goto(Reader(s), IF goOn THEN "start" ELSE "dead")
        /\ hand' = [hand EXCEPT ![Reader(s)] = IF goOn THEN @ ELSE Nil]
        /\ UNCHANGED <<clientVars, streamVars, sfuVars, dirVars, task, bounded, history>>

Finishing(c) == \E s \in Streams : owner[s] = c /\ pc[Loop(s)] = "finish"

\* A version of StartReconnect that does not look at the flag.
StartReconnectAlways(s) ==
    /\ pc[Reader(s)] = "start"
    /\ pc' = [pc EXCEPT ![Reader(s)] = "dead", ![Loop(s)] = "wait"]
    /\ reconnecting' = [reconnecting EXCEPT ![owner[s]] = TRUE]
    /\ hand' = [hand EXCEPT ![Reader(s)] = Nil]
    /\ UNCHANGED <<clientVars, current, initMu, sfuVars, dirVars, task, bounded, history>>

\* StartReconnect: one loop at a time.  A loop that is about to finish still
\* counts, and the loss this reader reports is then forgotten.
StartReconnect(s) ==
    LET c == owner[s]
    IN  /\ pc[Reader(s)] = "start"
        /\ IF reconnecting[c]
           THEN /\ Goto(Reader(s), "dead")
                /\ NoteIf(Finishing(c) /\ lost[c], c, "dropped")
                /\ UNCHANGED reconnecting
           ELSE /\ pc' = [pc EXCEPT ![Reader(s)] = "dead", ![Loop(s)] = "wait"]
                /\ reconnecting' = [reconnecting EXCEPT ![c] = TRUE]
                /\ UNCHANGED mishap
        /\ hand' = [hand EXCEPT ![Reader(s)] = Nil]
        /\ UNCHANGED <<clientVars, current, initMu, sfuVars, dirVars, task, bounded, lost, heir>>

\* reconnectLoop sees that the connection has left or is over.
LoopStops(s) ==
    /\ pc[Loop(s)] = "wait"
    /\ sessionOf[owner[s]] = Nil \/ ended[owner[s]]
    /\ Goto(Loop(s), "finish")
    /\ UNCHANGED <<clientVars, streamVars, sfuVars, dirVars, hand, task, bounded, history>>

\* The delay is over.  The select may choose it although Done is closed too.
LoopTimer(s) ==
    /\ pc[Loop(s)] = "wait"
    /\ sessionOf[owner[s]] # Nil
    /\ Goto(Loop(s), "register")
    /\ NoteIf(ended[owner[s]], owner[s], "late")
    /\ UNCHANGED <<clientVars, streamVars, sfuVars, dirVars, hand, task, bounded, lost, heir>>

\* The deferred FinishReconnect.
FinishReconnect(s) ==
    /\ pc[Loop(s)] = "finish"
    /\ reconnecting' = [reconnecting EXCEPT ![owner[s]] = FALSE]
    /\ Goto(Loop(s), "dead")
    /\ UNCHANGED <<clientVars, current, initMu, sfuVars, dirVars, hand, task, bounded, history>>
-----------------------------------------------------------------------------
(* The end of a connection (WSHandler.Handle, LeaveSession).               *)

\* The client goes away, or one of the pumps gives the connection up.
ConnectionLost(c) ==
    /\ connUp[c]
    /\ connUp' = [connUp EXCEPT ![c] = FALSE]
    /\ UNCHANGED <<peerOf, sessionOf, ended, streamVars, sfuVars, dirVars, threadVars,
                   bounded, history>>

\* readPump returns and the deferred function closes Done.
CloseDone(c) ==
    /\ pc[Handler(c)] = "idle"
    /\ ~connUp[c]
    /\ ended' = [ended EXCEPT ![c] = TRUE]
    /\ Goto(Handler(c), "unregister")
    /\ NoteIf(\E s \in Streams : owner[s] = c /\ pc[Loop(s)] \in Ensuring, c, "late")
    /\ UNCHANGED <<peerOf, sessionOf, connUp, streamVars, sfuVars, dirVars, hand, task,
                   bounded, lost, heir>>

\* A version of Unregister that deletes whatever entry there is.
UnregisterAny(c) ==
    /\ pc[Handler(c)] = "unregister"
    /\ registry' = [registry EXCEPT ![peerOf[c]] = Nil]
    /\ Goto(Handler(c), IF sessionOf[c] # Nil THEN "detachAndLeave" ELSE "detach")
    /\ UNCHANGED <<clientVars, streamVars, sfuVars, tokens, rooming, hand, task, bounded, history>>

\* unregisterPeerClient: only its own entry.  Other connections that hold the
\* peer id will be thrown out of the session.
Unregister(c) ==
    LET p == peerOf[c]
        mine == registry[p] = c
    IN  /\ pc[Handler(c)] = "unregister"
        /\ registry' = IF mine THEN [registry EXCEPT ![p] = Nil] ELSE registry
        /\ Goto(Handler(c), IF mine /\ sessionOf[c] # Nil THEN "detachAndLeave" ELSE "detach")
        /\ mishap' = [o \in Clients |-> mishap[o] \cup
                         {m \in {"kicked"} : mine /\ o # c /\ peerOf[o] = p}]
        /\ UNCHANGED <<clientVars, streamVars, sfuVars, tokens, rooming, hand, task, bounded,
                       lost, heir>>

\* A version of Detach that a connection another one has resumed skips.
DetachIfRegistered(c) ==
    /\ pc[Handler(c)] \in {"detach", "detachAndLeave"}
    /\ IF pc[Handler(c)] = "detach" THEN UNCHANGED <<current, link>> ELSE TakeAndCancel(c)
    /\ Goto(Handler(c), IF pc[Handler(c)] = "detach" THEN "gone" ELSE "leave")
    /\ UNCHANGED <<clientVars, initMu, reconnecting, owner, attachedAs, dirVars, hand, task,
                   bounded, history>>

\* A version of Detach that does not call the SFU when it finds no stream.
DetachWithoutStream(c) ==
    /\ pc[Handler(c)] \in {"detach", "detachAndLeave"}
    /\ TakeAndCancel(c)
    /\ Goto(Handler(c), IF pc[Handler(c)] = "detach" \/ current[c] = Nil THEN "gone" ELSE "leave")
    /\ UNCHANGED <<clientVars, initMu, reconnecting, owner, attachedAs, dirVars, hand, task,
                   bounded, history>>

\* TakeSignalStream, cancel and CloseSend.
Detach(c) ==
    /\ pc[Handler(c)] \in {"detach", "detachAndLeave"}
    /\ TakeAndCancel(c)
    /\ Goto(Handler(c), IF pc[Handler(c)] = "detach" THEN "gone" ELSE "leave")
    /\ UNCHANGED <<clientVars, initMu, reconnecting, owner, attachedAs, dirVars, hand, task,
                   bounded, history>>

\* The LeaveSession call: SessionID is cleared when it succeeds.
LeaveOk(c) ==
    /\ pc[Handler(c)] = "leave"
    /\ Expel(Membership(c))
    /\ unseen' = unseen \ {Membership(c)}
    /\ sessionOf' = [sessionOf EXCEPT ![c] = Nil]
    /\ Goto(Handler(c), "gone")
    /\ UNCHANGED <<peerOf, connUp, ended, streamVars, sfuVars, registry, tokens, rooms, split,
                   hand, task, bounded, history>>

\* The call fails, before or after the SFU has acted, or takes too long.
LeaveFails(c) ==
    /\ pc[Handler(c)] = "leave"
    /\ Fault
    /\ \/ UNCHANGED members /\ unseen' = unseen \cup Held(c)
       \/ Expel(Membership(c)) /\ unseen' = unseen \ {Membership(c)}
    /\ Goto(Handler(c), "gone")
    /\ UNCHANGED <<clientVars, streamVars, sfuVars, registry, tokens, rooms, split, hand, task,
                   history>>
-----------------------------------------------------------------------------
EnsureStep(th) ==
    \/ Register(th) \/ LockInit(th)
    \/ \E s \in Streams : Connect(th, s)
    \/ ConnectFails(th)
    \/ Publish(th)

Request(c) ==
    \/ CreateSession(c) \/ JoinSession(c)
    \/ \E sid \in Sessions : SendSignalMessage(c, sid)
    \/ \E token \in tokens : ResumeSession(c, token)

\* The SFU answers the call of CreateSession or JoinSession.
Answered(c) ==
    \/ \E sid \in Sessions : Created(c, sid) \/ Joined(c, sid) \/ AdmittedUnheard(c, sid)
    \/ CallRefused(c)

HandlerStep(c) ==
    \/ Answered(c) \/ Rejoined(c) \/ RejoinFails(c) \/ IssueToken(c)
    \/ GetStream(c) \/ SendOk(c) \/ SendError(c)
    \/ ResetCheck(Handler(c)) \/ ResetTake(Handler(c))
    \/ EnsureStep(Handler(c))
    \/ CloseDone(c) \/ Unregister(c) \/ Detach(c) \/ LeaveOk(c) \/ LeaveFails(c)

ReaderStep(s) ==
    \/ RecvError(s)
    \/ ResetCheck(Reader(s)) \/ ResetTake(Reader(s))
    \/ Schedule(s) \/ StartReconnect(s)

LoopStep(s) ==
    \/ LoopStops(s) \/ LoopTimer(s) \/ FinishReconnect(s)
    \/ EnsureStep(Loop(s))

\* Every connection has ended; a reader may wait on a stream left behind.
AllGone ==
    /\ \A c \in Clients : pc[Handler(c)] = "gone"
    /\ \A s \in Streams : /\ pc[Loop(s)] = "dead"
                          /\ \/ pc[Reader(s)] = "dead"
                             \/ pc[Reader(s)] = "recv" /\ link[s] = "live"
    /\ UNCHANGED vars

Next ==
    \/ \E c \in Clients : Request(c) \/ HandlerStep(c) \/ ConnectionLost(c)
    \/ \E s \in Streams : \/ ReaderStep(s) \/ LoopStep(s)
                          \/ StreamBreaks(s) \/ RecvBackpressured(s)
    \/ AllGone

Spec == Init /\ [][Next]_vars

\* The thread waits for the SFU, and nothing sets a limit to that.
InCall(th) ==
    \/ pc[th] \in {"call", "rejoin", "connect"}
    \/ pc[th] = "send" /\ link[hand[th]] = "live"

(***************************************************************************)
(* Every goroutine is scheduled and timers fire, LeaveTimeout too.  Nothing*)
(* is assumed of clients, of faults, of a client's queue being full, or of *)
(* the SFU: a call may never return.                                       *)
(***************************************************************************)
Fairness ==
    /\ \A c \in Clients : WF_vars(~InCall(Handler(c)) /\ HandlerStep(c))
    /\ \A s \in Streams : WF_vars(ReaderStep(s)) /\ WF_vars(~InCall(Loop(s)) /\ LoopStep(s))

FairSpec == Spec /\ Fairness
-----------------------------------------------------------------------------
Mishaps == {"rebound", "displaced", "dropped", "late", "kicked", "refused"}

TypeOK ==
    /\ peerOf \in [Clients -> Clients]
    /\ sessionOf \in [Clients -> Sessions \cup {Nil}]
    /\ connUp \in [Clients -> BOOLEAN]
    /\ ended \in [Clients -> BOOLEAN]
    /\ current \in [Clients -> Streams \cup {Nil}]
    /\ initMu \in [Clients -> Handlers \cup Loops \cup {Nil}]
    /\ reconnecting \in [Clients -> BOOLEAN]
    /\ registry \in [Clients -> Clients \cup {Nil}]
    /\ rooms \subseteq Sessions
    /\ tokens \subseteq {UserOf[c] : c \in Clients} \X Sessions \X Clients
    /\ link \in [Streams -> {"idle", "live", "broken", "cancelled"}]
    /\ owner \in [Streams -> Clients \cup {Nil}]
    /\ attachedAs \in [Streams -> (Sessions \X Clients) \cup {Nil}]
    /\ hand \in [Threads -> Streams \cup {Nil}]
    /\ task \in [Clients -> {"create", "join", "bind", "send", "resend", Nil}]
    /\ requests \in 0..MaxRequests /\ faults \in 0..MaxFaults
    /\ lost \in [Clients -> BOOLEAN]
    /\ heir \in [Clients -> Clients]
    /\ mishap \in [Clients -> SUBSET Mishaps]
    /\ members \subseteq Sessions \X Clients /\ unseen \subseteq members
    /\ split \subseteq Clients

\* No live stream is lost sight of: it is the current one of its connection,
\* where reset and LeaveSession find it, or about to be (ensureSignalStream
\* against resetSpecificSignalStream and LeaveSession).  A connection that has
\* ended may still have one: see GoneLeavesNothing.
NoOrphanStream ==
    \A s \in Streams : link[s] = "live" =>
        \/ current[owner[s]] = s
        \/ \E th \in Threads : hand[th] = s /\ pc[th] = "publish"

\* Only one thread at a time opens a stream for a connection, and no stream
\* turns up while it does: the second look in ensureSignalStream never finds
\* one (streamInitMu; only ensureSignalStream calls SetSignalStream).
OneOpens ==
    \A th, other \in Threads :
        pc[th] \in {"connect", "publish"} =>
            /\ current[ClientOf(th)] = Nil
            /\ pc[other] \in {"connect", "publish"} /\ ClientOf(other) = ClientOf(th)
                   => other = th

\* Some thread is on its way to give the connection a stream.
Recovering(c) ==
    \E s \in Streams :
        /\ owner[s] = c
        /\ \/ pc[Reader(s)] \in {"check", "take", "schedule", "start"}
           \/ pc[Reader(s)] = "recv" /\ link[s] # "live"
           \/ pc[Loop(s)] \in Ensuring \cup {"wait"}

\* A connection that has lost its stream is always being reconnected, unless
\* its reader met a loop between its success and FinishReconnect (readLoop,
\* scheduleReconnect, reconnectLoop).  That window is the only hole.
LossCovered ==
    \A c \in Clients :
        lost[c] /\ connUp[c] /\ "dropped" \notin mishap[c] => Recovering(c)

\* A connection that has bound itself once talks to the SFU as the peer, and
\* in the session, it is bound to (getOrCreateStream, sendAttachHandshake).
AttachMatches ==
    \A c \in Clients :
        current[c] # Nil /\ ~ended[c] /\ "rebound" \notin mishap[c] =>
            attachedAs[current[c]] = <<sessionOf[c], peerOf[c]>>

\* The reconnecting flag of a connection is set exactly while one reconnect
\* loop runs for it (StartReconnect, FinishReconnect).
OneLoop ==
    \A c \in Clients :
        LET loops == {s \in Streams : owner[s] = c /\ pc[Loop(s)] # "dead"}
        IN  Cardinality(loops) = IF reconnecting[c] THEN 1 ELSE 0

\* LeaveSession leaves no registration and no stream behind, unless a
\* reconnect loop was already past its look at Done.
GoneLeavesNothing ==
    \A c \in Clients :
        pc[Handler(c)] = "gone" /\ mishap[c] \cap {"late", "rebound"} = {} =>
            /\ current[c] = Nil
            /\ \A p \in Clients : registry[p] # c

\* A connection that was let in as a peer and has a stream gets the messages
\* of the peer: the others that hold the peer id cannot take them away by
\* ending, by losing or resetting their streams, or by a resumption that is
\* refused.  Only registerPeer can, that is anything another one sends, with
\* or without a stream of its own, and a reconnect; and then only until this
\* one sends or reconnects.
HeirReachable ==
    \A p \in Clients :
        LET c == heir[p]
        IN  /\ peerOf[c] = p /\ current[c] # Nil /\ ~ended[c]
            /\ mishap[c] \cap {"rebound", "displaced"} = {}
            => registry[p] = c

\* A peer that the SFU has in a session belongs to a connection that is in
\* that session and will leave it, unless a call that failed had taken effect,
\* a LeaveSession failed, a connection went on to a second session with the
\* peer id, or a late reconnect loop of another connection has taken the
\* registration, and with it the duty to leave (LeaveSession,
\* unregisterPeerClient).
NoGhostMember ==
    \A m \in members \ unseen : m[2] \notin split =>
        \E c \in Clients :
            \/ Membership(c) = m /\ pc[Handler(c)] # "gone"
            \/ registry[m[2]] = c /\ "late" \in mishap[c]

\* A resumed connection stays in its session however the connections it was
\* resumed from end, unless one of them was leaving the peer's session while
\* it was resumed, or after it had taken the peer id back, or unless it has
\* tried to resume the peer once more and was refused (LeaveSession).
HeirStaysMember ==
    \A p \in Clients :
        LET c == heir[p]
        IN  /\ c # p /\ peerOf[c] = p /\ pc[Handler(c)] # "rejoin" /\ ~ended[c]
            /\ mishap[c] \cap {"kicked", "refused"} = {}
            => Membership(c) \in members

LiveStreams(c) == {s \in Streams : owner[s] = c /\ link[s] = "live"}

Slots == INSTANCE StreamSlots WITH
    Connections <- Clients, open <- [c \in Clients |-> LiveStreams(c)]

\* Handlers, readers and reconnect loops together implement StreamSlots: the
\* SFU never has two open streams of one connection, in whatever order they
\* open, cancel and replace them (ensureSignalStream, resetSignalStream).
ImplementsSlots == Slots!Spec

\* A lost stream is replaced, unless the connection ends, its reader met the
\* window LossCovered tells of, or the SFU never answers who opens the new one.
LossRecovered ==
    \A c \in Clients :
        LET opening == \E th \in Handlers \cup Loops : pc[th] = "connect" /\ ClientOf(th) = c
        IN  \/ lost[c] ~> ~lost[c] \/ ~connUp[c] \/ "dropped" \in mishap[c]
            \/ <>[]opening

\* The thread waits for the SFU, or for the thread that opens the stream and
\* does.
HeldUp(th) ==
    \/ InCall(th)
    \/ pc[th] = "lock" /\ initMu[ClientOf(th)] # Nil /\ InCall(initMu[ClientOf(th)])

\* LeaveSession runs to its end when the connection is gone: no reconnect
\* attempt and no failure can keep the goroutine.  Only an SFU call that never
\* returns can, in a request of the client that was still being served or in a
\* reconnect that the request waits for; nothing cancels it then (Handle).
ConnectionEnds ==
    \A c \in Clients :
        \/ ~connUp[c] ~> pc[Handler(c)] = "gone"
        \/ <>[]HeldUp(Handler(c))
=============================================================================
