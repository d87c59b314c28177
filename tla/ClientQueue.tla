------------------------------ MODULE ClientQueue ------------------------------
(***************************************************************************)
(* The way out of one WebSocket connection: Client.Enqueue                 *)
(* (internal/models/client.go) and the pumps of internal/handlers/ws.go.   *)
(*                                                                         *)
(* readPump answers the requests of the client one by one, readLoops of    *)
(* signal streams forward messages of the SFU.  All of them put messages   *)
(* into the bounded channel Client.Send, writePump takes them out and      *)
(* writes them to the WebSocket.  Nobody closes Client.Send: the end of    *)
(* the connection is told by closing Client.Done and the WebSocket.        *)
(*                                                                         *)
(* Enqueue is a select over Done, room in the channel and a timer.  Which  *)
(* one wins is open when several are ready; the timer may have run out     *)
(* before there was a look at the channel.                                 *)
(*                                                                         *)
(* The service serves a request by a call to the SFU, and such a call has  *)
(* no deadline: it may keep readPump for ever.                             *)
(***************************************************************************)
EXTENDS Naturals, Sequences, SequencesExt

CONSTANTS
    Own,            \* readers of this connection's signal streams
    Foreign,        \* readers of streams of a connection that was resumed here
    Capacity,       \* WSHandlerConfig.SendBufferSize
    MaxRequests,    \* bounds the requests of the client
    MaxMessages     \* bounds the messages of each reader

ASSUME ReadersAssumption == Own \cap Foreign = {} /\ "readPump" \notin Own \cup Foreign
ASSUME SizesAssumption ==
    Capacity \in Nat \ {0} /\ MaxRequests \in Nat /\ MaxMessages \in Nat

Readers == Own \cup Foreign
Senders == Readers \cup {"readPump"}

VARIABLES
    send,       \* Client.Send: <<sender, number>>, oldest first
    done,       \* Client.Done is closed
    conn,       \* the WebSocket: open, lost (the client is gone) or closed
    wire,       \* history: what was written while the client was there
    readPump,   \* next step of readPump and of Handle's deferred functions
    writePump,  \* next step of writePump
    writing,    \* the message writePump has taken
    reader,     \* next step of each reader
    number,     \* the requests readPump has read, the messages of each reader
    skipped     \* history: readers that were told ErrClientClosed

vars == <<send, done, conn, wire, readPump, writePump, writing, reader, number, skipped>>

None == <<>>

Init ==
    /\ send = <<>> /\ wire = <<>>
    /\ done = FALSE
    /\ conn = "open"
    /\ readPump = "read"
    /\ writePump = "select"
    /\ writing = None
    /\ reader = [r \in Readers |-> "recv"]
    /\ number = [s \in Senders |-> 0]
    /\ skipped = {}
-----------------------------------------------------------------------------
(* Enqueue and its three outcomes.                                         *)

Full == Len(send) >= Capacity

\* A version of Accepted with a channel that has no bound.
AcceptedUnbounded(s) == send' = Append(send, <<s, number[s]>>)

Accepted(s) == ~Full /\ send' = Append(send, <<s, number[s]>>)
Backpressured == UNCHANGED send
Closed == done /\ UNCHANGED send
-----------------------------------------------------------------------------
(* readPump.                                                               *)

\* A message was read: a request for the service, or one that is malformed
\* and answered by an error at once.
ReadMessage ==
    /\ readPump = "read" /\ conn = "open"
    /\ number["readPump"] < MaxRequests
    /\ number' = [number EXCEPT !["readPump"] = @ + 1]
    /\ readPump' \in {"serve", "answerError"}
    /\ UNCHANGED <<send, done, conn, wire, writePump, writing, reader, skipped>>

\* The service returns, with a result or an error.
Serve ==
    /\ readPump = "serve"
    /\ readPump' \in {"answer", "answerError"}
    /\ UNCHANGED <<send, done, conn, wire, writePump, writing, reader, number, skipped>>

\* The WebSocket is closed, or nothing has come before the read deadline.
ReadFails ==
    /\ readPump = "read" /\ conn # "open"
    /\ readPump' = "close"
    /\ UNCHANGED <<send, done, conn, wire, writePump, writing, reader, number, skipped>>

Answer ==
    /\ readPump \in {"answer", "answerError"}
    /\ Accepted("readPump")
    /\ readPump' = "read"
    /\ UNCHANGED <<done, conn, wire, writePump, writing, reader, number, skipped>>

\* A version of AnswerBackpressured that only logs the second failure.
AnswerBackpressuredLogged ==
    /\ readPump \in {"answer", "answerError"}
    /\ Backpressured
    /\ readPump' = IF readPump = "answer" THEN "answerError" ELSE "read"
    /\ UNCHANGED <<done, conn, wire, writePump, writing, reader, number, skipped>>

\* An answer that cannot be queued is replaced by an error, and an error
\* that cannot be queued ends the connection.
AnswerBackpressured ==
    /\ readPump \in {"answer", "answerError"}
    /\ Backpressured
    /\ readPump' = IF readPump = "answer" THEN "answerError" ELSE "close"
    /\ UNCHANGED <<done, conn, wire, writePump, writing, reader, number, skipped>>

\* Handle's deferred functions: close(Done), LeaveSession, ...
CloseDone ==
    /\ readPump = "close"
    /\ done' = TRUE
    /\ readPump' = "leave"
    /\ UNCHANGED <<send, conn, wire, writePump, writing, reader, number, skipped>>

\* ... the context of writePump is cancelled, the WebSocket closed.
HandleReturns ==
    /\ readPump = "leave"
    /\ conn' = "closed"
    /\ readPump' = "gone"
    /\ UNCHANGED <<send, done, wire, writePump, writing, reader, number, skipped>>
-----------------------------------------------------------------------------
(* readLoop, forwardToWebSocket.                                           *)

\* A message for the peer that is registered to this connection; others
\* leave no trace here.
Recv(r) ==
    /\ reader[r] = "recv"
    /\ number[r] < MaxMessages
    /\ number' = [number EXCEPT ![r] = @ + 1]
    /\ reader' = [reader EXCEPT ![r] = "enqueue"]
    /\ UNCHANGED <<send, done, conn, wire, readPump, writePump, writing, skipped>>

Forward(r) ==
    /\ reader[r] = "enqueue"
    /\ Accepted(r)
    /\ reader' = [reader EXCEPT ![r] = "recv"]
    /\ UNCHANGED <<done, conn, wire, readPump, writePump, writing, number, skipped>>

\* A version of ForwardBackpressured that drops the message and goes on.
ForwardBackpressuredDrops(r) ==
    /\ reader[r] = "enqueue"
    /\ Backpressured
    /\ reader' = [reader EXCEPT ![r] = "recv"]
    /\ UNCHANGED <<done, conn, wire, readPump, writePump, writing, number, skipped>>

\* ErrClientBackpressured: the reader closes the connection whose stream it
\* reads, and ends.
ForwardBackpressured(r) ==
    /\ reader[r] = "enqueue"
    /\ Backpressured
    /\ conn' = IF r \in Own THEN "closed" ELSE conn
    /\ reader' = [reader EXCEPT ![r] = "gone"]
    /\ UNCHANGED <<done, wire, readPump, writePump, writing, number, skipped>>

\* ErrClientClosed is logged.
ForwardClosed(r) ==
    /\ reader[r] = "enqueue"
    /\ Closed
    /\ reader' = [reader EXCEPT ![r] = "recv"]
    /\ skipped' = skipped \cup {r}
    /\ UNCHANGED <<done, conn, wire, readPump, writePump, writing, number>>

\* The stream of the reader is over.
RecvError(r) ==
    /\ reader[r] = "recv"
    /\ reader' = [reader EXCEPT ![r] = "gone"]
    /\ UNCHANGED <<send, done, conn, wire, readPump, writePump, writing, number, skipped>>
-----------------------------------------------------------------------------
(* writePump.                                                              *)

TakeMessage ==
    /\ writePump = "select"
    /\ send # <<>>
    /\ writing' = Head(send)
    /\ send' = Tail(send)
    /\ writePump' = "write"
    /\ UNCHANGED <<done, conn, wire, readPump, reader, number, skipped>>

\* WriteMessage returns nil; what a lost client is sent is not noticed.
WriteMessage ==
    /\ writePump = "write" /\ conn # "closed"
    /\ wire' = IF conn = "open" THEN Append(wire, writing) ELSE wire
    /\ writing' = None
    /\ writePump' = "select"
    /\ UNCHANGED <<send, done, conn, readPump, reader, number, skipped>>

\* A version of WriteFails that logs the error and takes the next message.
WriteFailsLogged ==
    /\ \/ writePump = "write"
       \/ writePump = "select" /\ conn # "open"
    /\ writing' = None
    /\ writePump' = "select"
    /\ UNCHANGED <<send, done, conn, wire, readPump, reader, number, skipped>>

\* A write fails, or passes its deadline because the client does not read.
\* The ticker may find out too, when it sends a ping.
WriteFails ==
    /\ \/ writePump = "write"
       \/ writePump = "select" /\ conn # "open"
    /\ writing' = None
    /\ writePump' = "close"
    /\ UNCHANGED <<send, done, conn, wire, readPump, reader, number, skipped>>

\* The select has chosen Done (or the context): what is queued stays there.
WritePumpDone ==
    /\ writePump = "select"
    /\ done
    /\ writePump' = "close"
    /\ UNCHANGED <<send, done, conn, wire, readPump, writing, reader, number, skipped>>

\* A version of CloseConn without the deferred Close.
CloseConnForgotten ==
    /\ writePump = "close"
    /\ writePump' = "gone"
    /\ UNCHANGED <<send, done, conn, wire, readPump, writing, reader, number, skipped>>

\* The deferred Conn.Close wakes a readPump that waits in ReadMessage.
CloseConn ==
    /\ writePump = "close"
    /\ conn' = "closed"
    /\ writePump' = "gone"
    /\ UNCHANGED <<send, done, wire, readPump, writing, reader, number, skipped>>
-----------------------------------------------------------------------------
\* The client closes the WebSocket or disappears.
ClientLeaves ==
    /\ conn = "open"
    /\ conn' = "lost"
    /\ UNCHANGED <<send, done, wire, readPump, writePump, writing, reader, number, skipped>>

ReadPump  == ReadFails \/ Answer \/ AnswerBackpressured \/ CloseDone \/ HandleReturns
WritePump == TakeMessage \/ WriteMessage \/ WriteFails \/ WritePumpDone \/ CloseConn
Enqueue(r) == Forward(r) \/ ForwardBackpressured(r) \/ ForwardClosed(r)

AllGone ==
    /\ readPump = "gone" /\ writePump = "gone"
    /\ \A r \in Readers : reader[r] = "gone"
    /\ UNCHANGED vars

Next ==
    \/ ReadMessage \/ Serve \/ ReadPump \/ WritePump \/ ClientLeaves
    \/ \E r \in Readers : Recv(r) \/ Enqueue(r) \/ RecvError(r)
    \/ AllGone

Spec == Init /\ [][Next]_vars

(***************************************************************************)
(* Goroutines are scheduled and timers fire: writes have a deadline, reads *)
(* of a lost client have one, LeaveSession has a timeout, Enqueue a timer. *)
(* Nothing is assumed of the client or of the SFU: Serve need never happen.*)
(***************************************************************************)
Fairness ==
    /\ WF_vars(ReadPump) /\ WF_vars(WritePump)
    /\ \A r \in Readers : WF_vars(Enqueue(r))

FairSpec == Spec /\ Fairness
-----------------------------------------------------------------------------
Numbers(s) == 1..(IF s = "readPump" THEN MaxRequests ELSE MaxMessages)
Items == UNION {{s} \X Numbers(s) : s \in Senders}

\* The types, and the bound of the channel (make in Handle).
TypeOK ==
    /\ send \in Seq(Items) /\ Len(send) <= Capacity
    /\ wire \in Seq(Items)
    /\ done \in BOOLEAN
    /\ conn \in {"open", "lost", "closed"}
    /\ readPump \in {"read", "serve", "answer", "answerError", "close", "leave",
                    "gone"}
    /\ writePump \in {"select", "write", "close", "gone"}
    /\ writing \in Items \cup {None}
    /\ reader \in [Readers -> {"recv", "enqueue", "gone"}]
    /\ \A s \in Senders : number[s] \in {0} \cup Numbers(s)
    /\ skipped \subseteq Readers

\* The messages of s in a queue are 1, 2, 3, and so on, in this order.
Numbered(queue, s) ==
    /\ \A i, j \in DOMAIN queue :
          queue[i][1] = s /\ queue[j][1] = s /\ i < j => queue[i][2] < queue[j][2]
    /\ \A i \in DOMAIN queue :
          queue[i][1] = s => \A n \in 1..queue[i][2] : Contains(queue, <<s, n>>)

\* The client gets one answer per request, in the order of its requests:
\* the i-th answer on the wire answers the i-th request, although an answer
\* may have been given up for an error when the queue was full (readPump).
AnswersInOrder == Numbered(wire, "readPump")

\* The signaling messages of a stream reach the client in order and without
\* a gap: a reader whose message was refused sends no other, unless the
\* connection was closing anyway (readLoop).
ForwardedWithoutGap == \A r \in Readers \ skipped : Numbered(wire, r)

\* While nothing has gone wrong, a message that Enqueue has accepted is
\* written in the end (writePump).
AcceptedIsWritten ==
    \A item \in Items : Contains(send, item) ~> Contains(wire, item) \/ conn # "open" \/ done

\* Whichever of the client, readPump, writePump and the readers gives the
\* connection up first, the WebSocket is closed and writePump ends, and then
\* readPump ends with Done closed: neither waits for ever for the other, nor
\* for room in a queue that nobody empties.  Only an SFU call that never
\* returns keeps readPump, and Done open (Handle, writePump, Enqueue).
EndsTogether ==
    LET givenUp == conn # "open" \/ readPump = "close" \/ writePump = "gone"
    IN  /\ givenUp ~> conn = "closed" /\ writePump = "gone"
        /\ (givenUp ~> done /\ readPump = "gone") \/ <>[](readPump = "serve")
=============================================================================
