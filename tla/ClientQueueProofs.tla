--------------------------- MODULE ClientQueueProofs ---------------------------
(***************************************************************************)
(* The order of what one connection is sent, for any capacity of the       *)
(* channel and any number of readers that share it.                        *)
(***************************************************************************)
EXTENDS ClientQueue, SequenceTheorems, TLAPS

\* A message is its sender and a positive number.
LEMMA ItemParts ==
    /\ \A s \in Senders, n \in Nat \ {0} : n \in Numbers(s) => <<s, n>> \in Items
    /\ \A item \in Items : /\ item[1] \in Senders /\ item[2] \in Nat \ {0}
                           /\ item[2] \in Numbers(item[1])
                           /\ item = <<item[1], item[2]>>
BY SizesAssumption DEF Items, Numbers

\* The senders are not each other.
LEMMA SenderNames ==
    /\ "readPump" \in Senders /\ "readPump" \notin Readers
    /\ \A r \in Readers : r \in Senders /\ r # "readPump"
BY ReadersAssumption DEF Senders, Readers

\* What a prefix of a queue shows of a sender is numbered like the queue: the
\* smaller numbers stand before the greater.
LEMMA NumberedPrefix ==
    ASSUME NEW p \in Seq(Items), NEW t \in Seq(Items), NEW s, Numbered(p \o t, s)
    PROVE  Numbered(p, s)
<1> DEFINE q == p \o t
<1>1. /\ DOMAIN p = 1 .. Len(p) /\ Len(p) \in Nat /\ Len(t) \in Nat
      /\ q \in Seq(Items) /\ DOMAIN q = 1 .. Len(p) + Len(t) /\ Len(q) = Len(p) + Len(t)
  BY LenProperties, ConcatProperties
<1>2. \A i \in 1 .. Len(p) : i \in 1 .. Len(q) /\ q[i] = p[i]
  BY <1>1, ConcatProperties
<1>3. Numbered(q, s)
  OBVIOUS
<1> HIDE DEF q
<1>4. ASSUME NEW i \in 1 .. Len(p), p[i][1] = s, NEW n \in 1 .. p[i][2]
      PROVE  Contains(p, <<s, n>>)
  <2>1. PICK j \in 1 .. Len(q) : q[j] = <<s, n>>
    BY <1>1, <1>2, <1>3, <1>4 DEF Numbered, Contains
  <2>2. q[j][1] = s /\ q[j][2] = n
    BY <2>1
  <2>3. p[i][2] \in Nat
    BY <1>1, ElementOfSeq, ItemParts
  <2>4. ~(i < j)
    <3>1. n \in Int /\ n <= p[i][2]
      BY <1>4, <2>3
    <3>2. i < j => p[i][2] < n
      BY <1>1, <1>2, <1>3, <1>4, <2>2 DEF Numbered
    <3> QED
      BY <2>3, <3>1, <3>2
  <2>5. j \in 1 .. Len(p)
    BY <1>1, <2>4
  <2> QED
    BY <1>2, <2>1, <2>5 DEF Contains
<1>5. \A i, j \in 1 .. Len(p) :
          p[i][1] = s /\ p[j][1] = s /\ i < j => p[i][2] < p[j][2]
  BY <1>1, <1>2, <1>3 DEF Numbered
<1> QED
  BY <1>1, <1>4, <1>5 DEF Numbered

\* All messages of s in the queue are those up to the number n.
UpTo(q, s, n) ==
    /\ \A i \in 1 .. Len(q) : q[i][1] = s => q[i][2] <= n
    /\ \A m \in 1 .. n : Contains(q, <<s, m>>)

\* The next message of s leaves its messages numbered, ...
LEMMA NumberedNext ==
    ASSUME NEW q \in Seq(Items), NEW s \in Senders, NEW n \in Nat \ {0}, n \in Numbers(s),
           Numbered(q, s), UpTo(q, s, n - 1)
    PROVE  Numbered(Append(q, <<s, n>>), s) /\ UpTo(Append(q, <<s, n>>), s, n)
<1> DEFINE e == <<s, n>>
           r == Append(q, e)
<1>1. /\ e \in Items /\ e[1] = s /\ e[2] = n
  BY ItemParts
<1>2. /\ r \in Seq(Items) /\ Len(q) \in Nat /\ Len(r) = Len(q) + 1
      /\ \A i \in 1 .. Len(q) : r[i] = q[i]
      /\ r[Len(q) + 1] = e
  BY <1>1, AppendProperties, LenProperties
<1>3. DOMAIN q = 1 .. Len(q) /\ DOMAIN r = 1 .. Len(r)
  BY <1>2, LenProperties
<1> HIDE DEF r
<1>4. \A m \in 1 .. n : Contains(r, <<s, m>>)
  <2> SUFFICES ASSUME NEW m \in 1 .. n
               PROVE  \E i \in 1 .. Len(r) : r[i] = <<s, m>>
    BY DEF Contains
  <2>1. CASE m = n
    BY <1>2, <2>1
  <2>2. CASE m # n
    <3>1. m \in 1 .. n - 1
      BY <2>2
    <3>2. PICK i \in 1 .. Len(q) : q[i] = <<s, m>>
      BY <3>1 DEF UpTo, Contains
    <3> QED
      BY <1>2, <3>2
  <2> QED
    BY <2>1, <2>2
<1> HIDE DEF e
<1>5. ASSUME NEW i \in 1 .. Len(r), r[i][1] = s
      PROVE  /\ i \in 1 .. Len(q) \/ i = Len(q) + 1
             /\ i \in 1 .. Len(q) => r[i][2] \in Nat /\ r[i][2] <= n - 1
             /\ i = Len(q) + 1 => r[i][2] = n
  <2>1. i \in 1 .. Len(q) \/ i = Len(q) + 1
    BY <1>2
  <2>2. i \in 1 .. Len(q) => r[i][2] \in Nat /\ r[i][2] <= n - 1
    BY <1>2, <1>5, ElementOfSeq, ItemParts DEF UpTo
  <2> QED
    BY <1>1, <1>2, <2>1, <2>2
<1>6. UpTo(r, s, n)
  <2>1. \A i \in 1 .. Len(r) : r[i][1] = s => r[i][2] <= n
    BY <1>5
  <2> QED
    BY <1>4, <2>1 DEF UpTo
<1>7. ASSUME NEW i \in 1 .. Len(r), NEW j \in 1 .. Len(r), r[i][1] = s, r[j][1] = s, i < j
      PROVE  r[i][2] < r[j][2]
  <2>1. i \in 1 .. Len(q)
    BY <1>2, <1>7
  <2>2. CASE j \in 1 .. Len(q)
    BY <1>2, <1>3, <1>7, <2>1, <2>2 DEF Numbered
  <2>3. CASE j = Len(q) + 1
    BY <1>5, <1>7, <2>1, <2>3
  <2> QED
    BY <1>2, <2>2, <2>3
<1>8. ASSUME NEW i \in 1 .. Len(r), r[i][1] = s, NEW m \in 1 .. r[i][2]
      PROVE  Contains(r, <<s, m>>)
  <2>1. r[i][2] \in Nat /\ r[i][2] <= n
    BY <1>5, <1>8
  <2>2. m \in 1 .. n
    BY <2>1
  <2> QED
    BY <1>4, <2>2
<1>9. Numbered(r, s)
  BY <1>3, <1>7, <1>8 DEF Numbered
<1> QED
  BY <1>6, <1>9 DEF r, e

\* ... and the messages of the others as they are.
LEMMA NumberedOthers ==
    ASSUME NEW q \in Seq(Items), NEW e \in Items, NEW s, e[1] # s
    PROVE  /\ Numbered(q, s) => Numbered(Append(q, e), s)
           /\ \A n \in Nat : UpTo(q, s, n) => UpTo(Append(q, e), s, n)
<1> DEFINE r == Append(q, e)
<1>1. /\ r \in Seq(Items) /\ Len(q) \in Nat /\ Len(r) = Len(q) + 1
      /\ \A i \in 1 .. Len(q) : r[i] = q[i]
      /\ r[Len(q) + 1] = e
  BY AppendProperties, LenProperties
<1>2. DOMAIN q = 1 .. Len(q) /\ DOMAIN r = 1 .. Len(r)
  BY <1>1, LenProperties
<1> HIDE DEF r
<1>3. ASSUME NEW i \in 1 .. Len(r), r[i][1] = s
      PROVE  i \in 1 .. Len(q) /\ r[i] = q[i]
  BY <1>1, <1>3
<1>4. ASSUME NEW m, Contains(q, m)
      PROVE  Contains(r, m)
  BY <1>1, <1>4 DEF Contains
<1>5. Numbered(q, s) => Numbered(r, s)
  BY <1>2, <1>3, <1>4 DEF Numbered
<1>6. \A n \in Nat : UpTo(q, s, n) => UpTo(r, s, n)
  BY <1>3, <1>4 DEF UpTo
<1> QED
  BY <1>5, <1>6 DEF r
-----------------------------------------------------------------------------
\* The message that writePump holds, and all that is on its way to the client:
\* written, held or queued.
Held == IF writePump = "write" THEN <<writing>> ELSE <<>>
Line == (wire \o Held) \o send

\* Nothing has been written yet that is not going to be.
Writing == conn = "open" /\ writePump \in {"select", "write"}

\* A sender has a message in its hands, or one to answer; it may still send.
Pending(s) == IF s = "readPump" THEN readPump \in {"serve", "answer", "answerError"}
                                ELSE reader[s] = "enqueue"
Sending(s) == IF s = "readPump" THEN readPump \in {"read", "serve", "answer", "answerError"}
                                ELSE reader[s] \in {"recv", "enqueue"}

\* The number of the last message that s has sent, while it sends.
Sent(s) == IF Pending(s) THEN number[s] - 1 ELSE number[s]

Trusted == Senders \ skipped

\* What is in hands is a message.
HandsFull ==
    /\ number \in [Senders -> Nat]
    /\ \A s \in Senders : Pending(s) => number[s] # 0
    /\ writePump = "write" => writing \in Items

\* While it is written the line is numbered without a gap up to the last message
\* of each sender; what was written stays numbered.
LineNumbered ==
    /\ \A s \in Trusted : Numbered(wire, s)
    /\ Writing => \A s \in Trusted : /\ Numbered(Line, s)
                                     /\ Sending(s) => UpTo(Line, s, Sent(s))

\* The inductive invariant.
QueueInv == TypeOK /\ HandsFull /\ LineNumbered

\* The line is a sequence of messages, and begins with what was written.
LEMMA LineType ==
    ASSUME TypeOK, HandsFull
    PROVE  /\ Held \in Seq(Items) /\ Line \in Seq(Items)
           /\ \A s : Numbered(Line, s) => Numbered(wire, s)
<1>1. wire \in Seq(Items) /\ send \in Seq(Items)
  BY DEF TypeOK
<1>2. Held \in Seq(Items)
  BY DEF HandsFull, Held
<1>3. Held \o send \in Seq(Items) /\ Line \in Seq(Items)
  BY <1>1, <1>2, ConcatProperties DEF Line
<1>4. Line = wire \o (Held \o send)
  BY <1>1, <1>2, ConcatAssociative DEF Line
<1> QED
  BY <1>1, <1>2, <1>3, <1>4, NumberedPrefix

\* A step that sends nothing: what is written comes from the line.
LEMMA StillNumbered ==
    ASSUME QueueInv, TypeOK', HandsFull',
           wire' = wire \/ Writing',
           Writing' => Writing /\ Line' = Line,
           skipped \subseteq skipped',
           \A s \in Trusted' : Sending(s)' => Sending(s) /\ Sent(s)' = Sent(s)
    PROVE  LineNumbered'
<1>1. \A s \in Trusted' : s \in Trusted
  BY DEF Trusted
<1>2. ASSUME Writing', NEW s \in Trusted'
      PROVE  Numbered(Line', s) /\ (Sending(s)' => UpTo(Line', s, Sent(s)'))
  BY <1>1, <1>2 DEF QueueInv, LineNumbered
<1>3. ASSUME NEW s \in Trusted'
      PROVE  Numbered(wire', s)
  <2>1. CASE wire' = wire
    BY <1>1, <1>3, <2>1 DEF QueueInv, LineNumbered
  <2>2. CASE Writing'
    <3>1. wire' \in Seq(Items) /\ Held' \in Seq(Items) /\ send' \in Seq(Items)
      BY DEF TypeOK, HandsFull, Held
    <3>2. Held' \o send' \in Seq(Items) /\ Line' = wire' \o (Held' \o send')
      BY <3>1, ConcatProperties, ConcatAssociative DEF Line
    <3>3. Numbered(Line', s)
      BY <1>2, <1>3, <2>2
    <3> QED
      BY <3>1, <3>2, <3>3, NumberedPrefix
  <2> QED
    BY <2>1, <2>2
<1> QED
  BY <1>2, <1>3 DEF LineNumbered, Numbered, UpTo

\* A sender puts its message into the queue.
LEMMA AcceptNumbered ==
    ASSUME QueueInv, NEW s \in Senders, Accepted(s), Pending(s), Sending(s),
           number[s] \in Numbers(s),
           UNCHANGED <<wire, conn, writePump, writing, number, skipped>>,
           ~Pending(s)',
           \A o \in Senders \ {s} : (Sending(o)' <=> Sending(o)) /\ (Pending(o)' <=> Pending(o))
    PROVE  LineNumbered'
<1> DEFINE e == <<s, number[s]>>
<1>1. e \in Items /\ e[1] = s /\ number[s] \in Nat \ {0}
  BY ItemParts DEF QueueInv, HandsFull
<1>2. Line' = Append(Line, e)
  <2>1. send \in Seq(Items) /\ wire \in Seq(Items) /\ Held \in Seq(Items)
    BY LineType DEF QueueInv, TypeOK
  <2>2. <<e>> \in Seq(Items) /\ wire \o Held \in Seq(Items) /\ Line \in Seq(Items)
    BY <1>1, <2>1, ConcatProperties DEF Line
  <2>3. send' = send \o <<e>>
    BY <1>1, <2>1, AppendIsConcat DEF Accepted
  <2>4. Line' = (wire \o Held) \o (send \o <<e>>)
    BY <2>3 DEF Line, Held
  <2> HIDE DEF e
  <2>5. Line' = Line \o <<e>>
    BY <2>1, <2>2, <2>4, ConcatAssociative DEF Line
  <2> QED
    BY <1>1, <2>2, <2>5, AppendIsConcat
<1>3. Line \in Seq(Items)
  BY LineType DEF QueueInv
<1>4. Sent(s) = number[s] - 1 /\ Sent(s)' = number[s]
  BY DEF Sent
<1>5. Writing' = Writing /\ Trusted' = Trusted /\ wire' = wire
  BY DEF Writing, Trusted
<1>6. ASSUME Writing, s \in Trusted
      PROVE  Numbered(Line', s) /\ UpTo(Line', s, Sent(s)')
  <2>1. Numbered(Line, s) /\ UpTo(Line, s, number[s] - 1)
    BY <1>4, <1>6 DEF QueueInv, LineNumbered
  <2> QED
    BY <1>1, <1>2, <1>3, <1>4, <2>1, NumberedNext
<1>7. ASSUME Writing, NEW o \in Trusted, o # s
      PROVE  Numbered(Line', o) /\ (Sending(o)' => UpTo(Line', o, Sent(o)'))
  <2>1. Numbered(Line, o) /\ (Sending(o) => UpTo(Line, o, Sent(o)))
    BY <1>7 DEF QueueInv, LineNumbered
  <2>2. /\ o \in Senders \ {s}
        /\ Sending(o)' <=> Sending(o)
        /\ Pending(o)' <=> Pending(o)
    BY <1>7 DEF Trusted
  <2>3. Sent(o)' = Sent(o)
    BY <2>2 DEF Sent
  <2>4. Sent(o) \in Nat
    BY <2>2 DEF Sent, QueueInv, HandsFull
  <2> QED
    BY <1>1, <1>2, <1>3, <1>7, <2>1, <2>2, <2>3, <2>4, NumberedOthers
<1>8. \A o \in Trusted : Numbered(wire, o)
  BY DEF QueueInv, LineNumbered
<1> QED
  BY <1>5, <1>6, <1>7, <1>8 DEF LineNumbered, Numbered, UpTo
-----------------------------------------------------------------------------
\* The queue after Enqueue has put a message into it.
LEMMA AcceptedType ==
    ASSUME TypeOK, HandsFull, NEW s \in Senders, Accepted(s), Pending(s)
    PROVE  /\ send' \in Seq(Items) /\ Len(send') <= Capacity
           /\ number[s] \in Numbers(s)
<1>1. number[s] \in Numbers(s) /\ number[s] \in Nat \ {0}
  BY DEF TypeOK, HandsFull
<1>2. <<s, number[s]>> \in Items
  BY <1>1, ItemParts
<1>3. send \in Seq(Items) /\ Len(send) \in Nat /\ ~(Len(send) >= Capacity)
  BY LenProperties DEF TypeOK, Accepted, Full
<1>4. /\ Append(send, <<s, number[s]>>) \in Seq(Items)
      /\ Len(Append(send, <<s, number[s]>>)) = Len(send) + 1
  BY <1>2, <1>3, AppendProperties
<1> QED
  BY <1>1, <1>3, <1>4, SizesAssumption DEF Accepted

\* Readers and the pump take a number for each message, up to the bound.
LEMMA Counted ==
    ASSUME TypeOK, HandsFull, NEW s \in Senders,
           number' = [number EXCEPT ![s] = @ + 1],
           number[s] < (IF s = "readPump" THEN MaxRequests ELSE MaxMessages)
    PROVE  /\ number' \in [Senders -> Nat]
           /\ number'[s] = number[s] + 1 /\ number'[s] # 0
           /\ \A o \in Senders \ {s} : number'[o] = number[o]
           /\ \A o \in Senders : number'[o] \in {0} \cup Numbers(o)
<1>1. number \in [Senders -> Nat] /\ number[s] \in Nat
  BY DEF HandsFull
<1>2. /\ number' \in [Senders -> Nat]
      /\ number'[s] = number[s] + 1
      /\ \A o \in Senders \ {s} : number'[o] = number[o]
  BY <1>1
<1>3. number'[s] \in Numbers(s)
  BY <1>1, <1>2, SizesAssumption DEF Numbers
<1> QED
  BY <1>1, <1>2, <1>3 DEF TypeOK

\* readPump: a request is answered once, or by an error, or readPump ends.
LEMMA ReadPumpStep ==
    ASSUME QueueInv, ReadMessage \/ Serve \/ ReadPump \/ ClientLeaves
    PROVE  QueueInv'
<1> USE DEF QueueInv
<1>1. CASE ReadMessage
  <2>1. /\ readPump = "read" /\ readPump' \in {"serve", "answerError"}
        /\ number' = [number EXCEPT !["readPump"] = @ + 1]
        /\ number["readPump"] < MaxRequests
        /\ UNCHANGED <<send, done, conn, wire, writePump, writing, reader, skipped>>
    BY <1>1 DEF ReadMessage
  <2>2. /\ number' \in [Senders -> Nat]
        /\ number'["readPump"] = number["readPump"] + 1 /\ number'["readPump"] # 0
        /\ \A o \in Senders \ {"readPump"} : number'[o] = number[o]
        /\ \A o \in Senders : number'[o] \in {0} \cup Numbers(o)
    BY <2>1, SenderNames, Counted
  <2>3. TypeOK'
    BY <2>1, <2>2 DEF TypeOK
  <2>4. HandsFull'
    BY <2>1, <2>2, SenderNames DEF HandsFull, Pending
  <2>5. Line' = Line /\ Writing' = Writing
    BY <2>1 DEF Line, Held, Writing
  <2>6. ASSUME NEW s \in Senders
        PROVE  (Sending(s)' => Sending(s)) /\ Sent(s)' = Sent(s)
    <3>1. CASE s = "readPump"
      BY <2>1, <2>2, <3>1, SenderNames DEF Sending, Sent, Pending, HandsFull
    <3>2. CASE s # "readPump"
      BY <2>1, <2>2, <3>2 DEF Sending, Sent, Pending
    <3> QED
      BY <3>1, <3>2
  <2> QED
    BY <2>1, <2>3, <2>4, <2>5, <2>6, StillNumbered DEF Trusted
<1>2. CASE Answer
  <2>1. /\ readPump \in {"answer", "answerError"} /\ readPump' = "read"
        /\ Accepted("readPump")
        /\ UNCHANGED <<done, conn, wire, writePump, writing, reader, number, skipped>>
    BY <1>2 DEF Answer
  <2>2. "readPump" \in Senders /\ Pending("readPump") /\ Sending("readPump")
    BY <2>1, SenderNames DEF Pending, Sending
  <2>3. /\ send' \in Seq(Items) /\ Len(send') <= Capacity
        /\ number["readPump"] \in Numbers("readPump")
    BY <2>1, <2>2, AcceptedType
  <2>4. TypeOK'
    BY <2>1, <2>3 DEF TypeOK
  <2>5. /\ ~Pending("readPump")'
        /\ \A o \in Senders \ {"readPump"} :
               (Sending(o)' <=> Sending(o)) /\ (Pending(o)' <=> Pending(o))
    BY <2>1 DEF Pending, Sending
  <2>6. HandsFull'
    BY <2>1, <2>5 DEF HandsFull
  <2> QED
    BY <2>1, <2>2, <2>3, <2>4, <2>5, <2>6, AcceptNumbered
<1>3. CASE Serve \/ ReadFails \/ AnswerBackpressured \/ CloseDone \/ HandleReturns \/ ClientLeaves
  <2>1. /\ UNCHANGED <<send, wire, writePump, writing, reader, number, skipped>>
        /\ conn' \in {conn, "closed", "lost"} /\ (conn' = "open" => conn = "open")
        /\ done' \in {done, TRUE}
        /\ \/ readPump' \in {readPump, "close", "leave", "gone"}
           \/ readPump \in {"serve", "answer"} /\ readPump' \in {"answer", "answerError"}
    BY <1>3 DEF Serve, ReadFails, AnswerBackpressured, Backpressured, CloseDone, HandleReturns,
                ClientLeaves
  <2>2. TypeOK'
    BY <2>1 DEF TypeOK
  <2>3. ASSUME NEW s \in Senders
        PROVE  /\ Pending(s)' => Pending(s)
               /\ Sending(s)' => Sending(s) /\ (Pending(s)' <=> Pending(s))
    <3>1. CASE s = "readPump"
      BY <2>1, <3>1 DEF Sending, Pending
    <3>2. CASE s # "readPump"
      BY <2>1, <3>2 DEF Sending, Pending
    <3> QED
      BY <3>1, <3>2
  <2>4. HandsFull'
    BY <2>1, <2>3 DEF HandsFull
  <2>5. Line' = Line /\ (Writing' => Writing)
    BY <2>1 DEF Line, Held, Writing
  <2>6. \A s \in Senders : Sending(s)' => Sending(s) /\ Sent(s)' = Sent(s)
    BY <2>1, <2>3 DEF Sent
  <2> QED
    BY <2>1, <2>2, <2>4, <2>5, <2>6, StillNumbered DEF Trusted
<1> QED
  BY <1>1, <1>2, <1>3 DEF ReadPump

\* A reader that did not get its message into the queue ends, or is told that
\* the connection is over.
LEMMA ReaderStep ==
    ASSUME QueueInv, NEW r \in Readers, Recv(r) \/ Enqueue(r) \/ RecvError(r)
    PROVE  QueueInv'
<1> USE DEF QueueInv
<1>1. r \in Senders /\ r # "readPump"
  BY SenderNames
<1>2. CASE Recv(r)
  <2>1. /\ reader[r] = "recv" /\ reader' = [reader EXCEPT ![r] = "enqueue"]
        /\ number' = [number EXCEPT ![r] = @ + 1] /\ number[r] < MaxMessages
        /\ UNCHANGED <<send, done, conn, wire, readPump, writePump, writing, skipped>>
    BY <1>2 DEF Recv
  <2>2. /\ number' \in [Senders -> Nat]
        /\ number'[r] = number[r] + 1 /\ number'[r] # 0
        /\ \A o \in Senders \ {r} : number'[o] = number[o]
        /\ \A o \in Senders : number'[o] \in {0} \cup Numbers(o)
    BY <1>1, <2>1, Counted
  <2>3. /\ reader' \in [Readers -> {"recv", "enqueue", "gone"}] /\ reader'[r] = "enqueue"
        /\ \A o : o # r => (reader'[o] = "enqueue" <=> reader[o] = "enqueue")
                          /\ (reader'[o] = "recv" <=> reader[o] = "recv")
    BY <2>1 DEF TypeOK
  <2>4. TypeOK'
    BY <2>1, <2>2, <2>3 DEF TypeOK
  <2>5. ASSUME NEW s \in Senders
        PROVE  /\ Sending(s)' => Sending(s)
               /\ Sent(s)' = Sent(s)
               /\ Pending(s)' => number'[s] # 0
    <3>1. CASE s = r
      BY <1>1, <2>1, <2>2, <2>3, <3>1 DEF Sending, Sent, Pending, HandsFull
    <3>2. CASE s # r
      BY <2>1, <2>2, <2>3, <3>2 DEF Sending, Sent, Pending, HandsFull
    <3> QED
      BY <3>1, <3>2
  <2>6. HandsFull'
    BY <2>1, <2>2, <2>5 DEF HandsFull
  <2>7. Line' = Line /\ Writing' = Writing
    BY <2>1 DEF Line, Held, Writing
  <2> QED
    BY <2>1, <2>4, <2>5, <2>6, <2>7, StillNumbered DEF Trusted
<1>3. CASE Forward(r)
  <2>1. /\ reader[r] = "enqueue" /\ reader' = [reader EXCEPT ![r] = "recv"]
        /\ Accepted(r)
        /\ UNCHANGED <<done, conn, wire, readPump, writePump, writing, number, skipped>>
    BY <1>3 DEF Forward
  <2>2. Pending(r) /\ Sending(r)
    BY <1>1, <2>1 DEF Pending, Sending
  <2>3. /\ send' \in Seq(Items) /\ Len(send') <= Capacity
        /\ number[r] \in Numbers(r)
    BY <1>1, <2>1, <2>2, AcceptedType
  <2>4. /\ reader' \in [Readers -> {"recv", "enqueue", "gone"}] /\ reader'[r] = "recv"
        /\ \A o : o # r => (reader'[o] = "enqueue" <=> reader[o] = "enqueue")
                          /\ (reader'[o] = "recv" <=> reader[o] = "recv")
    BY <2>1 DEF TypeOK
  <2>5. TypeOK'
    BY <2>1, <2>3, <2>4 DEF TypeOK
  <2>6. /\ ~Pending(r)'
        /\ \A o \in Senders \ {r} :
               (Sending(o)' <=> Sending(o)) /\ (Pending(o)' <=> Pending(o))
    BY <1>1, <2>1, <2>4 DEF Pending, Sending
  <2>7. HandsFull'
    BY <2>1, <2>6 DEF HandsFull
  <2> QED
    BY <1>1, <2>1, <2>2, <2>3, <2>5, <2>6, <2>7, AcceptNumbered
<1>4. CASE ForwardBackpressured(r) \/ ForwardClosed(r) \/ RecvError(r)
  <2>1. /\ UNCHANGED <<send, done, wire, readPump, writePump, writing, number>>
        /\ conn' \in {conn, "closed"}
        /\ skipped' \in {skipped, skipped \cup {r}}
        /\ \/ reader' = [reader EXCEPT ![r] = "gone"]
           \/ reader' = [reader EXCEPT ![r] = "recv"] /\ r \in skipped'
    BY <1>4 DEF ForwardBackpressured, ForwardClosed, RecvError, Backpressured, Closed
  <2>2. /\ reader' \in [Readers -> {"recv", "enqueue", "gone"}]
        /\ reader'[r] = "gone" \/ (reader'[r] = "recv" /\ r \in skipped')
        /\ \A o \in Readers \ {r} : reader'[o] = reader[o]
    <3>1. CASE reader' = [reader EXCEPT ![r] = "gone"]
      BY <3>1 DEF TypeOK
    <3>2. CASE reader' = [reader EXCEPT ![r] = "recv"] /\ r \in skipped'
      BY <3>2 DEF TypeOK
    <3> QED
      BY <2>1, <3>1, <3>2
  <2>3. TypeOK'
    BY <2>1, <2>2 DEF TypeOK
  <2>4. ASSUME NEW s \in Senders
        PROVE  /\ Pending(s)' => Pending(s)
               /\ s \notin skipped' /\ Sending(s)' => Sending(s) /\ Sent(s)' = Sent(s)
    <3>1. CASE s = r
      BY <1>1, <2>2, <3>1 DEF Sending, Pending
    <3>2. CASE s # r
      BY <2>1, <2>2, <3>2 DEF Sending, Pending, Sent, Senders
    <3> QED
      BY <3>1, <3>2
  <2>5. HandsFull'
    BY <2>1, <2>4 DEF HandsFull
  <2>6. Line' = Line /\ (Writing' => Writing)
    BY <2>1 DEF Line, Held, Writing
  <2>7. skipped \subseteq skipped'
    BY <2>1
  <2> QED
    BY <2>1, <2>3, <2>4, <2>5, <2>6, <2>7, StillNumbered DEF Trusted
<1> QED
  BY <1>2, <1>3, <1>4 DEF Enqueue

\* writePump moves messages along the line, and gives it up for good.
LEMMA WritePumpStep ==
    ASSUME QueueInv, WritePump
    PROVE  QueueInv'
<1> USE DEF QueueInv
<1>1. UNCHANGED <<done, readPump, reader, number, skipped>>
  BY DEF WritePump, TakeMessage, WriteMessage, WriteFails, WritePumpDone, CloseConn
<1>2. \A s : /\ (Pending(s)' <=> Pending(s)) /\ (Sending(s)' <=> Sending(s))
             /\ Sent(s)' = Sent(s)
  BY <1>1 DEF Pending, Sending, Sent
<1>3. CASE TakeMessage
  <2>1. /\ writePump = "select" /\ writePump' = "write" /\ send # <<>>
        /\ writing' = Head(send) /\ send' = Tail(send)
        /\ UNCHANGED <<conn, wire>>
    BY <1>3 DEF TakeMessage
  <2>2. /\ Head(send) \in Items /\ Tail(send) \in Seq(Items)
        /\ Len(send) \in Nat /\ Len(Tail(send)) = Len(send) - 1
        /\ \A i \in 1 .. Len(send) - 1 : Tail(send)[i] = send[i + 1]
    BY <2>1, HeadTailProperties, LenProperties DEF TypeOK
  <2>3. TypeOK'
    BY <1>1, <2>1, <2>2, SizesAssumption DEF TypeOK
  <2>4. HandsFull'
    BY <1>1, <1>2, <2>1, <2>2 DEF HandsFull
  <2>5. <<Head(send)>> \o Tail(send) = send
    <3>1. /\ <<Head(send)>> \in Seq(Items) /\ Len(<<Head(send)>>) = 1
          /\ <<Head(send)>>[1] = Head(send) /\ Head(send) = send[1]
      BY <2>1, <2>2 DEF TypeOK
    <3>2. /\ <<Head(send)>> \o Tail(send) \in Seq(Items)
          /\ Len(<<Head(send)>> \o Tail(send)) = 1 + Len(Tail(send))
          /\ \A i \in 1 .. 1 + Len(Tail(send)) :
                 (<<Head(send)>> \o Tail(send))[i] =
                    IF i <= 1 THEN <<Head(send)>>[i] ELSE Tail(send)[i - 1]
      BY <2>2, <3>1, ConcatProperties
    <3>3. 1 + Len(Tail(send)) = Len(send)
      BY <2>2
    <3>4. ASSUME NEW i \in 1 .. Len(send)
          PROVE  (<<Head(send)>> \o Tail(send))[i] = send[i]
      <4>1. CASE i = 1
        BY <3>1, <3>2, <3>3, <4>1
      <4>2. CASE i # 1
        <5>1. i - 1 \in 1 .. Len(send) - 1 /\ (i - 1) + 1 = i /\ ~(i <= 1)
          BY <2>2, <4>2
        <5>2. Tail(send)[i - 1] = send[i]
          BY <2>2, <5>1
        <5> QED
          BY <3>2, <3>3, <5>1, <5>2
      <4> QED
        BY <4>1, <4>2
    <3> QED
      BY <3>2, <3>3, <3>4, SeqEqual DEF TypeOK
  <2>6. Line' = Line
    <3>1. wire \in Seq(Items) /\ <<Head(send)>> \in Seq(Items)
      BY <2>2 DEF TypeOK
    <3>2. Line' = (wire \o <<Head(send)>>) \o Tail(send)
      BY <2>1 DEF Line, Held
    <3>3. Line = (wire \o <<>>) \o send
      BY <2>1 DEF Line, Held
    <3>4. Line = wire \o send
      BY <3>1, <3>3, ConcatEmptySeq
    <3> QED
      BY <2>2, <2>5, <3>1, <3>2, <3>4, ConcatAssociative
  <2>7. Writing' => Writing
    BY <2>1 DEF Writing
  <2> QED
    BY <1>1, <1>2, <2>1, <2>3, <2>4, <2>6, <2>7, StillNumbered
<1>4. CASE WriteMessage
  <2>1. /\ writePump = "write" /\ writePump' = "select" /\ UNCHANGED <<send, conn>>
        /\ wire' = IF conn = "open" THEN Append(wire, writing) ELSE wire
        /\ writing' = None
    BY <1>4 DEF WriteMessage
  <2>2. writing \in Items /\ wire \in Seq(Items) /\ send \in Seq(Items)
    BY <2>1 DEF TypeOK, HandsFull
  <2>3. /\ Append(wire, writing) \in Seq(Items)
        /\ Append(wire, writing) = wire \o <<writing>>
    BY <2>2, AppendProperties, AppendIsConcat
  <2>4. TypeOK'
    BY <1>1, <2>1, <2>2, <2>3 DEF TypeOK
  <2>5. HandsFull'
    BY <1>1, <1>2, <2>1 DEF HandsFull
  <2>6. ASSUME conn = "open"
        PROVE  Line' = Line
    <3>1. Line' = (Append(wire, writing) \o <<>>) \o send
      BY <2>1, <2>6 DEF Line, Held
    <3>2. Line = (wire \o <<writing>>) \o send
      BY <2>1 DEF Line, Held
    <3> QED
      BY <2>3, <3>1, <3>2, ConcatEmptySeq
  <2>7. (wire' = wire \/ Writing') /\ (Writing' => Writing /\ conn = "open")
    BY <2>1 DEF Writing
  <2> QED
    BY <1>1, <1>2, <2>4, <2>5, <2>6, <2>7, StillNumbered
<1>5. CASE WriteFails \/ WritePumpDone \/ CloseConn
  <2>1. /\ UNCHANGED <<send, wire>> /\ writePump' \in {"close", "gone"}
        /\ writing' \in {writing, None} /\ conn' \in {conn, "closed"}
    BY <1>5 DEF WriteFails, WritePumpDone, CloseConn
  <2>2. TypeOK'
    BY <1>1, <2>1 DEF TypeOK
  <2>3. HandsFull' /\ ~Writing'
    BY <1>1, <1>2, <2>1 DEF HandsFull, Writing
  <2> QED
    BY <1>1, <1>2, <2>1, <2>2, <2>3, StillNumbered
<1> QED
  BY <1>3, <1>4, <1>5 DEF WritePump

\* Every step keeps the invariant.
LEMMA QueueStep == QueueInv /\ [Next]_vars => QueueInv'
<1> SUFFICES ASSUME QueueInv, [Next]_vars
             PROVE  QueueInv'
  OBVIOUS
<1>1. CASE UNCHANGED vars
  <2>1. TypeOK' /\ HandsFull'
    BY <1>1 DEF vars, QueueInv, TypeOK, HandsFull, Pending
  <2>2. Line' = Line /\ (Writing' => Writing) /\ wire' = wire /\ skipped' = skipped
    BY <1>1 DEF vars, Line, Held, Writing
  <2>3. \A s : (Sending(s)' => Sending(s)) /\ Sent(s)' = Sent(s)
    BY <1>1 DEF vars, Sending, Sent, Pending
  <2> QED
    BY <2>1, <2>2, <2>3, StillNumbered DEF QueueInv
<1>2. AllGone => UNCHANGED vars
  BY DEF AllGone
<1> QED
  BY <1>1, <1>2, ReadPumpStep, ReaderStep, WritePumpStep DEF Next

\* The invariant holds in every reachable state.
LEMMA QueueCorrect == Spec => []QueueInv
<1>1. Init => QueueInv
  <2> SUFFICES ASSUME Init
               PROVE  QueueInv
    OBVIOUS
  <2>1. <<>> \in Seq(Items) /\ Len(<<>>) = 0 /\ DOMAIN <<>> = {} /\ <<>> \o <<>> = <<>>
    BY EmptySeq, ConcatEmptySeq, LenProperties
  <2>2. TypeOK
    <3>1. send \in Seq(Items) /\ Len(send) <= Capacity /\ wire \in Seq(Items)
      BY <2>1, SizesAssumption DEF Init
    <3>2. /\ reader \in [Readers -> {"recv", "enqueue", "gone"}]
          /\ \A s \in Senders : number[s] \in {0} \cup Numbers(s)
      BY DEF Init
    <3> QED
      BY <3>1, <3>2 DEF Init, TypeOK
  <2>3. HandsFull
    BY SenderNames DEF Init, HandsFull, Pending, Senders
  <2>4. wire = <<>> /\ Line = <<>>
    BY <2>1 DEF Init, Line, Held
  <2>5. \A s : Numbered(<<>>, s)
    BY <2>1 DEF Numbered
  <2>6. \A s \in Senders : UpTo(<<>>, s, 0) /\ Sent(s) = 0
    <3>1. 1 .. 0 = {}
      OBVIOUS
    <3>2. \A s \in Senders : Sent(s) = 0
      BY SenderNames DEF Init, Sent, Pending, Senders
    <3> QED
      BY <2>1, <3>1, <3>2 DEF UpTo
  <2>7. LineNumbered
    BY <2>4, <2>5, <2>6 DEF LineNumbered, Trusted
  <2> QED
    BY <2>2, <2>3, <2>7 DEF QueueInv
<1> QED
  BY <1>1, QueueStep, PTL DEF Spec
-----------------------------------------------------------------------------
\* The types, and the bound of the channel.
THEOREM TypeCorrect == Spec => []TypeOK
<1>1. QueueInv => TypeOK
  BY DEF QueueInv
<1> QED
  BY <1>1, QueueCorrect, PTL

\* The client gets one answer per request, in the order of its requests, also
\* when answers are given up for errors because the queue is full.
THEOREM AnswersArrive == Spec => []AnswersInOrder
<1>1. QueueInv => AnswersInOrder
  BY SenderNames DEF QueueInv, TypeOK, LineNumbered, Trusted, AnswersInOrder
<1> QED
  BY <1>1, QueueCorrect, PTL

\* The messages of a stream arrive in order and without a gap, however many
\* readers share the queue, unless the connection was closing anyway.
THEOREM MessagesArrive == Spec => []ForwardedWithoutGap
<1>1. QueueInv => ForwardedWithoutGap
  BY SenderNames DEF QueueInv, LineNumbered, Trusted, ForwardedWithoutGap
<1> QED
  BY <1>1, QueueCorrect, PTL
=============================================================================
