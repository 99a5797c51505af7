------------------------------- MODULE Outbox --------------------------------
(***************************************************************************)
(* One web socket connection (BeastSession in websocket_server_asio.cpp):   *)
(* messages for it are posted to its strand from any thread, queued there,   *)
(* and written one at a time.  The handlers of a strand run one after the    *)
(* other; what is posted runs in order, and the ends of reads and writes      *)
(* come in between.                                                         *)
(*                                                                         *)
(* After the connection has closed, a write that was under way may still     *)
(* succeed, and its handler then takes the front of an empty queue, which    *)
(* is undefined: no handler looks at the queue again, but its destruction    *)
(* does.                                                                    *)
(***************************************************************************)
EXTENDS Integers, Sequences

CONSTANT MaxSent    \* bounds the messages for the connection

ASSUME MaxSentAssumption == MaxSent \in Nat

VARIABLES
    open,         \* "handshake", "open" or "failed"
    listedSocket, \* the server's sessions has the connection
    sent,         \* how many messages were posted; they are 1, 2, ...
    onStrand,     \* what is posted to the strand: messages, CloseIt
    sendQueue,
    writing,
    underWay,     \* the writes that have begun and not ended
    written,      \* what the socket has taken
    closed

outboxVars == <<open, listedSocket, sent, onStrand, sendQueue, writing, underWay, written, closed>>

CloseIt == 0

OutboxInit ==
    /\ open = "handshake" /\ listedSocket = TRUE
    /\ sent = 0 /\ onStrand = << >> /\ sendQueue = << >>
    /\ writing = FALSE /\ underWay = << >> /\ written = << >> /\ closed = FALSE

-----------------------------------------------------------------------------
\* start: the end of the handshake; a connection whose handshake fails stays
\* listed.
Handshake(how) ==
    /\ open = "handshake"
    /\ open' = how
    /\ UNCHANGED <<listedSocket, sent, onStrand, sendQueue, writing, underWay, written, closed>>

\* sendTo, send: from any thread.
SendMessage ==
    /\ open = "open" /\ listedSocket
    /\ sent < MaxSent
    /\ sent' = sent + 1
    /\ onStrand' = Append(onStrand, sent + 1)
    /\ UNCHANGED <<open, listedSocket, sendQueue, writing, underWay, written, closed>>

\* stop, requestClose: the server ends, and then its threads, which may come to
\* run what is posted or not.
RequestClose ==
    /\ listedSocket /\ listedSocket' = FALSE
    /\ onStrand' = Append(onStrand, CloseIt)
    /\ UNCHANGED <<open, sent, sendQueue, writing, underWay, written, closed>>

-----------------------------------------------------------------------------
(* On the strand *)

\* doWrite: queue is what sendQueue has become, others are the writes under way.
DoWrite(queue, others) ==
    IF queue = << >> \/ closed
    THEN writing' = FALSE /\ underWay' = others
    ELSE writing' = TRUE /\ underWay' = Append(others, Head(queue))

\* Mutant of Enqueue: it does not wait for the write under way.
EnqueueAndWrite(m) ==
    IF closed THEN UNCHANGED <<sendQueue, writing, underWay>>
    ELSE /\ sendQueue' = Append(sendQueue, m)
         /\ DoWrite(sendQueue', underWay)

\* enqueueOnStrand.
Enqueue(m) ==
    IF closed THEN UNCHANGED <<sendQueue, writing, underWay>>
    ELSE /\ sendQueue' = Append(sendQueue, m)
         /\ IF writing THEN UNCHANGED <<writing, underWay>> ELSE DoWrite(sendQueue', underWay)

RunPosted ==
    /\ onStrand # << >>
    /\ onStrand' = Tail(onStrand)
    /\ IF Head(onStrand) = CloseIt
       THEN closed' = TRUE /\ UNCHANGED <<sendQueue, writing, underWay>>
       ELSE Enqueue(Head(onStrand)) /\ UNCHANGED closed
    /\ UNCHANGED <<open, listedSocket, sent, written>>

\* onClosed; after a requestClose it does nothing.
OnClosed ==
    IF closed THEN UNCHANGED <<listedSocket, sendQueue, writing, closed>>
    ELSE /\ closed' = TRUE
         /\ sendQueue' = << >>
         /\ writing' = FALSE
         /\ listedSocket' = FALSE

\* Mutant of WriteEnds: the next message waits for another to be sent.
WriteEndsOnly ==
    /\ underWay # << >>
    /\ written' = Append(written, Head(underWay))
    /\ sendQueue' = IF sendQueue = << >> THEN << >> ELSE Tail(sendQueue)
    /\ writing' = FALSE /\ underWay' = Tail(underWay)
    /\ UNCHANGED <<open, listedSocket, sent, onStrand, closed>>

\* The handler of doWrite, of a write that went well.
WriteEnds ==
    /\ underWay # << >>
    /\ written' = Append(written, Head(underWay))
    /\ sendQueue' = IF sendQueue = << >> THEN << >> ELSE Tail(sendQueue)
    /\ DoWrite(sendQueue', Tail(underWay))
    /\ UNCHANGED <<open, listedSocket, sent, onStrand, closed>>

WriteFails ==
    /\ underWay # << >>
    /\ underWay' = Tail(underWay)
    /\ OnClosed
    /\ UNCHANGED <<open, sent, onStrand, written>>

\* The handler of doRead: the client has closed, or the connection is lost.
ReadEnds ==
    /\ open = "open" /\ ~closed
    /\ OnClosed
    /\ UNCHANGED <<open, sent, onStrand, underWay, written>>

OutboxNext ==
    \/ \E how \in {"open", "failed"} : Handshake(how)
    \/ SendMessage
    \/ RequestClose
    \/ RunPosted
    \/ WriteEnds
    \/ WriteFails
    \/ ReadEnds

-----------------------------------------------------------------------------
(* Properties *)

\* Nothing is lost, doubled or overtaken on its way to an open connection, a close
\* comes after all that was sent, and while there is something in the queue exactly
\* one write is under way, that of the message at the front.
SentInOrder ==
    ~closed =>
        /\ written \o sendQueue \o onStrand =
               [n \in 1..sent |-> n] \o (IF listedSocket THEN << >> ELSE <<CloseIt>>)
        /\ underWay = IF sendQueue = << >> THEN << >> ELSE <<Head(sendQueue)>>

\* What is sent is written, or else the connection closes or the server stops.
SentIsWritten ==
    \A n \in 1..MaxSent :
        sent >= n ~> ~listedSocket \/ \E k \in DOMAIN written : written[k] = n
=============================================================================
