------------------------- MODULE WebsocketConnection -------------------------
(***************************************************************************)
(* One websocket connection of the server: the connection state machine of *)
(* WebsocketConnection.ts with its two asynchronous helpers,               *)
(* OutgoingMessageBuffer (a FIFO of frames that are extended, fragmented   *)
(* and written, with a wait for "drain" when the socket's buffer is full)  *)
(* and IncomingMessageBuffer (frame validation, assembly of fragments and  *)
(* a FIFO of asynchronous post-processing).                                *)
(*                                                                         *)
(* Everything between two awaits runs in one JavaScript turn and is one    *)
(* action.  The environment is the peer (Receive, Drain), the socket       *)
(* (SocketError, SocketClose) and the application (Send, AppClose).        *)
(*                                                                         *)
(* Payloads are abstracted: an outgoing frame is its place n in the order  *)
(* in which frames were accepted, an incoming message is the interval      *)
(* (from, to] of the data frames it was assembled from.                    *)
(***************************************************************************)
EXTENDS Naturals, Sequences

CONSTANTS
    MaxSent,      \* bound: frames the application (or the pinger) sends
    MaxReceived,  \* bound: frames the peer sends
    MaxFragments  \* bound: frames one outgoing frame may be cut into

ASSUME BoundsAssumption ==
    /\ MaxSent \in Nat
    /\ MaxReceived \in Nat
    /\ MaxFragments \in Nat \ {0}

VARIABLES
    state,      \* _state; the constructor leaves it Open
    closing,    \* which branch of close() ran: "no", "handshake", "immediate"
    socket,     \* "open", "ending" (the promise of the Close frame has
                \* resolved), "ended" (by us), "destroyed" (by an error),
                \* "closed"
    accepted,   \* number of frames sendDataFrame has put on the outgoing queue
    outQueue,   \* OutgoingMessageBuffer.queue
    cursor,     \* progress of sendData on the head of outQueue while it awaits
                \* "drain"; next = 0 when it does not
    lost,       \* frames dropped because an extension failed on them
    wire,       \* the frames written to the socket, in order
    received,   \* number of frames taken from the parser
    dataFrames, \* number of data frames that passed validation
    fragments,  \* length of IncomingMessageBuffer.queue
    pipeline,   \* IncomingMessageBuffer.postProcessingQueue
    delivered   \* messages handed to messageCallback

outgoing == <<accepted, outQueue, cursor, lost, wire>>
incoming == <<received, dataFrames, fragments, pipeline, delivered>>
vars == <<state, closing, socket, outgoing, incoming>>

ConnectionState == {"Open", "Closing", "Closed"}

Rank == [Open |-> 1, Closing |-> 2, Closed |-> 3]

(* The close codes this component puts in Close frames. NormalClosure also  *)
(* stands for any code the application chooses (CloseReason).               *)
CloseCode == {"NormalClosure", "ProtocolError", "AbnormalClosure",
              "InternalServerError", "TLSHandshake"}
NoCode == "none"

(* Sent by the application, by the pinger, in answer to a ping, by close(). *)
OutgoingOp == {"message", "ping", "pong", "close"}

OutgoingFrame == [op: OutgoingOp \ {"close"}, n: Nat, code: {NoCode}]
                    \cup [op: {"close"}, n: Nat, code: CloseCode]

(* op is that of the unfragmented frame: in the code a fragment other than  *)
(* the first is a ContinuationFrame.                                        *)
WireFrame == [op: OutgoingOp, n: Nat, code: CloseCode \cup {NoCode},
              part: Nat, isFinal: BOOLEAN]

(* What the parser may hand over: well-formed data and control frames, and  *)
(* "invalid" for an unknown opcode, a fragmented control frame or a control *)
(* frame with a reserved bit.                                               *)
PeerFrame == [op: {"text", "continuation"}, isFinal: BOOLEAN]
                \cup [op: {"ping", "pong", "close", "invalid"}, isFinal: {TRUE}]

PipelineFrame == [op: {"message", "ping", "pong", "close"}, from: Nat, to: Nat]

NotDraining == [next |-> 0, total |-> 0]

Writable == socket \in {"open", "ending"}

------------------------------------------------------------------------------
(* close(), sendDataFrame() and the outgoing buffer                          *)

(* Mutant of Enqueue: control frames jump the queue.                        *)
EnqueueUrgent(queue, op, code) ==
    LET frame == [op |-> op, n |-> accepted + 1, code |-> code]
    IN  IF op = "message" THEN Append(queue, frame) ELSE <<frame>> \o queue

(* Mutant of Enqueue: the Close frame is composed without its status code.  *)
EnqueueWithoutCode(queue, op, code) ==
    Append(queue, [op |-> op, n |-> accepted + 1, code |-> NoCode])

(* OutgoingMessageBuffer.write.                                             *)
Enqueue(queue, op, code) ==
    Append(queue, [op |-> op, n |-> accepted + 1, code |-> code])

(* Mutant of SendDataFrame: sending goes on until the socket is closed.     *)
SendDataFrameWhileClosing(queue, op) ==
    IF state # "Closed"
    THEN /\ outQueue' = Enqueue(queue, op, NoCode)
         /\ accepted' = accepted + 1
    ELSE /\ outQueue' = queue
         /\ UNCHANGED accepted

(* sendDataFrame: dropped once the connection is closing.                   *)
SendDataFrame(queue, op) ==
    IF state = "Open"
    THEN /\ outQueue' = Enqueue(queue, op, NoCode)
         /\ accepted' = accepted + 1
    ELSE /\ outQueue' = queue
         /\ UNCHANGED accepted

(* close(code, message, immediate = true): the socket is ended at once.     *)
CloseImmediately ==
    IF state = "Open"
    THEN /\ state' = "Closing"
         /\ closing' = "immediate"
         /\ socket' = IF Writable THEN "ended" ELSE socket
    ELSE UNCHANGED <<state, closing, socket>>

(* close(code) up to its await: the Close frame is queued behind everything *)
(* sent before it, then the state changes; EndSocket follows.               *)
Close(queue, code) ==
    IF state = "Open"
    THEN /\ outQueue' = Enqueue(queue, "close", code)
         /\ accepted' = accepted + 1
         /\ state' = "Closing"
         /\ closing' = "handshake"
    ELSE /\ outQueue' = queue
         /\ UNCHANGED <<accepted, state, closing>>

Init ==
    /\ state = "Open"
    /\ closing = "no"
    /\ socket = "open"
    /\ accepted = 0
    /\ outQueue = <<>>
    /\ cursor = NotDraining
    /\ lost = {}
    /\ wire = <<>>
    /\ received = 0
    /\ dataFrames = 0
    /\ fragments = 0
    /\ pipeline = <<>>
    /\ delivered = <<>>

(* The application sends a message, or KeepAliveManager a ping.             *)
Send(op) ==
    /\ accepted < MaxSent
    /\ SendDataFrame(outQueue, op)
    /\ UNCHANGED <<state, closing, socket, cursor, lost, wire, incoming>>

(* The application closes the connection; a lost connection is closed by    *)
(* KeepAliveManager with AbnormalClosure.                                   *)
AppClose(code) ==
    /\ Close(outQueue, code)
    /\ UNCHANGED <<socket, cursor, lost, wire, incoming>>

(* Mutant of Finish: close() is not resumed after its await.                *)
FinishWithoutEnd ==
    /\ outQueue' = Tail(outQueue)
    /\ cursor' = NotDraining
    /\ UNCHANGED socket

(* The head of the queue is done with: its promise resolves, and if it was  *)
(* the Close frame close() is about to go on (EndSocket).                   *)
Finish ==
    /\ outQueue' = Tail(outQueue)
    /\ cursor' = NotDraining
    /\ socket' = IF Head(outQueue).op = "close" /\ Writable
                 THEN "ending" ELSE socket

(* close() after its await. Several promises lie between the write of the   *)
(* Close frame and this continuation: the outgoing queue may run first.     *)
EndSocket ==
    /\ socket = "ending"
    /\ socket' = "ended"
    /\ UNCHANGED <<state, closing, outgoing, incoming>>

(* Fragments i..j of a frame that is cut into `total` of them.               *)
Part(frame, i, total) ==
    [op |-> frame.op, n |-> frame.n, code |-> frame.code,
     part |-> i, isFinal |-> i = total]

Parts(frame, i, j, total) ==
    [k \in 1..(j - i + 1) |-> Part(frame, i + k - 1, total)]

(* Mutant of WriteFrom: the loop is left, not resumed, on "drain".          *)
WriteOnce(i, total) ==
    \/ /\ ~Writable \/ i > 1
       /\ Finish
       /\ UNCHANGED wire
    \/ /\ Writable /\ i = 1
       /\ \E j \in i..total :
             /\ wire' = wire \o Parts(Head(outQueue), i, j, total)
             /\ IF j = total
                THEN Finish
                ELSE /\ cursor' = [next |-> j + 1, total |-> total]
                     /\ UNCHANGED <<outQueue, socket>>

(* The loop of sendData from fragment i on: it writes until the socket asks *)
(* it to wait (flushed = FALSE, also possible after the last fragment) or   *)
(* until nothing is left.  Ended or destroyed sockets are skipped.          *)
WriteFrom(i, total) ==
    \/ /\ ~Writable \/ i > total
       /\ Finish
       /\ UNCHANGED wire
    \/ /\ Writable /\ i <= total
       /\ wire' = wire \o Parts(Head(outQueue), i, total, total)
       /\ Finish
    \/ /\ Writable
       /\ \E j \in i..total :
             /\ wire' = wire \o Parts(Head(outQueue), i, j, total)
             /\ cursor' = [next |-> j + 1, total |-> total]
       /\ UNCHANGED <<outQueue, socket>>

(* The extensions have processed the head of the queue and it is cut into   *)
(* `total` fragments.                                                       *)
Transmit ==
    /\ outQueue # <<>>
    /\ cursor.next = 0
    /\ \E total \in 1..MaxFragments : WriteFrom(1, total)
    /\ UNCHANGED <<state, closing, accepted, lost, incoming>>

(* The extensions fail on a message: it is dropped, and sendDataFrame's     *)
(* catch closes the connection.                                             *)
TransmitFails ==
    /\ outQueue # <<>>
    /\ cursor.next = 0
    /\ Head(outQueue).op = "message"
    /\ lost' = lost \cup {Head(outQueue).n}
    /\ Close(Tail(outQueue), "AbnormalClosure")
    /\ UNCHANGED <<socket, cursor, wire, incoming>>

(* Mutant of Drain: the wait after the last fragment is never resolved.     *)
DrainBetweenFragments ==
    /\ cursor.next \in 1..cursor.total
    /\ Writable
    /\ WriteFrom(cursor.next, cursor.total)
    /\ UNCHANGED <<state, closing, accepted, lost, incoming>>

(* "drain": emitted by a socket that has neither been ended nor destroyed.  *)
Drain ==
    /\ cursor.next > 0
    /\ Writable
    /\ WriteFrom(cursor.next, cursor.total)
    /\ UNCHANGED <<state, closing, accepted, lost, incoming>>

------------------------------------------------------------------------------
(* The incoming buffer and parsedDataHandler                                 *)

(* Start of the next message in the numbering of data frames.               *)
Assembled == dataFrames - fragments

PostProcess(frame) == pipeline' = Append(pipeline, frame)

ControlFrame(op) == [op |-> op, from |-> Assembled, to |-> Assembled]

(* validateDataFrame rejects: the error is dispatched in this very turn,    *)
(* ahead of frames that still wait in the pipeline.                         *)
Reject ==
    /\ CloseImmediately
    /\ UNCHANGED <<outgoing, dataFrames, fragments, pipeline>>

OutOfSequence(frame) ==
    \/ frame.op = "continuation" /\ fragments = 0
    \/ frame.op = "text" /\ fragments > 0

(* A data frame in sequence: kept until the final one completes a message.  *)
Assemble(frame) ==
    /\ dataFrames' = dataFrames + 1
    /\ IF frame.isFinal
       THEN /\ PostProcess([op |-> "message", from |-> Assembled,
                            to |-> dataFrames + 1])
            /\ fragments' = 0
       ELSE /\ fragments' = fragments + 1
            /\ UNCHANGED pipeline

ValidateDataFrame(frame) ==
    \/ /\ frame.op = "invalid" \/ OutOfSequence(frame)
       /\ Reject
    \/ /\ frame.op \in {"ping", "pong", "close"}
       /\ PostProcess(ControlFrame(frame.op))
       /\ UNCHANGED <<state, closing, socket, outgoing, dataFrames, fragments>>
    \/ /\ frame.op \in {"text", "continuation"} /\ ~OutOfSequence(frame)
       /\ Assemble(frame)
       /\ UNCHANGED <<state, closing, socket, outgoing>>

(* The parser hands over the next frame; it stops when the socket closes.   *)
Receive(frame) ==
    /\ state # "Closed"
    /\ received < MaxReceived
    /\ received' = received + 1
    /\ ValidateDataFrame(frame)
    /\ UNCHANGED delivered

(* Post-processing throws (an extension fails).                             *)
PostProcessThrows ==
    /\ pipeline # <<>>
    /\ pipeline' = Tail(pipeline)
    /\ Head(pipeline).op = "message"
    /\ Close(outQueue, "InternalServerError")
    /\ UNCHANGED <<socket, cursor, lost, wire, received, dataFrames, fragments,
                   delivered>>

(* Post-processing finds reserved bits left over or invalid UTF-8.          *)
PostProcessRejects ==
    /\ pipeline # <<>>
    /\ pipeline' = Tail(pipeline)
    /\ Head(pipeline).op = "message"
    /\ CloseImmediately
    /\ UNCHANGED <<outgoing, received, dataFrames, fragments, delivered>>

(* Mutant of Dropped: only a closed connection stops dispatching.           *)
DroppedOnceClosed(frame) == state = "Closed" /\ frame.op # "close"

(* parsedDataHandler lets only Close frames through once closing.           *)
Dropped(frame) == state # "Open" /\ frame.op # "close"

(* processPingFrame: an oversized ping fails the connection.                *)
ProcessPingFrame ==
    \/ /\ SendDataFrame(outQueue, "pong")
       /\ UNCHANGED <<state, closing>>
    \/ Close(outQueue, "ProtocolError")

(* processConnectionCloseFrame: a malformed payload is answered with        *)
(* ProtocolError, any other with its own code or NormalClosure.  1005 and   *)
(* 1006 are refused, 1015 (TLSHandshake) is echoed.                         *)
ProcessConnectionCloseFrame ==
    \E code \in {"NormalClosure", "ProtocolError", "TLSHandshake"} :
        Close(outQueue, code)

Deliver(frame) ==
    delivered' = Append(delivered, [from |-> frame.from, to |-> frame.to])

ParsedDataHandler(frame) ==
    \/ /\ Dropped(frame) \/ frame.op = "pong"
       /\ UNCHANGED <<state, closing, accepted, outQueue, delivered>>
    \/ /\ ~Dropped(frame) /\ frame.op = "message"
       /\ Deliver(frame)
       /\ UNCHANGED <<state, closing, accepted, outQueue>>
    \/ /\ ~Dropped(frame) /\ frame.op = "ping"
       /\ ProcessPingFrame
       /\ UNCHANGED delivered
    \/ /\ ~Dropped(frame) /\ frame.op = "close"
       /\ ProcessConnectionCloseFrame
       /\ UNCHANGED delivered

(* The head of the pipeline is post-processed and dispatched.               *)
Dispatch ==
    /\ pipeline # <<>>
    /\ pipeline' = Tail(pipeline)
    /\ ParsedDataHandler(Head(pipeline))
    /\ UNCHANGED <<socket, cursor, lost, wire, received, dataFrames, fragments>>

------------------------------------------------------------------------------
(* Socket events                                                             *)

(* "error": the socket is already destroyed when the handler closes the     *)
(* connection, so the Close frame it queues is never written.               *)
SocketError ==
    /\ socket \in {"open", "ending", "ended"}
    /\ socket' = "destroyed"
    /\ Close(outQueue, "AbnormalClosure")
    /\ UNCHANGED <<cursor, lost, wire, incoming>>

(* "close": the last event of a socket.                                     *)
SocketClose ==
    /\ socket # "closed"
    /\ socket' = "closed"
    /\ state' = "Closed"
    /\ UNCHANGED <<closing, outgoing, incoming>>

------------------------------------------------------------------------------

Next ==
    \/ \E op \in {"message", "ping"} : Send(op)
    \/ \E code \in {"NormalClosure", "AbnormalClosure"} : AppClose(code)
    \/ Transmit
    \/ TransmitFails
    \/ Drain
    \/ EndSocket
    \/ \E frame \in PeerFrame : Receive(frame)
    \/ Dispatch
    \/ PostProcessThrows
    \/ PostProcessRejects
    \/ SocketError
    \/ SocketClose

(* Promise continuations always run: the event loop takes the head of each  *)
(* queue sooner or later.  Drain is the peer's (it reads, or its host kills *)
(* the socket); the application and the peer owe nothing else.              *)
Fairness ==
    /\ WF_vars(Transmit)
    /\ WF_vars(Drain)
    /\ WF_vars(EndSocket)
    /\ WF_vars(Dispatch)

Spec == Init /\ [][Next]_vars /\ Fairness

------------------------------------------------------------------------------
(* Properties                                                                *)

TypeOK ==
    /\ state \in ConnectionState
    /\ closing \in {"no", "handshake", "immediate"}
    /\ socket \in {"open", "ending", "ended", "destroyed", "closed"}
    /\ accepted \in Nat
    /\ outQueue \in Seq(OutgoingFrame)
    /\ cursor \in [next: Nat, total: Nat]
    /\ lost \subseteq Nat
    /\ wire \in Seq(WireFrame)
    /\ received \in Nat
    /\ dataFrames \in Nat
    /\ fragments \in 0..dataFrames
    /\ pipeline \in Seq(PipelineFrame)
    /\ delivered \in Seq([from: Nat, to: Nat])

Follows(f, g) ==
    \/ ~f.isFinal /\ g.n = f.n /\ g.op = f.op /\ g.part = f.part + 1
    \/ f.isFinal /\ g.n > f.n /\ g.part = 1

(* Frames reach the wire in the order sendDataFrame accepted them, and the  *)
(* fragments of one frame are never interleaved with another frame, however *)
(* often sendData is suspended on "drain" between two of them.              *)
WireInOrder ==
    \A i \in 1..(Len(wire) - 1) : Follows(wire[i], wire[i + 1])

(* Nothing but the rest of itself follows a Close frame: no reply, ping or  *)
(* message that was queued or sent concurrently with close().               *)
NothingAfterCloseFrame ==
    \A i \in 1..(Len(wire) - 1) :
        wire[i].op = "close" => ~wire[i].isFinal /\ wire[i + 1].n = wire[i].n

Written(n) == \E i \in 1..Len(wire) : wire[i].n = n /\ wire[i].isFinal

(* A close handshake loses nothing: when close() ends the socket, every     *)
(* frame accepted before it, and the Close frame itself, is on the wire,    *)
(* except those an extension failed on.                                     *)
HandshakeFlushesQueue ==
    closing = "handshake" /\ socket = "ended" =>
        \A n \in 1..accepted : n \in lost \/ Written(n)

(* The application sees the peer's messages in order and without a gap,     *)
(* although errors found by validation overtake messages that are still     *)
(* being post-processed.                                                    *)
DeliveredWithoutGap ==
    /\ delivered # <<>> => delivered[1].from = 0
    /\ \A i \in 1..(Len(delivered) - 1) :
          delivered[i + 1].from = delivered[i].to

(* setState's throw for a state that does not advance is unreachable.       *)
StateOnlyAdvances == [][state' # state => Rank[state'] > Rank[state]]_vars

(* A Close frame from the peer leads to the end of the socket, whatever is  *)
(* queued before it in either direction.                                    *)
PeerCloseEndsSocket ==
    (\E i \in 1..Len(pipeline) : pipeline[i].op = "close") ~> ~Writable

(* What was sent leaves the queue, as long as the socket lives.             *)
QueueDrains == outQueue # <<>> ~> (outQueue = <<>> \/ ~Writable)

(* The number of the last frame whose final fragment is in w.               *)
LastFinal(w) ==
    IF \E i \in DOMAIN w : w[i].isFinal
    THEN w[CHOOSE i \in DOMAIN w :
             w[i].isFinal /\ \A j \in DOMAIN w : w[j].isFinal => j <= i].n
    ELSE 0

LastSent == LastFinal(wire)

LastDelivered ==
    IF delivered = <<>> THEN 0 ELSE delivered[Len(delivered)].to

Line == IF Writable THEN "up" ELSE IF socket = "ended" THEN "ended" ELSE "broken"

Channel == INSTANCE OrderedChannel
    WITH status <- state, how <- closing, line <- Line,
         sent <- LastSent, delivered <- LastDelivered

(* With its queues, fragments, waits for "drain", failing extensions and    *)
(* the orders in which their continuations run, a connection is an ordered  *)
(* channel.                                                                 *)
ImplementsOrderedChannel == Channel!Spec

(* CloseCode.ts:30-46 and 81-86: 1005, 1006 and 1015 are reserved and must  *)
(* not be set as a status code in a Close frame by an endpoint.             *)
ReservedCodesNotSent ==
    \A i \in 1..Len(wire) : wire[i].code \notin {"AbnormalClosure", "TLSHandshake"}

==============================================================================
