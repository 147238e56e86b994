---------------------- MODULE WebsocketConnectionProofs ----------------------
(***************************************************************************)
(* Proofs about WebsocketConnection, for any number of frames in either    *)
(* direction and any fragmentation, and that it implements OrderedChannel: *)
(* what the users of a connection may rely on without knowing its queues.  *)
(***************************************************************************)
EXTENDS WebsocketConnection, SequenceTheorems, TLAPS

------------------------------------------------------------------------------
(* Lemmas about the operators                                                *)

LEMMA EnqueueType ==
    ASSUME NEW queue \in Seq(OutgoingFrame), NEW op, NEW code,
           accepted \in Nat,
           \/ op \in OutgoingOp \ {"close"} /\ code = NoCode
           \/ op = "close" /\ code \in CloseCode
    PROVE  Enqueue(queue, op, code) \in Seq(OutgoingFrame)
<1> DEFINE f == [op |-> op, n |-> accepted + 1, code |-> code]
<1>1. f \in OutgoingFrame
  BY DEF OutgoingFrame
<1>. QED
  BY <1>1, AppendProperties DEF Enqueue

LEMMA CloseType ==
    ASSUME TypeOK, NEW queue \in Seq(OutgoingFrame), NEW code \in CloseCode,
           Close(queue, code)
    PROVE  /\ state' \in ConnectionState
           /\ closing' \in {"no", "handshake", "immediate"}
           /\ accepted' \in Nat
           /\ outQueue' \in Seq(OutgoingFrame)
<1>1. Enqueue(queue, "close", code) \in Seq(OutgoingFrame)
  BY EnqueueType DEF TypeOK
<1>. QED
  BY <1>1 DEF Close, TypeOK, ConnectionState

LEMMA SendDataFrameType ==
    ASSUME TypeOK, NEW op \in OutgoingOp \ {"close"}, SendDataFrame(outQueue, op)
    PROVE  /\ accepted' \in Nat
           /\ outQueue' \in Seq(OutgoingFrame)
<1>1. Enqueue(outQueue, op, NoCode) \in Seq(OutgoingFrame)
  BY EnqueueType DEF TypeOK
<1>. QED
  BY <1>1 DEF SendDataFrame, TypeOK

LEMMA CloseImmediatelyType ==
    ASSUME TypeOK, CloseImmediately
    PROVE  /\ state' \in ConnectionState
           /\ closing' \in {"no", "handshake", "immediate"}
           /\ socket' \in {"open", "ending", "ended", "destroyed", "closed"}
BY DEF CloseImmediately, TypeOK, ConnectionState

LEMMA PartFields ==
    ASSUME NEW frame \in OutgoingFrame, NEW i \in Nat, NEW total \in Nat
    PROVE  /\ Part(frame, i, total) \in WireFrame
           /\ Part(frame, i, total).n = frame.n
           /\ Part(frame, i, total).op = frame.op
           /\ Part(frame, i, total).part = i
           /\ Part(frame, i, total).isFinal <=> i = total
<1>1. frame.op \in OutgoingOp /\ frame.n \in Nat /\ frame.code \in CloseCode \cup {NoCode}
  BY DEF OutgoingFrame, OutgoingOp
<1>2. (i = total) \in BOOLEAN
  OBVIOUS
<1>. QED
  BY <1>1, <1>2 DEF WireFrame, Part

LEMMA PartsProperties ==
    ASSUME NEW frame \in OutgoingFrame, NEW i \in Nat, NEW j \in Nat,
           NEW total \in Nat, i <= j
    PROVE  /\ Parts(frame, i, j, total) \in Seq(WireFrame)
           /\ Len(Parts(frame, i, j, total)) = j - i + 1
           /\ \A k \in 1..(j - i + 1) :
                 Parts(frame, i, j, total)[k] = Part(frame, i + k - 1, total)
<1> DEFINE m == j - i + 1
           e(k) == Part(frame, i + k - 1, total)
           p == [k \in 1..m |-> e(k)]
<1>1. m \in Nat
  OBVIOUS
<1>2. ASSUME NEW k \in 1..m PROVE e(k) \in WireFrame
  <2>1. i + k - 1 \in Nat
    OBVIOUS
  <2>. QED
    BY <2>1, PartFields
<1> HIDE DEF e
<1>3. p \in [1..m -> WireFrame]
  BY <1>2
<1> HIDE DEF m
<1>4. p \in Seq(WireFrame) /\ Len(p) = m /\ \A k \in 1..m : p[k] = e(k)
  BY <1>1, <1>3
<1>. QED
  BY <1>4 DEF Parts, m, e

(* What WriteFrom does to the queue, the cursor and the wire.                *)
LEMMA WriteFromType ==
    ASSUME TypeOK, outQueue # <<>>, NEW i \in Nat \ {0}, NEW total \in Nat,
           WriteFrom(i, total)
    PROVE  /\ outQueue' \in Seq(OutgoingFrame)
           /\ cursor' \in [next: Nat, total: Nat]
           /\ socket' \in {"open", "ending", "ended", "destroyed", "closed"}
           /\ wire' \in Seq(WireFrame)
<1>1. /\ Head(outQueue) \in OutgoingFrame
      /\ Tail(outQueue) \in Seq(OutgoingFrame)
  BY HeadTailProperties DEF TypeOK
<1>2. Finish => /\ outQueue' \in Seq(OutgoingFrame)
                /\ cursor' \in [next: Nat, total: Nat]
                /\ socket' \in {"open", "ending", "ended", "destroyed", "closed"}
  BY <1>1 DEF Finish, NotDraining, TypeOK
<1>3. ASSUME NEW j \in Nat, i <= j
      PROVE  wire \o Parts(Head(outQueue), i, j, total) \in Seq(WireFrame)
  BY <1>1, <1>3, PartsProperties, ConcatProperties DEF TypeOK
<1>4. CASE (~Writable \/ i > total) /\ Finish /\ UNCHANGED wire
  BY <1>2, <1>4 DEF TypeOK
<1>5. CASE /\ Writable /\ i <= total
           /\ wire' = wire \o Parts(Head(outQueue), i, total, total)
           /\ Finish
  BY <1>2, <1>3, <1>5
<1>6. CASE /\ Writable
           /\ \E j \in i..total :
                 /\ wire' = wire \o Parts(Head(outQueue), i, j, total)
                 /\ cursor' = [next |-> j + 1, total |-> total]
           /\ UNCHANGED <<outQueue, socket>>
  <2>1. PICK j \in i..total :
           /\ wire' = wire \o Parts(Head(outQueue), i, j, total)
           /\ cursor' = [next |-> j + 1, total |-> total]
    BY <1>6
  <2>2. j \in Nat /\ i <= j
    OBVIOUS
  <2>. QED
    BY <1>3, <1>6, <2>1, <2>2, SMTT(30) DEF TypeOK
<1>. QED
  BY <1>4, <1>5, <1>6 DEF WriteFrom

------------------------------------------------------------------------------
(* Type correctness                                                          *)

LEMMA InitTypeOK == Init => TypeOK
BY DEF Init, TypeOK, ConnectionState, NotDraining

LEMMA SendTypeOK ==
    ASSUME TypeOK, NEW op \in {"message", "ping"}, Send(op)
    PROVE  TypeOK'
<1>1. op \in OutgoingOp \ {"close"}
  BY DEF OutgoingOp
<1>. QED
  BY <1>1, SendDataFrameType DEF Send, TypeOK, incoming

LEMMA AppCloseTypeOK ==
    ASSUME TypeOK, NEW code \in {"NormalClosure", "AbnormalClosure"}, AppClose(code)
    PROVE  TypeOK'
<1>1. code \in CloseCode /\ outQueue \in Seq(OutgoingFrame)
  BY DEF CloseCode, TypeOK
<1>. QED
  BY <1>1, CloseType DEF AppClose, TypeOK, incoming

LEMMA TransmitTypeOK == TypeOK /\ Transmit => TypeOK'
<1> SUFFICES ASSUME TypeOK, Transmit PROVE TypeOK'
  OBVIOUS
<1>1. PICK total \in 1..MaxFragments : WriteFrom(1, total)
  BY DEF Transmit
<1>2. total \in Nat
  BY BoundsAssumption
<1>. QED
  BY <1>1, <1>2, WriteFromType DEF Transmit, TypeOK, incoming

LEMMA DrainTypeOK ==
    ASSUME TypeOK, outQueue # <<>>, Drain
    PROVE  TypeOK'
<1>1. cursor.next \in Nat \ {0} /\ cursor.total \in Nat
  BY DEF Drain, TypeOK
<1>. QED
  BY <1>1, WriteFromType DEF Drain, TypeOK, incoming

LEMMA TransmitFailsTypeOK == TypeOK /\ TransmitFails => TypeOK'
<1> SUFFICES ASSUME TypeOK, TransmitFails PROVE TypeOK'
  OBVIOUS
<1>1. /\ Head(outQueue) \in OutgoingFrame
      /\ Tail(outQueue) \in Seq(OutgoingFrame)
      /\ "AbnormalClosure" \in CloseCode
  BY HeadTailProperties DEF TypeOK, TransmitFails, CloseCode
<1>2. lost' \subseteq Nat
  BY <1>1 DEF TransmitFails, TypeOK, OutgoingFrame
<1>. QED
  BY <1>1, <1>2, CloseType DEF TransmitFails, TypeOK, incoming

LEMMA ReceiveTypeOK ==
    ASSUME TypeOK, NEW frame \in PeerFrame, Receive(frame)
    PROVE  TypeOK'
<1>1. Assembled \in Nat
  BY DEF Assembled, TypeOK
<1>2. CASE Reject
  BY <1>2, CloseImmediatelyType DEF Reject, Receive, TypeOK, outgoing
<1>3. CASE /\ frame.op \in {"ping", "pong", "close"}
           /\ PostProcess(ControlFrame(frame.op))
           /\ UNCHANGED <<state, closing, socket, outgoing, dataFrames, fragments>>
  <2>1. ControlFrame(frame.op) \in PipelineFrame
    BY <1>1, <1>3 DEF ControlFrame, PipelineFrame
  <2>2. pipeline' \in Seq(PipelineFrame)
    BY <1>3, <2>1, AppendProperties DEF PostProcess, TypeOK
  <2>. QED
    BY <1>3, <2>2 DEF Receive, TypeOK, outgoing
<1>4. CASE Assemble(frame) /\ UNCHANGED <<state, closing, socket, outgoing>>
  <2>1. [op |-> "message", from |-> Assembled, to |-> dataFrames + 1] \in PipelineFrame
    BY <1>1 DEF PipelineFrame, TypeOK
  <2>2. pipeline' \in Seq(PipelineFrame)
    <3> DEFINE message == [op |-> "message", from |-> Assembled, to |-> dataFrames + 1]
    <3>1. CASE frame.isFinal
      <4>1. pipeline' = Append(pipeline, message)
        BY <1>4, <3>1, Zenon DEF Assemble, PostProcess
      <4>2. message \in PipelineFrame /\ pipeline \in Seq(PipelineFrame)
        BY <2>1 DEF TypeOK
      <4>. QED
        BY <4>1, <4>2, AppendProperties
    <3>2. CASE ~frame.isFinal
      <4>1. pipeline' = pipeline
        BY <1>4, <3>2, Zenon DEF Assemble
      <4>. QED
        BY <4>1 DEF TypeOK
    <3>. QED
      BY <3>1, <3>2
  <2>3. dataFrames' \in Nat /\ fragments' \in 0..dataFrames'
    BY <1>4 DEF Assemble, TypeOK
  <2>. QED
    BY <1>4, <2>2, <2>3 DEF Receive, TypeOK, outgoing
<1>. QED
  BY <1>2, <1>3, <1>4 DEF Receive, ValidateDataFrame

LEMMA PostProcessThrowsTypeOK == TypeOK /\ PostProcessThrows => TypeOK'
<1> SUFFICES ASSUME TypeOK, PostProcessThrows PROVE TypeOK'
  OBVIOUS
<1>1. pipeline' \in Seq(PipelineFrame)
  BY HeadTailProperties DEF PostProcessThrows, TypeOK
<1>2. "InternalServerError" \in CloseCode /\ outQueue \in Seq(OutgoingFrame)
  BY DEF CloseCode, TypeOK
<1>. QED
  BY <1>1, <1>2, CloseType DEF PostProcessThrows, TypeOK

LEMMA PostProcessRejectsTypeOK == TypeOK /\ PostProcessRejects => TypeOK'
<1> SUFFICES ASSUME TypeOK, PostProcessRejects PROVE TypeOK'
  OBVIOUS
<1>1. pipeline' \in Seq(PipelineFrame)
  BY HeadTailProperties DEF PostProcessRejects, TypeOK
<1>. QED
  BY <1>1, CloseImmediatelyType DEF PostProcessRejects, TypeOK, outgoing

LEMMA DispatchTypeOK == TypeOK /\ Dispatch => TypeOK'
<1> SUFFICES ASSUME TypeOK, Dispatch PROVE TypeOK'
  OBVIOUS
<1> DEFINE frame == Head(pipeline)
<1>1. pipeline' \in Seq(PipelineFrame) /\ frame \in PipelineFrame
  BY HeadTailProperties DEF Dispatch, TypeOK
<1>2. SUFFICES /\ state' \in ConnectionState
               /\ closing' \in {"no", "handshake", "immediate"}
               /\ accepted' \in Nat
               /\ outQueue' \in Seq(OutgoingFrame)
               /\ delivered' \in Seq([from: Nat, to: Nat])
  BY <1>1 DEF Dispatch, TypeOK
<1>3. CASE UNCHANGED <<state, closing, accepted, outQueue, delivered>>
  BY <1>3 DEF TypeOK
<1>4. CASE Deliver(frame) /\ UNCHANGED <<state, closing, accepted, outQueue>>
  <2>1. [from |-> frame.from, to |-> frame.to] \in [from: Nat, to: Nat]
    BY <1>1 DEF PipelineFrame
  <2>. QED
    BY <1>4, <2>1, AppendProperties DEF Deliver, TypeOK
<1>5. CASE ProcessPingFrame /\ UNCHANGED delivered
  <2>1. "pong" \in OutgoingOp \ {"close"} /\ "ProtocolError" \in CloseCode
        /\ outQueue \in Seq(OutgoingFrame)
    BY DEF OutgoingOp, CloseCode, TypeOK
  <2>2. CASE SendDataFrame(outQueue, "pong") /\ UNCHANGED <<state, closing>>
    BY <1>5, <2>1, <2>2, SendDataFrameType DEF TypeOK
  <2>3. CASE Close(outQueue, "ProtocolError")
    BY <1>5, <2>1, <2>3, CloseType DEF TypeOK
  <2>. QED
    BY <1>5, <2>2, <2>3 DEF ProcessPingFrame
<1>6. CASE ProcessConnectionCloseFrame /\ UNCHANGED delivered
  <2>1. PICK code \in CloseCode : Close(outQueue, code)
    BY <1>6 DEF ProcessConnectionCloseFrame, CloseCode
  <2>2. outQueue \in Seq(OutgoingFrame)
    BY DEF TypeOK
  <2>. QED
    BY <1>6, <2>1, <2>2, CloseType DEF TypeOK
<1>. QED
  BY <1>3, <1>4, <1>5, <1>6 DEF Dispatch, ParsedDataHandler

LEMMA SocketErrorTypeOK == TypeOK /\ SocketError => TypeOK'
<1> SUFFICES ASSUME TypeOK, SocketError PROVE TypeOK'
  OBVIOUS
<1>1. "AbnormalClosure" \in CloseCode /\ outQueue \in Seq(OutgoingFrame)
  BY DEF CloseCode, TypeOK
<1>. QED
  BY <1>1, CloseType DEF SocketError, TypeOK, incoming

LEMMA SocketCloseTypeOK == TypeOK /\ SocketClose => TypeOK'
BY DEF SocketClose, TypeOK, ConnectionState, outgoing, incoming

------------------------------------------------------------------------------
(* The inductive invariant                                                   *)

(* The queue holds the frames accepted last, in order.                       *)
QueueNumbered ==
    /\ Len(outQueue) <= accepted
    /\ \A i \in 1..Len(outQueue) : outQueue[i].n = accepted - Len(outQueue) + i

(* A Close frame, queued or written, is the last frame ever accepted.        *)
CloseIsLast ==
    /\ state = "Open" => closing = "no"
    /\ socket = "ended" => closing # "no"
    /\ socket = "open" /\ closing # "handshake" => state = "Open"
    /\ closing # "no" => state # "Open"
    /\ \A i \in 1..Len(outQueue) :
          outQueue[i].op = "close" => state # "Open" /\ i = Len(outQueue)
    /\ \A i \in 1..Len(wire) :
          wire[i].op = "close" => state # "Open" /\ wire[i].n = accepted

(* Where sendData stands: between frames (the last one on the wire is whole) *)
(* or waiting within the head of the queue.                                  *)
CursorOnHead ==
    /\ cursor.next = 0 => (wire # <<>> => wire[Len(wire)].isFinal)
    /\ cursor.next > 0 =>
          /\ outQueue # <<>>
          /\ wire # <<>>
          /\ wire[Len(wire)].n = Head(outQueue).n
          /\ wire[Len(wire)].op = Head(outQueue).op
          /\ wire[Len(wire)].part = cursor.next - 1
          /\ wire[Len(wire)].isFinal <=> cursor.next = cursor.total + 1
          /\ cursor.next <= cursor.total + 1
          /\ cursor.total > 0
    /\ \A i \in 1..Len(wire) :
          wire[i].n <= accepted - Len(outQueue) + (IF cursor.next > 0 THEN 1 ELSE 0)

(* What has left the queue is on the wire, while the socket can be written.  *)
Flushed ==
    /\ Writable =>
          \A n \in 1..(accepted - Len(outQueue)) : n \in lost \/ Written(n)
    /\ socket = "ending" => closing = "handshake" /\ outQueue = <<>>
    /\ closing = "handshake" /\ socket = "ended" =>
          /\ outQueue = <<>>
          /\ \A n \in 1..accepted : n \in lost \/ Written(n)

OutgoingInv ==
    QueueNumbered /\ CloseIsLast /\ CursorOnHead /\ WireInOrder /\ Flushed

DeliveredUpTo == IF delivered = <<>> THEN 0 ELSE delivered[Len(delivered)].to
PipelineStart == IF pipeline = <<>> THEN Assembled ELSE pipeline[1].from

(* The pipeline continues what was delivered and ends where assembly stands. *)
PipelineChained ==
    /\ \A i \in 1..(Len(pipeline) - 1) : pipeline[i + 1].from = pipeline[i].to
    /\ pipeline # <<>> => pipeline[Len(pipeline)].to = Assembled
    /\ \A i \in 1..Len(pipeline) :
          pipeline[i].op # "message" => pipeline[i].from = pipeline[i].to

(* While the connection is open nothing has been taken from the pipeline     *)
(* without being delivered.                                                  *)
DeliveryAtPipeline == state = "Open" => DeliveredUpTo = PipelineStart

IncomingInv == PipelineChained /\ DeliveryAtPipeline /\ DeliveredWithoutGap

IInv == TypeOK /\ OutgoingInv /\ IncomingInv

------------------------------------------------------------------------------
(* The outgoing half                                                         *)

LEMMA InitOutgoingInv == Init => OutgoingInv
BY DEF Init, OutgoingInv, QueueNumbered, CloseIsLast, CursorOnHead, WireInOrder,
       Flushed, NotDraining

(* Nothing happens to the queue or the wire; the connection may leave Open,  *)
(* though not by a handshake, and the socket may cease to be open.           *)
LEMMA QuietOutgoingInv ==
    ASSUME OutgoingInv, UNCHANGED outgoing,
           state # "Open" => state' # "Open",
           state' = "Open" => closing' = closing,
           closing' # "no" => state' # "Open",
           socket' = "ended" => closing' # "no",
           socket' = "open" => socket = "open" /\ (closing' # "handshake" => state' = "Open"),
           socket' = "ending" => socket = "ending" /\ closing' = closing,
           closing' = "handshake" /\ socket' = "ended" =>
               closing = "handshake" /\ socket = "ended"
    PROVE  OutgoingInv'
<1>1. QueueNumbered'
  BY DEF OutgoingInv, QueueNumbered, outgoing
<1>2. CloseIsLast'
  BY DEF OutgoingInv, CloseIsLast, outgoing
<1>3. CursorOnHead'
  BY DEF OutgoingInv, CursorOnHead, outgoing
<1>4. WireInOrder'
  BY DEF OutgoingInv, WireInOrder, Follows, outgoing
<1>5. Flushed'
  BY DEF OutgoingInv, Flushed, Written, Writable, outgoing
<1>. QED
  BY <1>1, <1>2, <1>3, <1>4, <1>5 DEF OutgoingInv

(* An open connection accepts one more frame; a Close frame closes it.       *)
LEMMA PushOutgoingInv ==
    ASSUME TypeOK, OutgoingInv, state = "Open",
           NEW op \in OutgoingOp, NEW code,
           outQueue' = Enqueue(outQueue, op, code),
           accepted' = accepted + 1,
           UNCHANGED <<cursor, lost, wire>>,
           socket' \in {socket, "destroyed"},
           \/ op # "close" /\ UNCHANGED <<state, closing>>
           \/ op = "close" /\ state' = "Closing" /\ closing' = "handshake"
    PROVE  OutgoingInv'
<1> DEFINE f == [op |-> op, n |-> accepted + 1, code |-> code]
<1>1. outQueue' = Append(outQueue, f)
  BY DEF Enqueue
<1>2. /\ Len(outQueue) \in Nat
      /\ Len(outQueue') = Len(outQueue) + 1
      /\ \A i \in 1..Len(outQueue) : outQueue'[i] = outQueue[i]
      /\ outQueue'[Len(outQueue) + 1].n = accepted + 1
      /\ outQueue'[Len(outQueue) + 1].op = op
  BY <1>1 DEF TypeOK
<1>3. accepted \in Nat /\ accepted' - Len(outQueue') = accepted - Len(outQueue)
  BY <1>2 DEF TypeOK
<1>4. QueueNumbered'
  <2>1. Len(outQueue') <= accepted'
    BY <1>2, <1>3 DEF OutgoingInv, QueueNumbered
  <2>2. ASSUME NEW i \in 1..Len(outQueue')
        PROVE  outQueue'[i].n = accepted' - Len(outQueue') + i
    <3>1. CASE i \in 1..Len(outQueue)
      <4>1. outQueue'[i] = outQueue[i]
        BY <1>2, <3>1
      <4>2. outQueue[i].n = accepted - Len(outQueue) + i
        BY <3>1 DEF OutgoingInv, QueueNumbered
      <4>. QED
        BY <1>3, <4>1, <4>2
    <3>2. CASE i = Len(outQueue) + 1
      BY <1>2, <1>3, <3>2
    <3>. QED
      BY <1>2, <3>1, <3>2
  <2>. QED
    BY <2>1, <2>2 DEF QueueNumbered
<1>5. CloseIsLast'
  BY <1>2 DEF OutgoingInv, CloseIsLast
<1>6. CursorOnHead'
  <2>1. outQueue # <<>> => Head(outQueue') = Head(outQueue)
    BY <1>1, HeadTailProperties, AppendProperties DEF TypeOK
  <2>2. outQueue' # <<>>
    BY <1>1, AppendProperties DEF TypeOK
  <2>. QED
    BY <1>3, <2>1, <2>2 DEF OutgoingInv, CursorOnHead
<1>7. WireInOrder'
  BY DEF OutgoingInv, WireInOrder, Follows
<1>8. Flushed'
  BY <1>3 DEF OutgoingInv, Flushed, CloseIsLast, Written, Writable
<1>. QED
  BY <1>4, <1>5, <1>6, <1>7, <1>8 DEF OutgoingInv

LEMMA CloseOutgoingInv ==
    ASSUME TypeOK, OutgoingInv, NEW code, Close(outQueue, code),
           UNCHANGED <<cursor, lost, wire>>,
           socket' \in {socket, "destroyed"}
    PROVE  OutgoingInv'
<1>1. CASE state = "Open"
  BY <1>1, PushOutgoingInv DEF Close, OutgoingOp
<1>2. CASE state # "Open"
  <2>1. UNCHANGED outgoing /\ UNCHANGED <<state, closing>>
    BY <1>2 DEF Close, outgoing
  <2>2. /\ socket' = "ended" => closing' # "no"
        /\ closing' # "no" => state' # "Open"
        /\ socket' = "open" => socket = "open" /\ (closing' # "handshake" => state' = "Open")
    BY <2>1 DEF OutgoingInv, CloseIsLast
  <2>. QED
    BY <2>1, <2>2, QuietOutgoingInv
<1>. QED
  BY <1>1, <1>2

LEMMA SendDataFrameOutgoingInv ==
    ASSUME TypeOK, OutgoingInv, NEW op \in OutgoingOp \ {"close"},
           SendDataFrame(outQueue, op),
           UNCHANGED <<state, closing, socket, cursor, lost, wire>>
    PROVE  OutgoingInv'
<1>1. CASE state = "Open"
  BY <1>1, PushOutgoingInv DEF SendDataFrame
<1>2. CASE state # "Open"
  <2>1. UNCHANGED outgoing
    BY <1>2 DEF SendDataFrame, outgoing
  <2>. QED
    BY <1>2, <2>1, QuietOutgoingInv DEF OutgoingInv, CloseIsLast
<1>. QED
  BY <1>1, <1>2

LEMMA CloseImmediatelyOutgoingInv ==
    ASSUME TypeOK, OutgoingInv, CloseImmediately, UNCHANGED outgoing
    PROVE  OutgoingInv'
BY QuietOutgoingInv DEF CloseImmediately, Writable, OutgoingInv, CloseIsLast, Flushed

(* The socket is ended when nothing is left to write.                        *)
LEMMA EndSocketOutgoingInv ==
    ASSUME TypeOK, OutgoingInv, EndSocket
    PROVE  OutgoingInv'
<1>1. /\ closing = "handshake" /\ outQueue = <<>> /\ Writable
      /\ socket' = "ended"
      /\ UNCHANGED <<state, closing, accepted, outQueue, cursor, lost, wire>>
  BY DEF EndSocket, OutgoingInv, Flushed, Writable, outgoing
<1>2. QueueNumbered' /\ CursorOnHead' /\ WireInOrder'
  BY <1>1 DEF OutgoingInv, QueueNumbered, CursorOnHead, WireInOrder, Follows
<1>3. CloseIsLast'
  BY <1>1 DEF OutgoingInv, CloseIsLast
<1>4. Flushed'
  <2>1. accepted \in Nat /\ Len(outQueue) = 0
    BY <1>1 DEF TypeOK
  <2>2. \A n \in 1..accepted : n \in lost \/ Written(n)
    BY <1>1, <2>1 DEF OutgoingInv, Flushed
  <2>. QED
    BY <1>1, <2>2 DEF Flushed, Written, Writable
<1>. QED
  BY <1>2, <1>3, <1>4 DEF OutgoingInv

LEMMA SocketCloseOutgoingInv ==
    ASSUME TypeOK, OutgoingInv, SocketClose
    PROVE  OutgoingInv'
BY QuietOutgoingInv DEF SocketClose

(* Writing fragments i..j of frame h keeps the wire in order if the first of *)
(* them may follow what is already there.                                    *)
LEMMA WriteParts ==
    ASSUME TypeOK, WireInOrder, NEW h \in OutgoingFrame,
           NEW i \in Nat \ {0}, NEW j \in Nat, NEW total \in Nat, i <= j, j <= total,
           wire # <<>> => Follows(wire[Len(wire)], Part(h, i, total)),
           wire' = wire \o Parts(h, i, j, total)
    PROVE  /\ WireInOrder'
           /\ Len(wire') = Len(wire) + (j - i + 1)
           /\ \A k \in 1..Len(wire) : wire'[k] = wire[k]
           /\ \A k \in (Len(wire) + 1)..Len(wire') :
                 wire'[k].n = h.n /\ wire'[k].op = h.op
           /\ wire'[Len(wire')] = Part(h, j, total)
<1> DEFINE p == Parts(h, i, j, total)
           m == j - i + 1
           W == Len(wire)
<1>1. /\ p \in Seq(WireFrame)
      /\ Len(p) = m
      /\ \A k \in 1..m : p[k] = Part(h, i + k - 1, total)
  BY PartsProperties
<1>2. wire \in Seq(WireFrame) /\ W \in Nat /\ m \in Nat \ {0}
  BY DEF TypeOK
<1> HIDE DEF p
<1>3. wire' = wire \o p
  BY DEF p
<1> HIDE DEF m
<1>4. /\ Len(wire') = W + m
      /\ \A k \in 1..W : wire'[k] = wire[k]
      /\ \A k \in 1..m : wire'[W + k] = p[k]
  <2>1. \A k \in 1..(Len(wire) + Len(p)) :
            (wire \o p)[k] = IF k <= Len(wire) THEN wire[k] ELSE p[k - Len(wire)]
    BY <1>1, <1>2, ConcatProperties
  <2>2. Len(wire') = W + m
    BY <1>1, <1>2, <1>3, ConcatProperties
  <2>3. ASSUME NEW k \in 1..W PROVE wire'[k] = wire[k]
    BY <1>1, <1>2, <1>3, <2>1
  <2>4. ASSUME NEW k \in 1..m PROVE wire'[W + k] = p[k]
    <3>1. W + k \in 1..(Len(wire) + Len(p)) /\ ~(W + k <= Len(wire)) /\ W + k - Len(wire) = k
      BY <1>1, <1>2
    <3>. QED
      BY <1>3, <2>1, <3>1
  <2>. QED
    BY <2>2, <2>3, <2>4
<1>5. ASSUME NEW k \in 1..m
      PROVE  wire'[W + k] = Part(h, i + k - 1, total) /\ i + k - 1 \in Nat
  <2>1. wire'[W + k] = p[k] /\ p[k] = Part(h, i + k - 1, total)
    BY <1>1, <1>4
  <2>2. i + k - 1 \in Nat
    BY <1>2
  <2>. QED
    BY <2>1, <2>2
<1> HIDE DEF W
<1>6. ASSUME NEW k \in 1..(Len(wire') - 1)
      PROVE  Follows(wire'[k], wire'[k + 1])
  <2>0. k \in Nat \ {0} /\ k < W + m
    BY <1>2, <1>4
  <2>1. CASE k < W
    <3>1. k \in 1..(W - 1) /\ k \in 1..W /\ k + 1 \in 1..W
      BY <1>2, <2>0, <2>1
    <3>2. Follows(wire[k], wire[k + 1])
      BY <3>1 DEF WireInOrder, W
    <3>. QED
      BY <1>4, <3>1, <3>2
  <2>2. CASE k = W
    <3>1. wire # <<>> /\ W \in 1..W /\ 1 \in 1..m
      BY <1>2, <2>0, <2>2 DEF W
    <3>2. wire'[W] = wire[W]
      BY <1>4, <3>1
    <3>3. wire'[W + 1] = Part(h, i, total)
      <4>1. wire'[W + 1] = Part(h, i + 1 - 1, total)
        BY <1>5, <3>1, Zenon
      <4>2. i + 1 - 1 = i
        OBVIOUS
      <4>. QED
        BY <4>1, <4>2
    <3>. QED
      BY <2>2, <3>1, <3>2, <3>3 DEF W
  <2>3. CASE k > W
    <3> DEFINE q == k - W
    <3>1. q \in 1..m /\ q + 1 \in 1..m /\ W + q = k /\ W + (q + 1) = k + 1
      BY <1>2, <2>0, <2>3
    <3> HIDE DEF q
    <3>2. /\ wire'[k] = Part(h, i + q - 1, total)
          /\ wire'[k + 1] = Part(h, i + (q + 1) - 1, total)
      BY <1>5, <3>1
    <3>3. /\ i + q - 1 \in Nat
          /\ i + (q + 1) - 1 = (i + q - 1) + 1
          /\ i + q - 1 # total
      BY <3>1 DEF m
    <3> DEFINE r == i + q - 1
    <3>4. /\ Part(h, r, total).n = h.n
          /\ Part(h, r, total).op = h.op
          /\ Part(h, r, total).part = r
          /\ ~Part(h, r, total).isFinal
      BY <3>3, PartFields
    <3>5. /\ Part(h, r + 1, total).n = h.n
          /\ Part(h, r + 1, total).op = h.op
          /\ Part(h, r + 1, total).part = r + 1
      BY <3>3, PartFields
    <3>. QED
      BY <3>2, <3>3, <3>4, <3>5 DEF Follows
  <2>. QED
    BY <1>2, <2>0, <2>1, <2>2, <2>3
<1>7. ASSUME NEW k \in (W + 1)..(W + m)
      PROVE  wire'[k].n = h.n /\ wire'[k].op = h.op
  <2> DEFINE q == k - W
  <2>1. q \in 1..m /\ W + q = k
    BY <1>2
  <2> HIDE DEF q
  <2>2. wire'[k] = Part(h, i + q - 1, total) /\ i + q - 1 \in Nat
    BY <1>5, <2>1
  <2>. QED
    BY <2>2, PartFields
<1>8. wire'[W + m] = Part(h, j, total)
  <2>1. m \in 1..m /\ i + m - 1 = j
    BY <1>2 DEF m
  <2>. QED
    BY <1>5, <2>1
<1>. QED
  BY <1>4, <1>6, <1>7, <1>8 DEF WireInOrder, W, m

(* The head of the queue, and where its fragments may go.                    *)
LEMMA HeadProperties ==
    ASSUME TypeOK, OutgoingInv, outQueue # <<>>
    PROVE  /\ Len(outQueue) \in Nat \ {0}
           /\ Head(outQueue) = outQueue[1]
           /\ Head(outQueue) \in OutgoingFrame
           /\ Head(outQueue).n = accepted - Len(outQueue) + 1
           /\ Head(outQueue).n \in Nat
           /\ Head(outQueue).op = "close" =>
                 state # "Open" /\ Len(outQueue) = 1 /\ Head(outQueue).n = accepted
           /\ Len(Tail(outQueue)) = Len(outQueue) - 1
           /\ \A k \in 1..Len(Tail(outQueue)) : Tail(outQueue)[k] = outQueue[k + 1]
<1>1. Len(outQueue) \in Nat \ {0} /\ 1 \in 1..Len(outQueue)
  BY DEF TypeOK
<1>2. /\ Head(outQueue) = outQueue[1]
      /\ Head(outQueue) \in OutgoingFrame
      /\ Len(Tail(outQueue)) = Len(outQueue) - 1
      /\ \A k \in 1..Len(Tail(outQueue)) : Tail(outQueue)[k] = outQueue[k + 1]
  BY <1>1, HeadTailProperties DEF TypeOK
<1>3. outQueue[1].n = accepted - Len(outQueue) + 1
  BY <1>1 DEF OutgoingInv, QueueNumbered
<1>4. outQueue[1].op = "close" => state # "Open" /\ 1 = Len(outQueue)
  BY <1>1 DEF OutgoingInv, CloseIsLast
<1>5. Head(outQueue).n \in Nat /\ accepted \in Nat
  BY <1>2 DEF OutgoingFrame, TypeOK
<1>. QED
  BY <1>1, <1>2, <1>3, <1>4, <1>5

(* What a step that only appends frames of the queue's head leaves true.     *)
LEMMA WrittenStays ==
    ASSUME TypeOK, NEW n \in Nat, Written(n),
           Len(wire') \in Nat, Len(wire) <= Len(wire'),
           \A k \in 1..Len(wire) : wire'[k] = wire[k]
    PROVE  Written(n)'
<1>1. PICK k \in 1..Len(wire) : wire[k].n = n /\ wire[k].isFinal
  BY DEF Written
<1>2. k \in 1..Len(wire') /\ wire'[k] = wire[k]
  BY DEF TypeOK
<1>. QED
  BY <1>1, <1>2 DEF Written

(* sendData is done with the head of the queue.                              *)
LEMMA FinishOutgoingInv ==
    ASSUME TypeOK, OutgoingInv, outQueue # <<>>, Finish,
           UNCHANGED <<state, closing, accepted, lost>>,
           WireInOrder',
           Len(wire') \in Nat, Len(wire) <= Len(wire'),
           \A k \in 1..Len(wire) : wire'[k] = wire[k],
           \A k \in (Len(wire) + 1)..Len(wire') :
              wire'[k].n = Head(outQueue).n /\ wire'[k].op = Head(outQueue).op,
           Len(wire') > 0 => wire'[Len(wire')].isFinal,
           Writable => Len(wire') > 0 /\ wire'[Len(wire')].n = Head(outQueue).n
    PROVE  OutgoingInv'
<1> DEFINE h == Head(outQueue)
           L == Len(outQueue)
<1>1. /\ L \in Nat \ {0}
      /\ h = outQueue[1]
      /\ h.n = accepted - L + 1
      /\ h.n \in Nat
      /\ h.op = "close" => state # "Open" /\ L = 1 /\ h.n = accepted
      /\ Len(outQueue') = L - 1
      /\ \A k \in 1..(L - 1) : outQueue'[k] = outQueue[k + 1]
  BY HeadProperties DEF Finish
<1>2. accepted \in Nat /\ Len(wire) \in Nat /\ accepted' = accepted /\ L <= accepted
  BY DEF TypeOK, OutgoingInv, QueueNumbered
<1>3. accepted' - Len(outQueue') = h.n
  BY <1>1, <1>2
<1>4. QueueNumbered'
  <2>1. ASSUME NEW k \in 1..(L - 1)
        PROVE  outQueue'[k].n = accepted' - Len(outQueue') + k
    <3>1. k + 1 \in 1..L
      BY <1>1
    <3>2. outQueue[k + 1].n = accepted - L + (k + 1)
      BY <3>1 DEF OutgoingInv, QueueNumbered
    <3>. QED
      BY <1>1, <1>2, <3>2
  <2>. QED
    BY <1>1, <1>2, <2>1 DEF QueueNumbered
<1>5. CloseIsLast'
  <2>1. ASSUME NEW k \in 1..Len(outQueue'), outQueue'[k].op = "close"
        PROVE  state' # "Open" /\ k = Len(outQueue')
    <3>1. k + 1 \in 1..L /\ outQueue'[k] = outQueue[k + 1]
      BY <1>1
    <3>2. state # "Open" /\ k + 1 = L
      BY <2>1, <3>1 DEF OutgoingInv, CloseIsLast
    <3>. QED
      BY <1>1, <3>2
  <2>2. ASSUME NEW k \in 1..Len(wire'), wire'[k].op = "close"
        PROVE  state' # "Open" /\ wire'[k].n = accepted'
    <3>1. CASE k \in 1..Len(wire)
      BY <1>2, <2>2, <3>1 DEF OutgoingInv, CloseIsLast
    <3>2. CASE k \in (Len(wire) + 1)..Len(wire')
      BY <1>1, <1>2, <2>2, <3>2
    <3>. QED
      BY <1>2, <3>1, <3>2
  <2>3. /\ socket' = "ended" => closing' # "no"
        /\ socket' = "open" => socket = "open"
    BY <1>1 DEF Finish, Writable, OutgoingInv, CloseIsLast
  <2>. QED
    BY <2>1, <2>2, <2>3 DEF OutgoingInv, CloseIsLast
<1>6. CursorOnHead'
  <2>1. cursor'.next = 0
    BY DEF Finish, NotDraining
  <2>2. ASSUME NEW k \in 1..Len(wire') PROVE wire'[k].n <= h.n
    <3>1. CASE k \in 1..Len(wire)
      <4>1. wire[k].n <= accepted - L + (IF cursor.next > 0 THEN 1 ELSE 0)
        BY <3>1 DEF OutgoingInv, CursorOnHead
      <4>2. wire[k].n \in Nat
        <5>1. wire[k] \in WireFrame
          BY <3>1 DEF TypeOK
        <5>. QED
          BY <5>1 DEF WireFrame
      <4>. QED
        BY <1>1, <1>2, <3>1, <4>1, <4>2
    <3>2. CASE k \in (Len(wire) + 1)..Len(wire')
      BY <1>1, <3>2
    <3>. QED
      BY <1>2, <3>1, <3>2
  <2>3. wire' # <<>> => wire'[Len(wire')].isFinal
    <3>1. CASE Len(wire') > 0
      BY <3>1
    <3>2. CASE Len(wire') = 0
      <4>1. (wire' = wire /\ wire = <<>>) \/ wire' # <<>>
        OBVIOUS
      <4>. QED
        BY <3>2, <4>1
    <3>. QED
      BY <3>1, <3>2
  <2>. QED
    BY <1>1, <1>3, <2>1, <2>2, <2>3 DEF CursorOnHead
<1>7. Flushed'
  <2>1. ASSUME Writable, NEW n \in Nat, n = h.n PROVE Written(n)'
    <3>1. Len(wire') \in 1..Len(wire') /\ wire'[Len(wire')].n = n /\ wire'[Len(wire')].isFinal
      BY <2>1
    <3>. QED
      BY <3>1 DEF Written
  <2>2. ASSUME Writable, NEW n \in 1..h.n PROVE n \in lost' \/ Written(n)'
    <3>1. CASE n = h.n
      BY <1>1, <2>1, <2>2, <3>1
    <3>2. CASE n # h.n
      <4>1. n \in 1..(accepted - L) /\ n \in Nat
        BY <1>1, <1>2, <3>2
      <4>2. n \in lost \/ Written(n)
        BY <2>2, <4>1 DEF OutgoingInv, Flushed, Writable
      <4>. QED
        BY <4>1, <4>2, WrittenStays
    <3>. QED
      BY <3>1, <3>2
  <2>3. CASE Writable
    <3>1. \A n \in 1..(accepted' - Len(outQueue')) : n \in lost' \/ Written(n)'
      BY <1>3, <2>2, <2>3
    <3>2. socket = "open"
      BY <2>3 DEF OutgoingInv, Flushed, Writable
    <3>3. socket' = "ending" => h.op = "close"
      BY <3>2 DEF Finish
    <3>4. h.op = "close" => closing = "handshake" /\ outQueue' = <<>>
      <4>1. outQueue' \in Seq(OutgoingFrame)
        BY HeadTailProperties DEF TypeOK, Finish
      <4>2. h.op = "close" => closing = "handshake"
        BY <1>1, <3>2 DEF OutgoingInv, CloseIsLast
      <4>. QED
        BY <1>1, <4>1, <4>2
    <3>5. socket' # "ended"
      BY <3>2 DEF Finish
    <3>. QED
      BY <3>1, <3>3, <3>4, <3>5 DEF Flushed
  <2>4. CASE ~Writable
    <3>1. socket' = socket
      BY <2>4 DEF Finish
    <3>2. ~(closing = "handshake" /\ socket = "ended")
      BY DEF OutgoingInv, Flushed
    <3>. QED
      BY <2>4, <3>1, <3>2 DEF Flushed, Writable
  <2>. QED
    BY <2>3, <2>4
<1>. QED
  BY <1>4, <1>5, <1>6, <1>7 DEF OutgoingInv

(* The loop of sendData, entered (i = 1) or resumed on "drain".              *)
LEMMA WriteFromOutgoingInv ==
    ASSUME TypeOK, OutgoingInv, outQueue # <<>>,
           NEW i \in Nat \ {0}, NEW total \in Nat \ {0}, WriteFrom(i, total),
           \/ cursor.next = 0 /\ i = 1
           \/ cursor.next > 0 /\ Writable /\ i = cursor.next /\ total = cursor.total,
           UNCHANGED <<state, closing, accepted, lost>>
    PROVE  OutgoingInv'
<1> DEFINE h == Head(outQueue)
           W == Len(wire)
<1>1. /\ h \in OutgoingFrame
      /\ h.n = accepted - Len(outQueue) + 1
      /\ h.n \in Nat
      /\ Len(outQueue) \in Nat \ {0}
  BY HeadProperties
<1>2. /\ accepted \in Nat
      /\ W \in Nat
      /\ W = 0 <=> wire = <<>>
  <2>1. wire \in Seq(WireFrame) /\ accepted \in Nat
    BY DEF TypeOK
  <2>. QED
    BY <2>1
<1>3. /\ cursor.next = 0 /\ W > 0 => wire[W].isFinal /\ wire[W].n < h.n
      /\ cursor.next > 0 => /\ W > 0
                            /\ wire[W].n = h.n
                            /\ wire[W].op = h.op
                            /\ wire[W].part = i - 1
                            /\ wire[W].isFinal <=> i = total + 1
                            /\ i <= total + 1
  <2>1. ASSUME cursor.next = 0, W > 0 PROVE wire[W].isFinal /\ wire[W].n < h.n
    <3>1. wire[W].isFinal /\ wire[W].n <= accepted - Len(outQueue)
      BY <1>2, <2>1 DEF OutgoingInv, CursorOnHead
    <3>2. wire[W] \in WireFrame
      BY <1>2, <2>1 DEF TypeOK
    <3>3. wire[W].n \in Nat
      BY <3>2 DEF WireFrame
    <3>. QED
      BY <1>1, <1>2, <3>1, <3>3
  <2>2. ASSUME cursor.next > 0
        PROVE  /\ W > 0
               /\ wire[W].n = h.n
               /\ wire[W].op = h.op
               /\ wire[W].part = i - 1
               /\ wire[W].isFinal <=> i = total + 1
               /\ i <= total + 1
    BY <1>2, <2>2 DEF OutgoingInv, CursorOnHead
  <2>. QED
    BY <2>1, <2>2
<1>4. ASSUME i <= total
      PROVE  wire # <<>> => Follows(wire[Len(wire)], Part(h, i, total))
  <2>1. /\ Part(h, i, total).n = h.n
        /\ Part(h, i, total).op = h.op
        /\ Part(h, i, total).part = i
    BY <1>1, PartFields
  <2>2. CASE cursor.next = 0
    BY <1>1, <1>2, <1>3, <2>1, <2>2 DEF Follows
  <2>3. CASE cursor.next > 0
    BY <1>1, <1>2, <1>3, <1>4, <2>1, <2>3 DEF Follows
  <2>. QED
    BY <2>2, <2>3
<1>5. WireInOrder
  BY DEF OutgoingInv
<1>6. CASE (~Writable \/ i > total) /\ Finish /\ UNCHANGED wire
  <2>1. WireInOrder'
    BY <1>5, <1>6 DEF WireInOrder, Follows
  <2>2. Len(wire') = W /\ W \in Nat
    BY <1>2, <1>6
  <2>3. W > 0 => wire[W].isFinal
    BY <1>3, <1>6
  <2>4. Writable => W > 0 /\ wire[W].n = h.n
    BY <1>3, <1>6
  <2>. QED
    BY <1>6, <2>1, <2>2, <2>3, <2>4, FinishOutgoingInv
<1>7. CASE /\ Writable /\ i <= total
           /\ wire' = wire \o Parts(h, i, total, total)
           /\ Finish
  <2>1. /\ WireInOrder'
        /\ Len(wire') = W + (total - i + 1)
        /\ \A k \in 1..W : wire'[k] = wire[k]
        /\ \A k \in (W + 1)..Len(wire') : wire'[k].n = h.n /\ wire'[k].op = h.op
        /\ wire'[Len(wire')] = Part(h, total, total)
    <3>1. total \in Nat /\ i <= total /\ total <= total
      BY <1>7
    <3>. QED
      BY <1>1, <1>4, <1>5, <1>7, <3>1, WriteParts, ZenonT(30)
  <2>2. Len(wire') \in Nat /\ W <= Len(wire') /\ Len(wire') > 0
    BY <1>2, <1>7, <2>1
  <2>3. wire'[Len(wire')].isFinal /\ wire'[Len(wire')].n = h.n
    BY <1>1, <2>1, PartFields
  <2>. QED
    BY <1>7, <2>1, <2>2, <2>3, FinishOutgoingInv
<1>8. CASE /\ Writable
           /\ \E j \in i..total :
                 /\ wire' = wire \o Parts(h, i, j, total)
                 /\ cursor' = [next |-> j + 1, total |-> total]
           /\ UNCHANGED <<outQueue, socket>>
  <2>1. PICK j \in i..total :
           /\ wire' = wire \o Parts(h, i, j, total)
           /\ cursor' = [next |-> j + 1, total |-> total]
    BY <1>8
  <2>2. j \in Nat /\ i <= j /\ j <= total /\ i <= total
    OBVIOUS
  <2>3. /\ WireInOrder'
        /\ Len(wire') = W + (j - i + 1)
        /\ \A k \in 1..W : wire'[k] = wire[k]
        /\ \A k \in (W + 1)..Len(wire') : wire'[k].n = h.n /\ wire'[k].op = h.op
        /\ wire'[Len(wire')] = Part(h, j, total)
    BY <1>1, <1>4, <1>5, <2>1, <2>2, WriteParts, ZenonT(30)
  <2>4. Len(wire') \in Nat /\ W <= Len(wire') /\ Len(wire') > 0
    BY <1>2, <2>2, <2>3
  <2>5. /\ wire'[Len(wire')].n = h.n
        /\ wire'[Len(wire')].op = h.op
        /\ wire'[Len(wire')].part = j
        /\ wire'[Len(wire')].isFinal <=> j = total
    BY <1>1, <2>2, <2>3, PartFields
  <2>6. QueueNumbered'
    BY <1>8 DEF OutgoingInv, QueueNumbered
  <2>7. ASSUME NEW k \in 1..Len(wire')
        PROVE  /\ wire'[k].op = "close" => state # "Open" /\ wire'[k].n = accepted
               /\ wire'[k].n <= accepted - Len(outQueue) + 1
    <3>1. CASE k \in 1..W
      <4>1. /\ wire[k].op = "close" => state # "Open" /\ wire[k].n = accepted
            /\ wire[k].n <= accepted - Len(outQueue) + (IF cursor.next > 0 THEN 1 ELSE 0)
        BY <3>1 DEF OutgoingInv, CloseIsLast, CursorOnHead
      <4>2. wire[k] \in WireFrame
        BY <3>1 DEF TypeOK
      <4>3. wire[k].n \in Nat
        BY <4>2 DEF WireFrame
      <4>4. wire'[k] = wire[k]
        BY <2>3, <3>1
      <4>5. wire[k].n <= accepted - Len(outQueue) + 1
        BY <1>1, <1>2, <4>1, <4>3
      <4>. QED
        BY <4>1, <4>4, <4>5
    <3>2. CASE k \in (W + 1)..Len(wire')
      <4>1. h.op = "close" => state # "Open" /\ h.n = accepted
        BY HeadProperties
      <4>2. wire'[k].n = h.n /\ wire'[k].op = h.op
        BY <2>3, <3>2
      <4>3. h.n <= accepted - Len(outQueue) + 1
        BY <1>1
      <4>. QED
        BY <4>1, <4>2, <4>3
    <3>. QED
      BY <1>2, <2>4, <3>1, <3>2
  <2>8. CloseIsLast'
    BY <1>8, <2>7 DEF OutgoingInv, CloseIsLast
  <2>9. CursorOnHead'
    <3>1. cursor'.next = j + 1 /\ cursor'.total = total
      BY <2>1
    <3>2. /\ cursor'.next > 0 /\ cursor'.next # 0
          /\ cursor'.next <= cursor'.total + 1
          /\ cursor'.total > 0
          /\ cursor'.next - 1 = j
          /\ cursor'.next = cursor'.total + 1 <=> j = total
      BY <2>2, <3>1
    <3>3. wire' # <<>> /\ outQueue' # <<>> /\ Head(outQueue') = h
      BY <1>8, <2>4
    <3>. QED
      BY <1>8, <2>5, <2>7, <3>2, <3>3 DEF CursorOnHead
  <2>10. Flushed'
    <3>1. Writable /\ UNCHANGED socket /\ outQueue # <<>>
      BY <1>8
    <3>2. ASSUME NEW n \in 1..(accepted - Len(outQueue)) PROVE n \in lost \/ Written(n)'
      <4>1. n \in Nat /\ (n \in lost \/ Written(n))
        BY <1>1, <1>2, <3>1 DEF OutgoingInv, Flushed
      <4>. QED
        BY <2>3, <2>4, <4>1, WrittenStays
    <3>. QED
      BY <1>8, <3>1, <3>2 DEF OutgoingInv, Flushed, Writable
  <2>. QED
    BY <2>3, <2>6, <2>8, <2>9, <2>10 DEF OutgoingInv
<1>. QED
  BY <1>6, <1>7, <1>8 DEF WriteFrom

LEMMA TransmitFailsOutgoingInv ==
    ASSUME TypeOK, OutgoingInv, TransmitFails
    PROVE  OutgoingInv'
<1> DEFINE h == Head(outQueue)
           L == Len(outQueue)
           q == Tail(outQueue)
           f == [op |-> "close", n |-> accepted + 1, code |-> "AbnormalClosure"]
<1>1. /\ outQueue # <<>>
      /\ cursor.next = 0
      /\ h.op = "message"
      /\ lost' = lost \cup {h.n}
      /\ UNCHANGED <<socket, cursor, wire>>
  BY DEF TransmitFails
<1>2. /\ L \in Nat \ {0}
      /\ h.n = accepted - L + 1
      /\ h.n \in Nat
      /\ Len(q) = L - 1
      /\ \A k \in 1..(L - 1) : q[k] = outQueue[k + 1]
      /\ q \in Seq(OutgoingFrame)
      /\ accepted \in Nat
      /\ L <= accepted
  BY <1>1, HeadProperties, HeadTailProperties DEF TypeOK, OutgoingInv, QueueNumbered
<1>3. \/ /\ state = "Open" /\ state' = "Closing" /\ closing' = "handshake"
         /\ outQueue' = Append(q, f) /\ accepted' = accepted + 1
      \/ /\ state # "Open" /\ UNCHANGED <<state, closing>>
         /\ outQueue' = q /\ accepted' = accepted
  BY DEF TransmitFails, Close, Enqueue
<1>4. /\ \A k \in 1..(L - 1) : outQueue'[k] = outQueue[k + 1]
      /\ \/ /\ state = "Open" /\ Len(outQueue') = L /\ accepted' = accepted + 1
            /\ outQueue'[L].n = accepted + 1
         \/ /\ state # "Open" /\ Len(outQueue') = L - 1 /\ accepted' = accepted
  <2> HIDE DEF q
  <2>1. CASE state = "Open"
    <3>1. outQueue' = Append(q, f) /\ accepted' = accepted + 1
      BY <1>3, <2>1
    <3>2. /\ Len(outQueue') = L
          /\ outQueue'[L].n = accepted + 1
          /\ \A k \in 1..(L - 1) : outQueue'[k] = q[k]
      BY <1>2, <3>1
    <3>. QED
      BY <1>2, <2>1, <3>1, <3>2
  <2>2. CASE state # "Open"
    BY <1>2, <1>3, <2>2
  <2>. QED
    BY <2>1, <2>2
<1> HIDE DEF q
<1>5. accepted' - Len(outQueue') = h.n
  BY <1>2, <1>4
<1>6. QueueNumbered'
  <2>1. ASSUME NEW k \in 1..Len(outQueue') PROVE outQueue'[k].n = h.n + k
    <3>1. CASE k \in 1..(L - 1)
      <4>1. k + 1 \in 1..L /\ outQueue'[k] = outQueue[k + 1]
        BY <1>2, <1>4, <3>1
      <4>2. outQueue[k + 1].n = accepted - L + (k + 1)
        BY <4>1 DEF OutgoingInv, QueueNumbered
      <4>3. k \in Int /\ L \in Int /\ accepted \in Int /\ h.n = accepted - L + 1
        BY <1>2, <3>1
      <4>4. accepted - L + (k + 1) = h.n + k
        BY <4>3
      <4>. QED
        BY <4>1, <4>2, <4>4
    <3>2. CASE state = "Open" /\ k = L
      <4>1. outQueue'[k].n = accepted + 1
        BY <1>4, <3>2
      <4>2. accepted + 1 = h.n + k
        BY <1>2, <3>2
      <4>. QED
        BY <4>1, <4>2
    <3>. QED
      BY <1>2, <1>4, <3>1, <3>2
  <2>2. Len(outQueue') <= accepted'
    BY <1>2, <1>4
  <2>. QED
    BY <1>5, <2>1, <2>2 DEF QueueNumbered
<1>7. CloseIsLast'
  <2>1. ASSUME NEW k \in 1..Len(outQueue'), outQueue'[k].op = "close"
        PROVE  state' # "Open" /\ k = Len(outQueue')
    <3>1. CASE k \in 1..(L - 1)
      <4>1. k + 1 \in 1..L /\ outQueue'[k] = outQueue[k + 1]
        BY <1>2, <1>4, <3>1
      <4>2. state # "Open" /\ k + 1 = L
        BY <2>1, <4>1 DEF OutgoingInv, CloseIsLast
      <4>. QED
        BY <1>2, <1>3, <1>4, <4>2
    <3>2. CASE state = "Open" /\ k = L
      BY <1>3, <1>4, <3>2
    <3>. QED
      BY <1>2, <1>4, <3>1, <3>2
  <2>2. ASSUME NEW k \in 1..Len(wire'), wire'[k].op = "close"
        PROVE  state' # "Open" /\ wire'[k].n = accepted'
    BY <1>1, <1>3, <2>2 DEF OutgoingInv, CloseIsLast
  <2>. QED
    BY <1>1, <1>3, <2>1, <2>2 DEF OutgoingInv, CloseIsLast
<1>8. CursorOnHead'
  <2>1. ASSUME NEW k \in 1..Len(wire') PROVE wire'[k].n <= h.n
    <3>1. wire'[k] = wire[k] /\ k \in 1..Len(wire)
      BY <1>1
    <3>2. wire[k].n <= accepted - L
      <4>1. wire[k].n <= accepted - L + (IF cursor.next > 0 THEN 1 ELSE 0)
        BY <3>1 DEF OutgoingInv, CursorOnHead
      <4>2. accepted - L + (IF cursor.next > 0 THEN 1 ELSE 0) = accepted - L
        BY <1>1, <1>2
      <4>. QED
        BY <4>1, <4>2
    <3>3. wire[k] \in WireFrame
      BY <3>1 DEF TypeOK
    <3>4. wire[k].n \in Nat
      BY <3>3 DEF WireFrame
    <3>. QED
      BY <1>2, <3>1, <3>2, <3>4
  <2>2. wire' # <<>> => wire'[Len(wire')].isFinal
    BY <1>1 DEF OutgoingInv, CursorOnHead
  <2>. QED
    BY <1>1, <1>2, <1>5, <2>1, <2>2 DEF CursorOnHead
<1>9. WireInOrder'
  BY <1>1 DEF OutgoingInv, WireInOrder, Follows
<1>10. Flushed'
  <2>1. ASSUME Writable, NEW n \in 1..h.n PROVE n \in lost' \/ Written(n)'
    <3>1. CASE n = h.n
      BY <1>1, <3>1
    <3>2. CASE n # h.n
      <4>1. n \in 1..(accepted - L)
        BY <1>2, <3>2
      <4>. QED
        BY <1>1, <2>1, <4>1 DEF OutgoingInv, Flushed, Written
    <3>. QED
      BY <3>1, <3>2
  <2>2. ~(closing' = "handshake" /\ socket' = "ended")
    BY <1>1, <1>3 DEF OutgoingInv, Flushed, CloseIsLast
  <2>3. UNCHANGED socket /\ socket # "ending"
    BY <1>1 DEF OutgoingInv, Flushed
  <2>. QED
    BY <1>5, <2>1, <2>2, <2>3 DEF Flushed, Writable
<1>. QED
  BY <1>6, <1>7, <1>8, <1>9, <1>10 DEF OutgoingInv

------------------------------------------------------------------------------
(* The incoming half                                                         *)

LEMMA InitIncomingInv == Init => IncomingInv
BY DEF Init, IncomingInv, PipelineChained, DeliveryAtPipeline, DeliveredWithoutGap,
       DeliveredUpTo, PipelineStart, Assembled

(* Nothing happens to what was received; the connection does not reopen.     *)
LEMMA QuietIncomingInv ==
    ASSUME IncomingInv, UNCHANGED <<dataFrames, fragments, pipeline, delivered>>,
           state' = "Open" => state = "Open"
    PROVE  IncomingInv'
<1>1. Assembled' = Assembled
  BY DEF Assembled
<1>2. PipelineChained'
  BY <1>1 DEF IncomingInv, PipelineChained
<1>3. DeliveryAtPipeline'
  BY <1>1 DEF IncomingInv, DeliveryAtPipeline, DeliveredUpTo, PipelineStart
<1>4. DeliveredWithoutGap'
  BY DEF IncomingInv, DeliveredWithoutGap
<1>. QED
  BY <1>2, <1>3, <1>4 DEF IncomingInv

(* A validated frame enters the pipeline where assembly stands.              *)
LEMMA PushIncomingInv ==
    ASSUME TypeOK, IncomingInv, NEW frame \in PipelineFrame,
           pipeline' = Append(pipeline, frame),
           frame.from = Assembled, frame.to = Assembled',
           frame.op # "message" => frame.from = frame.to,
           UNCHANGED <<state, delivered>>
    PROVE  IncomingInv'
<1> DEFINE P == Len(pipeline)
<1>1. /\ P \in Nat
      /\ P = 0 <=> pipeline = <<>>
      /\ Len(pipeline') = P + 1
      /\ \A i \in 1..P : pipeline'[i] = pipeline[i]
      /\ pipeline'[P + 1] = frame
      /\ pipeline' # <<>>
  <2>1. pipeline \in Seq(PipelineFrame)
    BY DEF TypeOK
  <2>. QED
    BY <2>1
<1>2. PipelineChained'
  <2>1. ASSUME NEW i \in 1..(Len(pipeline') - 1)
        PROVE  pipeline'[i + 1].from = pipeline'[i].to
    <3>1. CASE i < P
      <4>1. i \in 1..(P - 1) /\ i \in 1..P /\ i + 1 \in 1..P
        BY <1>1, <3>1
      <4>2. pipeline[i + 1].from = pipeline[i].to
        BY <4>1 DEF IncomingInv, PipelineChained
      <4>. QED
        BY <1>1, <4>1, <4>2
    <3>2. CASE i = P
      <4>1. P \in 1..P /\ pipeline # <<>>
        BY <1>1, <3>2
      <4>2. pipeline[P].to = Assembled
        BY <4>1 DEF IncomingInv, PipelineChained
      <4>. QED
        BY <1>1, <3>2, <4>1, <4>2
    <3>. QED
      BY <1>1, <3>1, <3>2
  <2>2. ASSUME NEW i \in 1..Len(pipeline'), pipeline'[i].op # "message"
        PROVE  pipeline'[i].from = pipeline'[i].to
    <3>1. CASE i \in 1..P
      BY <1>1, <2>2, <3>1 DEF IncomingInv, PipelineChained
    <3>2. CASE i = P + 1
      BY <1>1, <2>2, <3>2
    <3>. QED
      BY <1>1, <3>1, <3>2
  <2>3. pipeline'[Len(pipeline')].to = Assembled'
    BY <1>1
  <2>. QED
    BY <2>1, <2>2, <2>3 DEF PipelineChained
<1>3. DeliveryAtPipeline'
  <2>1. PipelineStart' = PipelineStart
    <3>1. CASE P = 0
      BY <1>1, <3>1 DEF PipelineStart
    <3>2. CASE P > 0
      <4>1. pipeline'[1] = pipeline[1] /\ pipeline # <<>>
        BY <1>1, <3>2
      <4>. QED
        BY <1>1, <4>1 DEF PipelineStart
    <3>. QED
      BY <1>1, <3>1, <3>2
  <2>. QED
    BY <2>1 DEF IncomingInv, DeliveryAtPipeline, DeliveredUpTo
<1>4. DeliveredWithoutGap'
  BY DEF IncomingInv, DeliveredWithoutGap
<1>. QED
  BY <1>2, <1>3, <1>4 DEF IncomingInv

(* The head of the pipeline leaves it: what remains starts where it ended.   *)
LEMMA PopPipeline ==
    ASSUME TypeOK, PipelineChained, pipeline # <<>>, pipeline' = Tail(pipeline),
           UNCHANGED <<dataFrames, fragments>>
    PROVE  /\ PipelineChained'
           /\ PipelineStart' = Head(pipeline).to
           /\ PipelineStart = Head(pipeline).from
           /\ Head(pipeline).op # "message" => Head(pipeline).from = Head(pipeline).to
<1> DEFINE P == Len(pipeline)
<1>1. /\ P \in Nat \ {0}
      /\ Head(pipeline) = pipeline[1]
      /\ Len(pipeline') = P - 1
      /\ \A i \in 1..(P - 1) : pipeline'[i] = pipeline[i + 1]
      /\ pipeline' = <<>> <=> P = 1
  <2>1. pipeline \in Seq(PipelineFrame)
    BY DEF TypeOK
  <2>2. P \in Nat \ {0} /\ Head(pipeline) = pipeline[1]
    BY <2>1
  <2>3. /\ pipeline' \in Seq(PipelineFrame)
        /\ Len(pipeline') = P - 1
        /\ \A i \in 1..(P - 1) : pipeline'[i] = pipeline[i + 1]
    BY <2>1, <2>2, HeadTailProperties
  <2>4. pipeline' = <<>> <=> Len(pipeline') = 0
    BY <2>3, EmptySeq
  <2>. QED
    BY <2>2, <2>3, <2>4
<1>2. Assembled' = Assembled
  BY DEF Assembled
<1>3. PipelineChained'
  <2>1. ASSUME NEW i \in 1..(Len(pipeline') - 1)
        PROVE  pipeline'[i + 1].from = pipeline'[i].to
    <3>1. i \in 1..(P - 1) /\ i + 1 \in 1..(P - 1)
      BY <1>1
    <3>2. pipeline[(i + 1) + 1].from = pipeline[i + 1].to
      BY <3>1 DEF PipelineChained
    <3>3. pipeline'[i] = pipeline[i + 1] /\ pipeline'[i + 1] = pipeline[(i + 1) + 1]
      BY <1>1, <3>1
    <3>. QED
      BY <3>2, <3>3
  <2>2. pipeline' # <<>> => pipeline'[Len(pipeline')].to = Assembled
    <3>1. P > 1 => P - 1 \in 1..(P - 1) /\ (P - 1) + 1 = P
      BY <1>1
    <3>2. pipeline[P].to = Assembled
      BY DEF PipelineChained
    <3>. QED
      BY <1>1, <3>1, <3>2
  <2>3. ASSUME NEW i \in 1..Len(pipeline'), pipeline'[i].op # "message"
        PROVE  pipeline'[i].from = pipeline'[i].to
    <3>1. i \in 1..(P - 1) /\ i + 1 \in 1..P /\ pipeline'[i] = pipeline[i + 1]
      BY <1>1
    <3>. QED
      BY <2>3, <3>1 DEF PipelineChained
  <2>. QED
    BY <1>2, <2>1, <2>2, <2>3 DEF PipelineChained
<1>4. PipelineStart' = pipeline[1].to
  <2>1. CASE P = 1
    BY <1>1, <1>2, <2>1 DEF PipelineStart, PipelineChained
  <2>2. CASE P > 1
    <3>1. 1 \in 1..(P - 1) /\ pipeline' # <<>> /\ pipeline'[1] = pipeline[1 + 1]
      BY <1>1, <2>2
    <3>2. pipeline[1 + 1].from = pipeline[1].to
      BY <3>1 DEF PipelineChained
    <3>. QED
      BY <3>1, <3>2 DEF PipelineStart
  <2>. QED
    BY <1>1, <2>1, <2>2
<1>5. pipeline[1].op # "message" => pipeline[1].from = pipeline[1].to
  <2>1. 1 \in 1..P
    BY <1>1
  <2>. QED
    BY <2>1 DEF PipelineChained
<1>. QED
  BY <1>1, <1>3, <1>4, <1>5 DEF PipelineStart

(* The head of the pipeline is not delivered: because it is a control frame, *)
(* or because the connection is no longer open.                              *)
LEMMA SkipIncomingInv ==
    ASSUME TypeOK, IncomingInv, pipeline # <<>>, pipeline' = Tail(pipeline),
           UNCHANGED <<dataFrames, fragments, delivered>>,
           state' = "Open" => state = "Open",
           state' # "Open" \/ Head(pipeline).op # "message"
    PROVE  IncomingInv'
<1>1. DeliveryAtPipeline'
  BY PopPipeline DEF IncomingInv, DeliveryAtPipeline, DeliveredUpTo
<1>2. DeliveredWithoutGap'
  BY DEF IncomingInv, DeliveredWithoutGap
<1>. QED
  BY <1>1, <1>2, PopPipeline DEF IncomingInv

(* The head of the pipeline is delivered.                                    *)
LEMMA DeliverIncomingInv ==
    ASSUME TypeOK, IncomingInv, pipeline # <<>>, pipeline' = Tail(pipeline),
           UNCHANGED <<state, dataFrames, fragments>>,
           state = "Open", Deliver(Head(pipeline))
    PROVE  IncomingInv'
<1> DEFINE D == Len(delivered)
           m == [from |-> Head(pipeline).from, to |-> Head(pipeline).to]
<1>1. /\ D \in Nat
      /\ D = 0 <=> delivered = <<>>
      /\ Len(delivered') = D + 1
      /\ \A i \in 1..D : delivered'[i] = delivered[i]
      /\ delivered'[D + 1] = m
      /\ delivered' # <<>>
  <2>1. Head(pipeline) \in PipelineFrame
    BY HeadTailProperties DEF TypeOK
  <2>2. /\ m \in [from: Nat, to: Nat]
        /\ delivered \in Seq([from: Nat, to: Nat])
        /\ delivered' = Append(delivered, m)
    BY <2>1 DEF TypeOK, Deliver, PipelineFrame
  <2> HIDE DEF m
  <2>. QED
    BY <2>2
<1>2. /\ PipelineChained'
      /\ PipelineStart' = m.to
      /\ DeliveredUpTo = m.from
  BY PopPipeline DEF IncomingInv, DeliveryAtPipeline
<1> HIDE DEF m
<1>3. DeliveryAtPipeline'
  BY <1>1, <1>2 DEF DeliveryAtPipeline, DeliveredUpTo
<1>4. DeliveredWithoutGap'
  <2>1. delivered'[1].from = 0
    <3>1. CASE D = 0
      BY <1>1, <1>2, <3>1 DEF DeliveredUpTo
    <3>2. CASE D > 0
      BY <1>1, <3>2 DEF IncomingInv, DeliveredWithoutGap
    <3>. QED
      BY <1>1, <3>1, <3>2
  <2>2. ASSUME NEW i \in 1..(Len(delivered') - 1)
        PROVE  delivered'[i + 1].from = delivered'[i].to
    <3>1. CASE i < D
      <4>1. i \in 1..(D - 1) /\ i \in 1..D /\ i + 1 \in 1..D
        BY <1>1, <3>1
      <4>2. delivered[i + 1].from = delivered[i].to
        BY <4>1 DEF IncomingInv, DeliveredWithoutGap
      <4>. QED
        BY <1>1, <4>1, <4>2
    <3>2. CASE i = D
      <4>1. D \in 1..D /\ delivered # <<>>
        BY <1>1, <3>2
      <4>. QED
        BY <1>1, <1>2, <3>2, <4>1 DEF DeliveredUpTo
    <3>. QED
      BY <1>1, <3>1, <3>2
  <2>. QED
    BY <2>1, <2>2 DEF DeliveredWithoutGap
<1>. QED
  BY <1>2, <1>3, <1>4 DEF IncomingInv

------------------------------------------------------------------------------
(* The invariant is inductive: one lemma per action                          *)

LEMMA SendIInv ==
    ASSUME IInv, NEW op \in {"message", "ping"}, Send(op)
    PROVE  IInv'
<1>1. OutgoingInv'
  BY SendDataFrameOutgoingInv DEF IInv, Send, OutgoingOp
<1>2. IncomingInv'
  BY QuietIncomingInv DEF IInv, Send, incoming
<1>. QED
  BY <1>1, <1>2, SendTypeOK DEF IInv

LEMMA AppCloseIInv ==
    ASSUME IInv, NEW code \in {"NormalClosure", "AbnormalClosure"}, AppClose(code)
    PROVE  IInv'
<1>1. OutgoingInv'
  BY CloseOutgoingInv DEF IInv, AppClose
<1>2. IncomingInv'
  BY QuietIncomingInv DEF IInv, AppClose, Close, incoming
<1>. QED
  BY <1>1, <1>2, AppCloseTypeOK DEF IInv

LEMMA TransmitIInv ==
    ASSUME IInv, Transmit
    PROVE  IInv'
<1>1. OutgoingInv'
  <2>1. PICK total \in 1..MaxFragments : WriteFrom(1, total)
    BY DEF Transmit
  <2>2. total \in Nat \ {0}
    BY BoundsAssumption
  <2>. QED
    BY <2>1, <2>2, WriteFromOutgoingInv DEF IInv, Transmit
<1>2. IncomingInv'
  BY QuietIncomingInv DEF IInv, Transmit, incoming
<1>. QED
  BY <1>1, <1>2, TransmitTypeOK DEF IInv

LEMMA DrainIInv ==
    ASSUME IInv, Drain
    PROVE  IInv'
<1>1. /\ outQueue # <<>>
      /\ cursor.next \in Nat \ {0}
      /\ cursor.total \in Nat \ {0}
  BY DEF IInv, TypeOK, OutgoingInv, CursorOnHead, Drain
<1>2. OutgoingInv'
  BY <1>1, WriteFromOutgoingInv DEF IInv, Drain
<1>3. IncomingInv'
  BY QuietIncomingInv DEF IInv, Drain, incoming
<1>. QED
  BY <1>1, <1>2, <1>3, DrainTypeOK DEF IInv

LEMMA TransmitFailsIInv ==
    ASSUME IInv, TransmitFails
    PROVE  IInv'
<1>1. IncomingInv'
  BY QuietIncomingInv DEF IInv, TransmitFails, Close, incoming
<1>. QED
  BY <1>1, TransmitFailsOutgoingInv, TransmitFailsTypeOK DEF IInv

LEMMA ReceiveIInv ==
    ASSUME IInv, NEW frame \in PeerFrame, Receive(frame)
    PROVE  IInv'
<1>0. TypeOK'
  BY ReceiveTypeOK DEF IInv
<1>a. Assembled \in Nat /\ dataFrames \in Nat /\ fragments \in Nat
  BY DEF Assembled, IInv, TypeOK
<1>1. CASE Reject
  <2>1. OutgoingInv'
    BY <1>1, CloseImmediatelyOutgoingInv DEF IInv, Reject
  <2>2. IncomingInv'
    BY <1>1, QuietIncomingInv DEF IInv, Reject, Receive, CloseImmediately
  <2>. QED
    BY <1>0, <2>1, <2>2 DEF IInv
<1>2. CASE /\ frame.op \in {"ping", "pong", "close"}
           /\ PostProcess(ControlFrame(frame.op))
           /\ UNCHANGED <<state, closing, socket, outgoing, dataFrames, fragments>>
  <2>1. OutgoingInv'
    BY <1>2, QuietOutgoingInv DEF IInv, OutgoingInv, CloseIsLast
  <2>2. ControlFrame(frame.op) \in PipelineFrame
    BY <1>2, <1>a DEF ControlFrame, PipelineFrame
  <2>3. IncomingInv'
    BY <1>2, <2>2, PushIncomingInv DEF IInv, Receive, PostProcess, ControlFrame, Assembled
  <2>. QED
    BY <1>0, <2>1, <2>3 DEF IInv
<1>3. CASE Assemble(frame) /\ UNCHANGED <<state, closing, socket, outgoing>>
  <2>1. OutgoingInv'
    BY <1>3, QuietOutgoingInv DEF IInv, OutgoingInv, CloseIsLast
  <2> DEFINE message == [op |-> "message", from |-> Assembled, to |-> dataFrames + 1]
  <2>2. CASE frame.isFinal
    <3>1. /\ pipeline' = Append(pipeline, message)
          /\ dataFrames' = dataFrames + 1
          /\ fragments' = 0
      BY <1>3, <2>2, Zenon DEF Assemble, PostProcess
    <3>2. message \in PipelineFrame /\ Assembled' = message.to
      BY <1>a, <3>1 DEF PipelineFrame, Assembled
    <3>. QED
      BY <1>0, <1>3, <2>1, <3>1, <3>2, PushIncomingInv DEF IInv, Receive
  <2>3. CASE ~frame.isFinal
    <3>1. /\ UNCHANGED pipeline
          /\ dataFrames' = dataFrames + 1
          /\ fragments' = fragments + 1
      BY <1>3, <2>3, Zenon DEF Assemble
    <3>2. Assembled' = Assembled
      BY <1>a, <3>1 DEF Assembled
    <3>3. IncomingInv'
      BY <1>3, <3>1, <3>2 DEF IInv, Receive, IncomingInv, PipelineChained,
         DeliveryAtPipeline, DeliveredWithoutGap, DeliveredUpTo, PipelineStart
    <3>. QED
      BY <1>0, <2>1, <3>3 DEF IInv
  <2>. QED
    BY <2>2, <2>3
<1>. QED
  BY <1>1, <1>2, <1>3 DEF Receive, ValidateDataFrame

LEMMA PostProcessThrowsIInv ==
    ASSUME IInv, PostProcessThrows
    PROVE  IInv'
<1>1. OutgoingInv'
  BY CloseOutgoingInv DEF IInv, PostProcessThrows
<1>2. IncomingInv'
  BY SkipIncomingInv DEF IInv, PostProcessThrows, Close
<1>. QED
  BY <1>1, <1>2, PostProcessThrowsTypeOK DEF IInv

LEMMA PostProcessRejectsIInv ==
    ASSUME IInv, PostProcessRejects
    PROVE  IInv'
<1>1. OutgoingInv'
  BY CloseImmediatelyOutgoingInv DEF IInv, PostProcessRejects
<1>2. IncomingInv'
  BY SkipIncomingInv DEF IInv, PostProcessRejects, CloseImmediately
<1>. QED
  BY <1>1, <1>2, PostProcessRejectsTypeOK DEF IInv

LEMMA DispatchIInv ==
    ASSUME IInv, Dispatch
    PROVE  IInv'
<1> DEFINE frame == Head(pipeline)
<1>0. TypeOK' /\ UNCHANGED <<socket, cursor, lost, wire, dataFrames, fragments>>
      /\ pipeline # <<>> /\ pipeline' = Tail(pipeline)
  BY DispatchTypeOK DEF IInv, Dispatch
<1>1. CASE /\ Dropped(frame) \/ frame.op = "pong"
           /\ UNCHANGED <<state, closing, accepted, outQueue, delivered>>
  <2>1. OutgoingInv'
    BY <1>0, <1>1, QuietOutgoingInv DEF IInv, OutgoingInv, CloseIsLast, outgoing
  <2>2. IncomingInv'
    BY <1>0, <1>1, SkipIncomingInv DEF IInv, Dropped
  <2>. QED
    BY <1>0, <2>1, <2>2 DEF IInv
<1>2. CASE /\ ~Dropped(frame) /\ frame.op = "message"
           /\ Deliver(frame)
           /\ UNCHANGED <<state, closing, accepted, outQueue>>
  <2>1. OutgoingInv'
    BY <1>0, <1>2, QuietOutgoingInv DEF IInv, OutgoingInv, CloseIsLast, outgoing
  <2>2. IncomingInv'
    BY <1>0, <1>2, DeliverIncomingInv DEF IInv, Dropped
  <2>. QED
    BY <1>0, <2>1, <2>2 DEF IInv
<1>3. CASE frame.op = "ping" /\ ProcessPingFrame /\ UNCHANGED delivered
  <2>1. OutgoingInv'
    <3>1. CASE SendDataFrame(outQueue, "pong") /\ UNCHANGED <<state, closing>>
      BY <1>0, <3>1, SendDataFrameOutgoingInv DEF IInv, OutgoingOp
    <3>2. CASE Close(outQueue, "ProtocolError")
      BY <1>0, <3>2, CloseOutgoingInv DEF IInv
    <3>. QED
      BY <1>3, <3>1, <3>2 DEF ProcessPingFrame
  <2>2. state' = "Open" => state = "Open"
    BY <1>3 DEF ProcessPingFrame, Close
  <2>3. IncomingInv'
    BY <1>0, <1>3, <2>2, SkipIncomingInv DEF IInv
  <2>. QED
    BY <1>0, <2>1, <2>3 DEF IInv
<1>4. CASE frame.op = "close" /\ ProcessConnectionCloseFrame /\ UNCHANGED delivered
  <2>1. PICK code : Close(outQueue, code)
    BY <1>4 DEF ProcessConnectionCloseFrame
  <2>2. OutgoingInv'
    BY <1>0, <2>1, CloseOutgoingInv DEF IInv
  <2>3. state' = "Open" => state = "Open"
    BY <2>1 DEF Close
  <2>4. IncomingInv'
    BY <1>0, <1>4, <2>3, SkipIncomingInv DEF IInv
  <2>. QED
    BY <1>0, <2>2, <2>4 DEF IInv
<1>. QED
  BY <1>1, <1>2, <1>3, <1>4 DEF Dispatch, ParsedDataHandler

LEMMA SocketErrorIInv ==
    ASSUME IInv, SocketError
    PROVE  IInv'
<1>1. OutgoingInv'
  BY CloseOutgoingInv DEF IInv, SocketError
<1>2. IncomingInv'
  BY QuietIncomingInv DEF IInv, SocketError, Close, incoming
<1>. QED
  BY <1>1, <1>2, SocketErrorTypeOK DEF IInv

LEMMA SocketCloseIInv ==
    ASSUME IInv, SocketClose
    PROVE  IInv'
<1>1. IncomingInv'
  BY QuietIncomingInv DEF IInv, SocketClose, incoming
<1>. QED
  BY <1>1, SocketCloseOutgoingInv, SocketCloseTypeOK DEF IInv

LEMMA EndSocketIInv ==
    ASSUME IInv, EndSocket
    PROVE  IInv'
<1>1. TypeOK'
  BY DEF IInv, TypeOK, EndSocket, outgoing, incoming
<1>2. OutgoingInv'
  BY EndSocketOutgoingInv DEF IInv
<1>3. IncomingInv'
  BY QuietIncomingInv DEF IInv, EndSocket, incoming
<1>. QED
  BY <1>1, <1>2, <1>3 DEF IInv

LEMMA IInvStutters == IInv /\ UNCHANGED vars => IInv'
<1> SUFFICES ASSUME IInv, UNCHANGED vars PROVE IInv'
  OBVIOUS
<1>1. TypeOK'
  BY DEF IInv, TypeOK, vars, outgoing, incoming
<1>2. OutgoingInv'
  BY QuietOutgoingInv DEF IInv, OutgoingInv, CloseIsLast, vars
<1>3. IncomingInv'
  BY QuietIncomingInv DEF IInv, vars, incoming
<1>. QED
  BY <1>1, <1>2, <1>3 DEF IInv

LEMMA IInvInductive == IInv /\ [Next]_vars => IInv'
<1> SUFFICES ASSUME IInv, [Next]_vars PROVE IInv'
  OBVIOUS
<1>1. ASSUME NEW op \in {"message", "ping"}, Send(op) PROVE IInv'
  BY <1>1, SendIInv
<1>2. ASSUME NEW code \in {"NormalClosure", "AbnormalClosure"}, AppClose(code) PROVE IInv'
  BY <1>2, AppCloseIInv
<1>3. CASE Transmit
  BY <1>3, TransmitIInv
<1>4. CASE TransmitFails
  BY <1>4, TransmitFailsIInv
<1>5. CASE Drain
  BY <1>5, DrainIInv
<1>6. ASSUME NEW frame \in PeerFrame, Receive(frame) PROVE IInv'
  BY <1>6, ReceiveIInv
<1>7. CASE Dispatch
  BY <1>7, DispatchIInv
<1>8. CASE PostProcessThrows
  BY <1>8, PostProcessThrowsIInv
<1>9. CASE PostProcessRejects
  BY <1>9, PostProcessRejectsIInv
<1>10. CASE SocketError
  BY <1>10, SocketErrorIInv
<1>11. CASE SocketClose
  BY <1>11, SocketCloseIInv
<1>12. CASE EndSocket
  BY <1>12, EndSocketIInv
<1>13. CASE UNCHANGED vars
  BY <1>13, IInvStutters
<1>. QED
  BY <1>1, <1>2, <1>3, <1>4, <1>5, <1>6, <1>7, <1>8, <1>9, <1>10, <1>11, <1>12,
     <1>13 DEF Next

------------------------------------------------------------------------------
(* The theorems                                                              *)

LEMMA SpecIInv == Spec => []IInv
<1>1. Init => IInv
  BY InitTypeOK, InitOutgoingInv, InitIncomingInv DEF IInv
<1>. QED
  BY <1>1, IInvInductive, PTL DEF Spec

(* Every variable keeps its type, for any number of frames.                  *)
THEOREM TypeCorrect == Spec => []TypeOK
<1>1. IInv => TypeOK
  BY DEF IInv
<1>. QED
  BY <1>1, SpecIInv, PTL

(* sendData writes frames in the order in which sendDataFrame accepted them, *)
(* without interleaving their fragments.                                     *)
THEOREM WireOrder == Spec => []WireInOrder
<1>1. IInv => WireInOrder
  BY DEF IInv, OutgoingInv
<1>. QED
  BY <1>1, SpecIInv, PTL

(* Once the Close frame of close() is on the wire nothing follows it.        *)
THEOREM CloseFrameIsLast == Spec => []NothingAfterCloseFrame
<1>1. IInv => NothingAfterCloseFrame
  <2> SUFFICES ASSUME IInv, NEW i \in 1..(Len(wire) - 1), wire[i].op = "close"
               PROVE  ~wire[i].isFinal /\ wire[i + 1].n = wire[i].n
    BY DEF NothingAfterCloseFrame
  <2>1. wire \in Seq(WireFrame) /\ i \in 1..Len(wire) /\ i + 1 \in 1..Len(wire)
    BY DEF IInv, TypeOK
  <2>2. wire[i + 1] \in WireFrame /\ wire[i] \in WireFrame
    BY <2>1
  <2>3. wire[i + 1].n \in Nat /\ wire[i].n \in Nat
    BY <2>2 DEF WireFrame
  <2>4. wire[i].n = accepted
    BY <2>1 DEF IInv, OutgoingInv, CloseIsLast
  <2>5. wire[i + 1].n <= accepted
    <3>1. wire[i + 1].n <= accepted - Len(outQueue) + (IF cursor.next > 0 THEN 1 ELSE 0)
      BY <2>1 DEF IInv, OutgoingInv, CursorOnHead
    <3>2. /\ accepted \in Nat
          /\ Len(outQueue) \in Nat
          /\ cursor.next > 0 => Len(outQueue) > 0
      <4>1. outQueue \in Seq(OutgoingFrame) /\ accepted \in Nat
        BY DEF IInv, TypeOK
      <4>2. cursor.next > 0 => outQueue # <<>>
        BY DEF IInv, OutgoingInv, CursorOnHead
      <4>. QED
        BY <4>1, <4>2, EmptySeq
    <3>. QED
      BY <2>3, <3>1, <3>2
  <2>6. Follows(wire[i], wire[i + 1])
    BY DEF IInv, OutgoingInv, WireInOrder
  <2>. QED
    BY <2>3, <2>4, <2>5, <2>6 DEF Follows
<1>. QED
  BY <1>1, SpecIInv, PTL

(* A close handshake writes everything accepted before it.                   *)
THEOREM HandshakeLosesNothing == Spec => []HandshakeFlushesQueue
<1>1. IInv => HandshakeFlushesQueue
  BY DEF IInv, OutgoingInv, Flushed, HandshakeFlushesQueue
<1>. QED
  BY <1>1, SpecIInv, PTL

(* Messages reach the application in the peer's order, without a gap.        *)
THEOREM DeliveryOrder == Spec => []DeliveredWithoutGap
<1>1. IInv => DeliveredWithoutGap
  BY DEF IInv, IncomingInv
<1>. QED
  BY <1>1, SpecIInv, PTL

(* The connection state only advances: setState never throws.                *)
THEOREM StatesAdvance == Spec => StateOnlyAdvances
<1>1. IInv /\ [Next]_vars => [state' # state => Rank[state'] > Rank[state]]_vars
  <2> SUFFICES ASSUME IInv, Next, state' # state
               PROVE  Rank[state'] > Rank[state]
    OBVIOUS
  <2>1. \/ state = "Open" /\ state' = "Closing"
        \/ state # "Closed" /\ state' = "Closed"
    <3>1. ASSUME NEW queue, NEW code, Close(queue, code)
          PROVE  state = "Open" /\ state' = "Closing"
      BY <3>1 DEF Close
    <3>2. ASSUME CloseImmediately
          PROVE  state = "Open" /\ state' = "Closing"
      BY <3>2 DEF CloseImmediately
    <3>3. ASSUME NEW op, Send(op) PROVE FALSE
      BY <3>3 DEF Send
    <3>4. CASE Transmit \/ Drain \/ EndSocket
      BY <3>4 DEF Transmit, Drain, EndSocket
    <3>5. ASSUME NEW code, AppClose(code) PROVE state = "Open" /\ state' = "Closing"
      BY <3>1, <3>5 DEF AppClose
    <3>6. CASE TransmitFails \/ PostProcessThrows \/ SocketError
      BY <3>1, <3>6 DEF TransmitFails, PostProcessThrows, SocketError
    <3>7. ASSUME NEW frame, Receive(frame) PROVE state = "Open" /\ state' = "Closing"
      BY <3>2, <3>7 DEF Receive, ValidateDataFrame, Reject
    <3>8. CASE PostProcessRejects
      BY <3>2, <3>8 DEF PostProcessRejects
    <3>9. CASE Dispatch
      BY <3>1, <3>9 DEF Dispatch, ParsedDataHandler, ProcessPingFrame,
         ProcessConnectionCloseFrame
    <3>10. CASE SocketClose
      <4>1. state' = "Closed" /\ state # "Closed"
        BY <3>10 DEF SocketClose
      <4>. QED
        BY <4>1
    <3>. QED
      BY <3>3, <3>4, <3>5, <3>6, <3>7, <3>8, <3>9, <3>10 DEF Next
  <2>2. state \in ConnectionState
    BY DEF IInv, TypeOK
  <2>. QED
    BY <2>1, <2>2 DEF Rank, ConnectionState
<1>. QED
  BY <1>1, SpecIInv, PTL DEF Spec, StateOnlyAdvances

------------------------------------------------------------------------------
(* The refinement of OrderedChannel.                                         *)

(* The last final fragment of a sequence of frames in order.                 *)

Sorted(w) == \A i, k \in 1..Len(w) : i <= k => w[i].n <= w[k].n

(* If there is a final fragment there is a last one.                         *)
HasLast(w) ==
    \/ \A i \in 1..Len(w) : ~w[i].isFinal
    \/ \E i \in 1..Len(w) :
          w[i].isFinal /\ \A k \in 1..Len(w) : w[k].isFinal => k <= i

LEMMA LastFinalIsLargest ==
    ASSUME NEW w \in Seq(WireFrame), Sorted(w), HasLast(w)
    PROVE  /\ LastFinal(w) \in Nat
           /\ \A i \in 1..Len(w) : w[i].isFinal => w[i].n <= LastFinal(w)
           /\ \/ LastFinal(w) = 0
              \/ \E i \in 1..Len(w) : w[i].isFinal /\ w[i].n = LastFinal(w)
<1>1. DOMAIN w = 1..Len(w) /\ \A i \in 1..Len(w) : w[i] \in WireFrame
  OBVIOUS
<1>2. \A i \in 1..Len(w) : w[i].n \in Nat
  BY <1>1 DEF WireFrame
<1>3. CASE \A i \in 1..Len(w) : ~w[i].isFinal
  <2>1. LastFinal(w) = 0
    BY <1>1, <1>3 DEF LastFinal
  <2>. QED
    BY <1>3, <2>1
<1>4. CASE \E i \in 1..Len(w) :
              w[i].isFinal /\ \A k \in 1..Len(w) : w[k].isFinal => k <= i
  <2> DEFINE P(i) == w[i].isFinal /\ \A k \in DOMAIN w : w[k].isFinal => k <= i
             m == CHOOSE i \in DOMAIN w : P(i)
  <2>1. \E i \in DOMAIN w : P(i)
    BY <1>1, <1>4, Zenon
  <2>2. m \in DOMAIN w /\ P(m)
    BY <2>1
  <2>3. LastFinal(w) = w[m].n
    <3>1. \E i \in DOMAIN w : w[i].isFinal
      BY <2>1
    <3>. QED
      BY <3>1, Zenon DEF LastFinal
  <2> HIDE DEF m
  <2>4. ASSUME NEW i \in 1..Len(w), w[i].isFinal PROVE w[i].n <= w[m].n
    BY <1>1, <2>2, <2>4 DEF Sorted
  <2>. QED
    BY <1>1, <1>2, <2>2, <2>3, <2>4
<1>. QED
  BY <1>3, <1>4 DEF HasLast

(* v is w, followed by fragments of frame n, the last of them final or not.  *)
Extends(v, w, n, final) ==
    /\ v \in Seq(WireFrame)
    /\ Len(v) \in Nat /\ Len(v) > Len(w)
    /\ \A k \in 1..Len(w) : v[k] = w[k]
    /\ \A k \in (Len(w) + 1)..Len(v) :
          /\ v[k].n = n
          /\ v[k].isFinal => k = Len(v)
          /\ v[k].isFinal => final
          /\ k = Len(v) => (final => v[k].isFinal)

LEMMA PartsAppended ==
    ASSUME NEW w \in Seq(WireFrame), NEW h \in OutgoingFrame,
           NEW i \in Nat, NEW j \in Nat, NEW total \in Nat, i <= j, j <= total
    PROVE  Extends(w \o Parts(h, i, j, total), w, h.n, j = total)
<1> DEFINE p == Parts(h, i, j, total)
           m == j - i + 1
           v == w \o p
<1>1. /\ p \in Seq(WireFrame)
      /\ Len(p) = m
      /\ \A k \in 1..m : p[k] = Part(h, i + k - 1, total)
  BY PartsProperties
<1> HIDE DEF p
<1>2. m \in Nat \ {0} /\ Len(w) \in Nat
  OBVIOUS
<1> HIDE DEF m
<1>3. /\ w \o p \in Seq(WireFrame)
      /\ Len(w \o p) = Len(w) + Len(p)
      /\ \A k \in 1..(Len(w) + Len(p)) :
            (w \o p)[k] = IF k <= Len(w) THEN w[k] ELSE p[k - Len(w)]
  BY <1>1, ConcatProperties
<1> HIDE DEF v
<1>4. /\ v \in Seq(WireFrame)
      /\ Len(v) = Len(w) + m
      /\ \A k \in 1..(Len(w) + Len(p)) :
            v[k] = IF k <= Len(w) THEN w[k] ELSE p[k - Len(w)]
  BY <1>1, <1>3 DEF v
<1>5. ASSUME NEW k \in 1..Len(w) PROVE v[k] = w[k]
  BY <1>1, <1>2, <1>4
<1>6. ASSUME NEW k \in (Len(w) + 1)..Len(v)
      PROVE  /\ v[k].n = h.n
             /\ v[k].isFinal => k = Len(v)
             /\ v[k].isFinal => j = total
             /\ k = Len(v) => (j = total => v[k].isFinal)
  <2> DEFINE q == k - Len(w)
             r == i + q - 1
  <2>1. q \in 1..m /\ k \in 1..(Len(w) + Len(p)) /\ ~(k <= Len(w))
    BY <1>1, <1>2, <1>4
  <2>2. v[k] = p[q]
    BY <1>4, <2>1
  <2>3. p[q] = Part(h, r, total)
    BY <1>1, <2>1
  <2>4. /\ r \in Nat
        /\ r = total => k = Len(v)
        /\ r = total => j = total
        /\ k = Len(v) => (j = total => r = total)
    <3>1. r = k - Len(v) + j /\ k <= Len(v) /\ r \in Nat
      BY <1>2, <1>4, <2>1 DEF m
    <3>2. k \in Int /\ Len(v) \in Int
      BY <1>2, <1>4, <2>1
    <3> DEFINE L == Len(v)
    <3> HIDE DEF r, L
    <3>3. r = k - L + j /\ k <= L /\ L \in Int /\ k \in Int /\ r \in Nat
      BY <3>1, <3>2 DEF L
    <3>4. /\ r = total => k = L
          /\ r = total => j = total
          /\ k = L => (j = total => r = total)
      BY <3>3
    <3>. QED
      BY <3>3, <3>4 DEF L
  <2> HIDE DEF q, r
  <2>5. /\ Part(h, r, total).n = h.n
        /\ Part(h, r, total).isFinal <=> r = total
    BY <2>4, PartFields
  <2>. QED
    BY <2>2, <2>3, <2>4, <2>5
<1>7. Len(v) \in Nat /\ Len(v) > Len(w)
  BY <1>2, <1>4
<1>8. Extends(v, w, h.n, j = total)
  BY <1>4, <1>5, <1>6, <1>7 DEF Extends
<1>. QED
  BY <1>8 DEF v, p

(* Fragments of a frame that comes after all that is there.                  *)
LEMMA AppendingKeepsSorted ==
    ASSUME NEW w \in Seq(WireFrame), Sorted(w), HasLast(w),
           NEW n \in Nat, NEW final \in BOOLEAN, NEW v, Extends(v, w, n, final),
           \A k \in 1..Len(w) : w[k].n <= n
    PROVE  /\ Sorted(v) /\ HasLast(v)
           /\ LastFinal(v) = IF final THEN n ELSE LastFinal(w)
<1>1. /\ v \in Seq(WireFrame)
      /\ Len(v) \in Nat /\ Len(v) > Len(w)
      /\ \A k \in 1..Len(w) : v[k] = w[k]
      /\ \A k \in (Len(w) + 1)..Len(v) :
            /\ v[k].n = n
            /\ v[k].isFinal => k = Len(v)
            /\ v[k].isFinal => final
            /\ k = Len(v) => (final => v[k].isFinal)
  BY DEF Extends
<1>2. n \in Nat /\ Len(w) \in Nat
  OBVIOUS
<1>3. Sorted(v)
  <2> SUFFICES ASSUME NEW a \in 1..Len(v), NEW b \in 1..Len(v), a <= b
               PROVE  v[a].n <= v[b].n
    BY DEF Sorted
  <2>1. CASE b \in 1..Len(w)
    <3>1. a \in 1..Len(w) /\ v[a] = w[a] /\ v[b] = w[b]
      BY <1>1, <1>2, <2>1
    <3>. QED
      BY <2>1, <3>1 DEF Sorted
  <2>2. CASE b \in (Len(w) + 1)..Len(v)
    <3>1. v[b].n = n
      BY <1>1, <2>2
    <3>2. CASE a \in 1..Len(w)
      BY <1>1, <3>1, <3>2
    <3>3. CASE a \in (Len(w) + 1)..Len(v)
      BY <1>1, <1>2, <3>1, <3>3
    <3>. QED
      BY <1>1, <1>2, <3>2, <3>3
  <2>. QED
    BY <1>1, <1>2, <2>1, <2>2
<1>4. HasLast(v)
  <2>1. CASE final
    <3>1. Len(v) \in (Len(w) + 1)..Len(v) /\ Len(v) \in 1..Len(v)
      BY <1>1, <1>2
    <3>2. v[Len(v)].isFinal
      BY <1>1, <2>1, <3>1
    <3>. QED
      BY <1>1, <3>1, <3>2 DEF HasLast
  <2>2. CASE ~final
    <3>1. \A k \in 1..Len(v) : v[k].isFinal => k \in 1..Len(w) /\ w[k].isFinal
      <4> TAKE k \in 1..Len(v)
      <4>1. k \in 1..Len(w) \/ k \in (Len(w) + 1)..Len(v)
        BY <1>1, <1>2
      <4>. QED
        BY <1>1, <2>2, <4>1
    <3>2. CASE \A k \in 1..Len(w) : ~w[k].isFinal
      BY <3>1, <3>2 DEF HasLast
    <3>3. CASE \E a \in 1..Len(w) :
                  w[a].isFinal /\ \A k \in 1..Len(w) : w[k].isFinal => k <= a
      <4>1. PICK a \in 1..Len(w) :
                  w[a].isFinal /\ \A k \in 1..Len(w) : w[k].isFinal => k <= a
        BY <3>3
      <4>2. a \in 1..Len(v) /\ v[a].isFinal
        BY <1>1, <1>2, <4>1
      <4>. QED
        BY <3>1, <4>1, <4>2 DEF HasLast
    <3>. QED
      BY <3>2, <3>3 DEF HasLast
  <2>. QED
    BY <2>1, <2>2
<1>5. /\ LastFinal(w) \in Nat
      /\ \A k \in 1..Len(w) : w[k].isFinal => w[k].n <= LastFinal(w)
      /\ \/ LastFinal(w) = 0
         \/ \E k \in 1..Len(w) : w[k].isFinal /\ w[k].n = LastFinal(w)
  BY LastFinalIsLargest
<1>6. /\ LastFinal(v) \in Nat
      /\ \A k \in 1..Len(v) : v[k].isFinal => v[k].n <= LastFinal(v)
      /\ \/ LastFinal(v) = 0
         \/ \E k \in 1..Len(v) : v[k].isFinal /\ v[k].n = LastFinal(v)
  BY <1>1, <1>3, <1>4, LastFinalIsLargest
<1>7. \A k \in 1..Len(v) : k \in 1..Len(w) \/ k \in (Len(w) + 1)..Len(v)
  BY <1>1, <1>2
<1>8. CASE final
  <2>1. Len(v) \in (Len(w) + 1)..Len(v) /\ Len(v) \in 1..Len(v)
    BY <1>1, <1>2
  <2>2. v[Len(v)].isFinal /\ v[Len(v)].n = n
    BY <1>1, <1>8, <2>1
  <2>3. n <= LastFinal(v)
    BY <1>6, <2>1, <2>2
  <2>4. \A k \in 1..Len(v) : v[k].n <= n
    <3> TAKE k \in 1..Len(v)
    <3>1. CASE k \in 1..Len(w)
      BY <1>1, <3>1
    <3>2. CASE k \in (Len(w) + 1)..Len(v)
      BY <1>1, <1>2, <3>2
    <3>. QED
      BY <1>7, <3>1, <3>2
  <2>5. LastFinal(v) <= n
    BY <1>2, <1>6, <2>4
  <2>6. LastFinal(v) = n
    BY <1>2, <1>6, <2>3, <2>5
  <2>. QED
    BY <1>1, <1>3, <1>4, <1>8, <2>6
<1>9. CASE ~final
  <2>1. \A k \in 1..Len(v) : v[k].isFinal => k \in 1..Len(w) /\ w[k] = v[k]
    BY <1>1, <1>7, <1>9
  <2>2. LastFinal(v) <= LastFinal(w)
    BY <1>5, <1>6, <2>1
  <2>3. \A k \in 1..Len(w) : k \in 1..Len(v) /\ v[k] = w[k]
    BY <1>1, <1>2
  <2>4. LastFinal(w) <= LastFinal(v)
    BY <1>5, <1>6, <2>3
  <2>5. LastFinal(v) = LastFinal(w)
    BY <1>5, <1>6, <2>2, <2>4
  <2>. QED
    BY <1>1, <1>3, <1>4, <1>9, <2>5
<1>. QED
  BY <1>8, <1>9

------------------------------------------------------------------------------
(* What the refinement needs beyond IInv.                                    *)

(* Only a failure leaves frames out, and it closes; a handshake has accepted *)
(* its Close frame, the last of the queue as long as the queue holds it, and *)
(* that frame is not left out.                                               *)
QueueInv ==
    /\ state = "Open" => socket = "open"
    /\ state = "Open" => lost = {}
    /\ \A n \in lost : n <= accepted - Len(outQueue)
    /\ closing = "handshake" => accepted > 0
    /\ closing = "handshake" => accepted \notin lost
    /\ closing = "handshake" =>
          (outQueue # <<>> => outQueue[Len(outQueue)].op = "close")

WireInv == Sorted(wire) /\ HasLast(wire)

(* A message is made of one data frame at least.                             *)
PipelineInv ==
    \A i \in 1..Len(pipeline) :
        pipeline[i].op = "message" => pipeline[i].from < pipeline[i].to

ChannelInv == IInv /\ QueueInv /\ WireInv /\ PipelineInv

LEMMA SendKeepsQueueInv ==
    ASSUME IInv, QueueInv, NEW op, SendDataFrame(outQueue, op),
           UNCHANGED <<state, closing, socket, lost>>
    PROVE  QueueInv'
<1>1. CASE state = "Open"
  <2>1. state' = "Open" /\ socket' = "open" /\ lost' = {} /\ closing' # "handshake"
    BY <1>1 DEF QueueInv, IInv, OutgoingInv, CloseIsLast
  <2>. QED
    BY <2>1 DEF QueueInv
<1>2. CASE state # "Open"
  BY <1>2 DEF SendDataFrame, QueueInv
<1>. QED
  BY <1>1, <1>2

LEMMA CloseKeepsQueueInv ==
    ASSUME IInv, NEW queue \in Seq(OutgoingFrame), NEW code, Close(queue, code),
           lost' \subseteq Nat,
           \A n \in lost' : n <= accepted - Len(queue),
           closing = "handshake" => accepted > 0,
           closing = "handshake" => accepted \notin lost',
           closing = "handshake" => (queue # <<>> => queue[Len(queue)].op = "close")
    PROVE  QueueInv'
<1>0. accepted \in Nat /\ Len(queue) \in Nat
  BY DEF IInv, TypeOK
<1>1. CASE state = "Open"
  <2> DEFINE f == [op |-> "close", n |-> accepted + 1, code |-> code]
  <2>1. /\ state' = "Closing"
        /\ accepted' = accepted + 1
        /\ outQueue' = Append(queue, f)
    BY <1>1 DEF Close, Enqueue
  <2>2. /\ Len(outQueue') = Len(queue) + 1
        /\ outQueue'[Len(queue) + 1] = f
    BY <2>1
  <2>3. \A n \in lost' : n <= accepted' - Len(outQueue') /\ n # accepted'
    BY <1>0, <2>1, <2>2
  <2>4. outQueue'[Len(outQueue')].op = "close"
    BY <2>2
  <2>. QED
    BY <1>0, <2>1, <2>3, <2>4 DEF QueueInv
<1>2. CASE state # "Open"
  BY <1>2 DEF Close, QueueInv
<1>. QED
  BY <1>1, <1>2

(* The head leaves the queue, whatever becomes of it.                        *)
LEMMA TailProperties ==
    ASSUME IInv, QueueInv, outQueue # <<>>
    PROVE  /\ Tail(outQueue) \in Seq(OutgoingFrame)
           /\ \A n \in lost : n <= accepted - Len(Tail(outQueue))
           /\ Head(outQueue).n = accepted - Len(Tail(outQueue))
           /\ Head(outQueue).n \in 1..accepted
           /\ closing = "handshake" =>
                 (Tail(outQueue) # <<>> =>
                     Tail(outQueue)[Len(Tail(outQueue))].op = "close")
           /\ closing = "handshake" =>
                 (Head(outQueue).n = accepted => Head(outQueue).op = "close")
<1> DEFINE L == Len(outQueue)
           T == Tail(outQueue)
<1>1. /\ L \in Nat \ {0}
      /\ Head(outQueue) = outQueue[1]
      /\ Head(outQueue).n = accepted - L + 1
      /\ Len(T) = L - 1
      /\ \A k \in 1..Len(T) : T[k] = outQueue[k + 1]
  BY HeadProperties DEF IInv
<1>2. /\ T \in Seq(OutgoingFrame) /\ accepted \in Nat /\ L <= accepted
      /\ lost \subseteq Nat
  BY HeadTailProperties DEF IInv, TypeOK, OutgoingInv, QueueNumbered
<1>3. \A n \in lost : n <= accepted - L
  BY DEF QueueInv
<1>4. closing = "handshake" => outQueue[L].op = "close"
  BY DEF QueueInv
<1> HIDE DEF L, T
<1>5. \A n \in lost : n <= accepted - Len(T)
  BY <1>1, <1>2, <1>3
<1>6. T # <<>> => T[Len(T)] = outQueue[L]
  <2> SUFFICES ASSUME T # <<>> PROVE T[Len(T)] = outQueue[L]
    OBVIOUS
  <2>1. Len(T) # 0
    BY <1>2, EmptySeq
  <2>2. Len(T) \in 1..Len(T) /\ Len(T) + 1 = L
    BY <1>1, <2>1
  <2>. QED
    BY <1>1, <2>2
<1>7. Head(outQueue).n = accepted => L = 1
  BY <1>1, <1>2
<1>8. closing = "handshake" => (Head(outQueue).n = accepted => Head(outQueue).op = "close")
  BY <1>1, <1>4, <1>7
<1>9. Head(outQueue).n = accepted - Len(T) /\ Head(outQueue).n \in 1..accepted
  BY <1>1, <1>2
<1>. QED
  BY <1>2, <1>4, <1>5, <1>6, <1>8, <1>9 DEF T

LEMMA FinishKeepsQueueInv ==
    ASSUME IInv, QueueInv, outQueue # <<>>, Finish,
           UNCHANGED <<state, closing, accepted, lost>>
    PROVE  QueueInv'
<1>1. /\ \A n \in lost : n <= accepted - Len(Tail(outQueue))
      /\ closing = "handshake" =>
            (Tail(outQueue) # <<>> =>
                Tail(outQueue)[Len(Tail(outQueue))].op = "close")
  BY TailProperties
<1>2. state = "Open" => socket' = "open"
  BY HeadProperties DEF Finish, QueueInv, IInv
<1>. QED
  BY <1>1, <1>2 DEF Finish, QueueInv

LEMMA WriteFromKeepsQueueInv ==
    ASSUME IInv, QueueInv, outQueue # <<>>, NEW i, NEW total, WriteFrom(i, total),
           UNCHANGED <<state, closing, accepted, lost>>
    PROVE  QueueInv'
<1>1. CASE Finish
  BY <1>1, FinishKeepsQueueInv
<1>2. CASE UNCHANGED <<outQueue, socket>>
  BY <1>2 DEF QueueInv
<1>. QED
  BY <1>1, <1>2, Zenon DEF WriteFrom

(* The frame at the head comes after all frames that were sent.              *)
LEMMA HeadIsAhead ==
    ASSUME ChannelInv, outQueue # <<>>, Writable,
           cursor.next = 0 \/ cursor.next <= cursor.total
    PROVE  /\ LastSent \in Nat
           /\ LastSent < Head(outQueue).n
           /\ state = "Open" => Head(outQueue).n = LastSent + 1
<1> DEFINE n == Head(outQueue).n
           L == Len(outQueue)
           W == Len(wire)
<1>1. /\ LastFinal(wire) \in Nat
      /\ \A i \in 1..W : wire[i].isFinal => wire[i].n <= LastFinal(wire)
      /\ \/ LastFinal(wire) = 0
         \/ \E i \in 1..W : wire[i].isFinal /\ wire[i].n = LastFinal(wire)
  BY LastFinalIsLargest DEF ChannelInv, WireInv, IInv, TypeOK
<1>2. n \in 1..accepted /\ n = accepted - L + 1 /\ L \in Nat /\ accepted \in Nat
  BY TailProperties, HeadProperties DEF ChannelInv, IInv, TypeOK
<1>3. wire \in Seq(WireFrame) /\ W \in Nat /\ \A i \in 1..W : wire[i].n \in Nat
  <2>1. wire \in Seq(WireFrame)
    BY DEF ChannelInv, IInv, TypeOK
  <2>2. \A i \in 1..W : wire[i] \in WireFrame
    BY <2>1
  <2>. QED
    BY <2>1, <2>2 DEF WireFrame
<1>4. \A i \in 1..W : wire[i].n <= accepted - L + (IF cursor.next > 0 THEN 1 ELSE 0)
  BY DEF ChannelInv, IInv, OutgoingInv, CursorOnHead
<1>5. cursor.next \in Nat /\ cursor.total \in Nat
  BY DEF ChannelInv, IInv, TypeOK
<1>6. cursor.next > 0 => ~wire[W].isFinal
  <2> SUFFICES ASSUME cursor.next > 0 PROVE ~wire[W].isFinal
    OBVIOUS
  <2>1. wire[W].isFinal <=> cursor.next = cursor.total + 1
    BY DEF ChannelInv, IInv, OutgoingInv, CursorOnHead
  <2>. QED
    BY <1>5, <2>1
<1>7. \A i \in 1..(W - 1) : Follows(wire[i], wire[i + 1])
  BY DEF ChannelInv, IInv, OutgoingInv, WireInOrder
<1> HIDE DEF n, L, W
<1>8. ASSUME NEW i \in 1..W, wire[i].isFinal PROVE wire[i].n < n
  <2>1. CASE cursor.next = 0
    BY <1>2, <1>3, <1>4, <2>1
  <2>2. CASE cursor.next > 0
    <3>1. i \in 1..(W - 1) /\ i + 1 \in 1..W
      BY <1>3, <1>6, <1>8, <2>2
    <3>2. wire[i + 1].n > wire[i].n
      BY <1>7, <1>8, <3>1 DEF Follows
    <3>3. wire[i + 1].n <= n
      BY <1>2, <1>4, <2>2, <3>1
    <3>. QED
      BY <1>2, <1>3, <3>1, <3>2, <3>3
  <2>. QED
    BY <1>5, <2>1, <2>2
<1>9. LastFinal(wire) < n
  BY <1>1, <1>2, <1>8
<1>10. state = "Open" => n = LastFinal(wire) + 1
  <2> SUFFICES ASSUME state = "Open" PROVE n = LastFinal(wire) + 1
    OBVIOUS
  <2>1. CASE accepted - L = 0
    BY <1>1, <1>2, <1>9, <2>1
  <2>2. CASE accepted - L # 0
    <3>1. accepted - L \in 1..(accepted - L)
      BY <1>2, <2>2
    <3>2. Written(accepted - L)
      BY <3>1 DEF ChannelInv, QueueInv, IInv, OutgoingInv, Flushed, L
    <3>3. PICK i \in 1..W : wire[i].n = accepted - L /\ wire[i].isFinal
      BY <3>2 DEF Written, W
    <3>4. accepted - L <= LastFinal(wire)
      BY <1>1, <3>3
    <3>. QED
      BY <1>1, <1>2, <1>9, <3>4
  <2>. QED
    BY <2>1, <2>2
<1>. QED
  BY <1>1, <1>9, <1>10 DEF LastSent, n

(* Writing keeps the wire sorted; a frame is sent with its final fragment.   *)
LEMMA WriteFromKeepsWireInv ==
    ASSUME ChannelInv, outQueue # <<>>, NEW i \in Nat, NEW total \in Nat,
           WriteFrom(i, total)
    PROVE  /\ WireInv'
           /\ \/ LastSent' = LastSent
              \/ Writable /\ i <= total /\ LastSent' = Head(outQueue).n
<1> DEFINE h == Head(outQueue)
<1>1. /\ wire \in Seq(WireFrame) /\ Sorted(wire) /\ HasLast(wire)
      /\ h \in OutgoingFrame /\ h.n \in Nat
  BY HeadProperties DEF ChannelInv, IInv, TypeOK, WireInv
<1>2. \A k \in 1..Len(wire) : wire[k].n <= h.n
  <2> SUFFICES ASSUME NEW k \in 1..Len(wire) PROVE wire[k].n <= h.n
    OBVIOUS
  <2>1. wire[k].n <= accepted - Len(outQueue) + (IF cursor.next > 0 THEN 1 ELSE 0)
    BY DEF ChannelInv, IInv, OutgoingInv, CursorOnHead
  <2>2. /\ h.n = accepted - Len(outQueue) + 1
        /\ accepted \in Nat /\ Len(outQueue) \in Nat
    BY HeadProperties DEF ChannelInv, IInv, TypeOK
  <2>3. wire[k].n \in Nat
    <3>1. wire[k] \in WireFrame
      BY <1>1
    <3>. QED
      BY <3>1 DEF WireFrame
  <2> HIDE DEF h
  <2>. QED
    BY <2>1, <2>2, <2>3
<1>3. ASSUME NEW j \in Nat, i <= j, j <= total,
             wire' = wire \o Parts(h, i, j, total)
      PROVE  /\ WireInv'
             /\ LastSent' = IF j = total THEN h.n ELSE LastSent
  <2> DEFINE final == j = total
  <2>1. Extends(wire', wire, h.n, final)
    BY <1>1, <1>3, PartsAppended
  <2>2. final \in BOOLEAN
    OBVIOUS
  <2> HIDE DEF h, final
  <2>3. /\ Sorted(wire') /\ HasLast(wire')
        /\ LastFinal(wire') = IF final THEN h.n ELSE LastFinal(wire)
    BY <1>1, <1>2, <2>1, <2>2, AppendingKeepsSorted
  <2>. QED
    BY <2>3 DEF WireInv, LastSent, final
<1>4. CASE UNCHANGED wire
  BY <1>4 DEF ChannelInv, WireInv, LastSent
<1>5. CASE Writable /\ i <= total /\ wire' = wire \o Parts(h, i, total, total)
  BY <1>3, <1>5
<1>6. CASE /\ Writable
           /\ \E j \in i..total :
                 /\ wire' = wire \o Parts(h, i, j, total)
                 /\ cursor' = [next |-> j + 1, total |-> total]
  <2>1. PICK j \in i..total : wire' = wire \o Parts(h, i, j, total)
    BY <1>6
  <2>2. j \in Nat /\ i <= j /\ j <= total /\ i <= total
    BY <2>1
  <2>3. /\ WireInv'
        /\ LastSent' = IF j = total THEN h.n ELSE LastSent
    BY <1>3, <2>1, <2>2
  <2>. QED
    BY <1>6, <2>2, <2>3
<1>. QED
  BY <1>4, <1>5, <1>6 DEF WriteFrom

LEMMA PushKeepsPipelineInv ==
    ASSUME IInv, PipelineInv, NEW frame, pipeline' = Append(pipeline, frame),
           frame.op = "message" => frame.from < frame.to
    PROVE  PipelineInv'
<1>1. pipeline \in Seq(PipelineFrame)
  BY DEF IInv, TypeOK
<1>2. /\ Len(pipeline') = Len(pipeline) + 1
      /\ \A i \in 1..Len(pipeline) : pipeline'[i] = pipeline[i]
      /\ pipeline'[Len(pipeline) + 1] = frame
  BY <1>1
<1>3. ASSUME NEW i \in 1..Len(pipeline'), pipeline'[i].op = "message"
      PROVE  pipeline'[i].from < pipeline'[i].to
  <2>1. CASE i \in 1..Len(pipeline)
    BY <1>2, <1>3, <2>1 DEF PipelineInv
  <2>2. CASE i = Len(pipeline) + 1
    BY <1>2, <1>3, <2>2
  <2>. QED
    BY <1>1, <1>2, <2>1, <2>2
<1>. QED
  BY <1>3 DEF PipelineInv

LEMMA PopKeepsPipelineInv ==
    ASSUME IInv, PipelineInv, pipeline # <<>>, pipeline' = Tail(pipeline)
    PROVE  PipelineInv'
<1>1. pipeline \in Seq(PipelineFrame)
  BY DEF IInv, TypeOK
<1>2. /\ Len(pipeline') = Len(pipeline) - 1 /\ Len(pipeline) \in Nat
      /\ \A i \in 1..Len(pipeline') : pipeline'[i] = pipeline[i + 1]
  BY <1>1, HeadTailProperties
<1>3. \A i \in 1..Len(pipeline') : i + 1 \in 1..Len(pipeline)
  BY <1>2
<1>. QED
  BY <1>2, <1>3 DEF PipelineInv

------------------------------------------------------------------------------
(* Each step of a connection keeps ChannelInv, and is a step of the channel  *)
(* or none that its users see.                                               *)

Shown == UNCHANGED <<state, closing, Line, accepted, LastSent, LastDelivered>>

ChannelStep == Channel!Next \/ Shown

LEMMA QuietWire ==
    ASSUME WireInv, UNCHANGED wire
    PROVE  WireInv' /\ LastSent' = LastSent
BY DEF WireInv, LastSent

LEMMA QuietLine ==
    ASSUME UNCHANGED socket
    PROVE  Line' = Line
BY DEF Line, Writable

LEMMA QuietDelivered ==
    ASSUME UNCHANGED delivered
    PROVE  LastDelivered' = LastDelivered
BY DEF LastDelivered

LEMMA SendStep ==
    ASSUME ChannelInv, NEW op, SendDataFrame(outQueue, op),
           UNCHANGED <<state, closing, Line, LastSent, LastDelivered>>
    PROVE  ChannelStep
<1>1. CASE state = "Open"
  <2>1. Channel!Accept
    BY <1>1 DEF SendDataFrame, Channel!Accept
  <2>. QED
    BY <2>1 DEF ChannelStep, Channel!Next
<1>2. CASE state # "Open"
  BY <1>2 DEF SendDataFrame, ChannelStep, Shown
<1>. QED
  BY <1>1, <1>2

LEMMA CloseStep ==
    ASSUME NEW queue, NEW code, Close(queue, code),
           UNCHANGED <<Line, LastSent, LastDelivered>>
    PROVE  ChannelStep
<1>1. CASE state = "Open"
  <2>1. Channel!Handshake
    BY <1>1 DEF Close, Channel!Handshake
  <2>. QED
    BY <2>1 DEF ChannelStep, Channel!Next
<1>2. CASE state # "Open"
  BY <1>2 DEF Close, ChannelStep, Shown
<1>. QED
  BY <1>1, <1>2

LEMMA CloseImmediatelyStep ==
    ASSUME ChannelInv, CloseImmediately,
           UNCHANGED <<accepted, outQueue, lost, LastSent, LastDelivered>>
    PROVE  QueueInv' /\ ChannelStep
<1>1. CASE state = "Open"
  <2>1. socket = "open" /\ Writable
    BY <1>1 DEF ChannelInv, QueueInv, Writable
  <2>2. state' = "Closing" /\ closing' = "immediate" /\ socket' = "ended"
    BY <1>1, <2>1 DEF CloseImmediately
  <2>3. Line' = "ended"
    BY <2>2 DEF Line, Writable
  <2>4. Channel!CloseImmediately
    BY <1>1, <2>2, <2>3 DEF Channel!CloseImmediately
  <2>5. QueueInv'
    BY <2>2 DEF ChannelInv, QueueInv
  <2>. QED
    BY <2>4, <2>5 DEF ChannelStep, Channel!Next
<1>2. CASE state # "Open"
  <2>1. UNCHANGED <<state, closing, socket>>
    BY <1>2 DEF CloseImmediately
  <2>2. Line' = Line
    BY <2>1, QuietLine
  <2>3. QueueInv'
    BY <2>1 DEF ChannelInv, QueueInv
  <2>. QED
    BY <2>1, <2>2, <2>3 DEF ChannelStep, Shown
<1>. QED
  BY <1>1, <1>2

LEMMA WriteFromStep ==
    ASSUME ChannelInv, outQueue # <<>>, NEW i \in Nat, NEW total \in Nat,
           WriteFrom(i, total),
           i <= total => cursor.next = 0 \/ cursor.next <= cursor.total,
           UNCHANGED <<state, closing, accepted, lost, delivered>>
    PROVE  QueueInv' /\ WireInv' /\ ChannelStep
<1>1. QueueInv'
  BY WriteFromKeepsQueueInv DEF ChannelInv
<1>2. /\ WireInv'
      /\ \/ LastSent' = LastSent
         \/ Writable /\ i <= total /\ LastSent' = Head(outQueue).n
  BY WriteFromKeepsWireInv
<1>3. Line' = Line
  <2>1. CASE Finish
    BY <2>1 DEF Finish, Line, Writable
  <2>2. CASE UNCHANGED socket
    BY <2>2, QuietLine
  <2>. QED
    BY <2>1, <2>2, Zenon DEF WriteFrom
<1>4. LastDelivered' = LastDelivered
  BY QuietDelivered
<1>5. CASE LastSent' = LastSent
  BY <1>1, <1>2, <1>3, <1>4, <1>5 DEF ChannelStep, Shown
<1>6. CASE Writable /\ i <= total /\ LastSent' = Head(outQueue).n
  <2>1. /\ LastSent \in Nat
        /\ LastSent < Head(outQueue).n
        /\ state = "Open" => Head(outQueue).n = LastSent + 1
    BY <1>6, HeadIsAhead
  <2>2. Head(outQueue).n \in 1..accepted /\ accepted \in Nat
    BY TailProperties DEF ChannelInv, IInv, TypeOK
  <2>3. LastSent' \in (LastSent + 1)..accepted
    BY <1>6, <2>1, <2>2
  <2>4. Line = "up"
    BY <1>6 DEF Line
  <2>5. Channel!Transmit
    BY <1>3, <1>4, <1>6, <2>1, <2>3, <2>4 DEF Channel!Transmit
  <2>. QED
    BY <1>1, <1>2, <2>5 DEF ChannelStep, Channel!Next
<1>. QED
  BY <1>2, <1>5, <1>6

(* One lemma for each action: what it keeps of ChannelInv beyond IInv, and   *)
(* the step of the channel that it is.                                       *)
Kept == QueueInv' /\ WireInv' /\ PipelineInv'

LEMMA SendMaps ==
    ASSUME ChannelInv, NEW op \in {"message", "ping"}, Send(op)
    PROVE  Kept /\ ChannelStep
<1>1. SendDataFrame(outQueue, op)
      /\ UNCHANGED <<state, closing, socket, lost, wire, pipeline, delivered>>
  BY DEF Send, incoming
<1>2. QueueInv'
  BY <1>1, SendKeepsQueueInv DEF ChannelInv
<1>3. WireInv' /\ LastSent' = LastSent /\ Line' = Line /\ LastDelivered' = LastDelivered
  BY <1>1, QuietWire, QuietLine, QuietDelivered DEF ChannelInv
<1>4. PipelineInv'
  BY <1>1 DEF ChannelInv, PipelineInv
<1>. QED
  BY <1>1, <1>2, <1>3, <1>4, SendStep DEF Kept

LEMMA AppCloseMaps ==
    ASSUME ChannelInv, NEW code \in {"NormalClosure", "AbnormalClosure"}, AppClose(code)
    PROVE  Kept /\ ChannelStep
<1>1. Close(outQueue, code)
      /\ UNCHANGED <<socket, lost, wire, pipeline, delivered>>
  BY DEF AppClose, incoming
<1>2. QueueInv'
  BY <1>1, CloseKeepsQueueInv DEF ChannelInv, QueueInv, IInv, TypeOK
<1>3. WireInv' /\ LastSent' = LastSent /\ Line' = Line /\ LastDelivered' = LastDelivered
  BY <1>1, QuietWire, QuietLine, QuietDelivered DEF ChannelInv
<1>4. PipelineInv'
  BY <1>1 DEF ChannelInv, PipelineInv
<1>. QED
  BY <1>1, <1>2, <1>3, <1>4, CloseStep DEF Kept

LEMMA TransmitMaps ==
    ASSUME ChannelInv, Transmit
    PROVE  Kept /\ ChannelStep
<1>1. PICK total \in 1..MaxFragments : WriteFrom(1, total)
  BY DEF Transmit
<1>2. /\ outQueue # <<>> /\ cursor.next = 0
      /\ UNCHANGED <<state, closing, accepted, lost, pipeline, delivered>>
      /\ 1 \in Nat /\ total \in Nat
  BY BoundsAssumption DEF Transmit, incoming
<1>3. QueueInv' /\ WireInv' /\ ChannelStep
  BY <1>1, <1>2, WriteFromStep
<1>4. PipelineInv'
  BY <1>2 DEF ChannelInv, PipelineInv
<1>. QED
  BY <1>3, <1>4 DEF Kept

LEMMA DrainMaps ==
    ASSUME ChannelInv, Drain
    PROVE  Kept /\ ChannelStep
<1>1. /\ outQueue # <<>>
      /\ WriteFrom(cursor.next, cursor.total)
      /\ cursor.next \in Nat /\ cursor.total \in Nat
      /\ UNCHANGED <<state, closing, accepted, lost, pipeline, delivered>>
  BY DEF Drain, incoming, ChannelInv, IInv, TypeOK, OutgoingInv, CursorOnHead
<1>2. QueueInv' /\ WireInv' /\ ChannelStep
  BY <1>1, WriteFromStep
<1>3. PipelineInv'
  BY <1>1 DEF ChannelInv, PipelineInv
<1>. QED
  BY <1>2, <1>3 DEF Kept

(* The frame an extension failed on is left out; only the Close frame that   *)
(* tells so is accepted.                                                     *)
LEMMA TransmitFailsMaps ==
    ASSUME ChannelInv, TransmitFails
    PROVE  Kept /\ ChannelStep
<1>1. /\ outQueue # <<>>
      /\ Head(outQueue).op = "message"
      /\ lost' = lost \cup {Head(outQueue).n}
      /\ Close(Tail(outQueue), "AbnormalClosure")
      /\ UNCHANGED <<socket, wire, pipeline, delivered>>
  BY DEF TransmitFails, incoming
<1>2. /\ Tail(outQueue) \in Seq(OutgoingFrame)
      /\ \A n \in lost : n <= accepted - Len(Tail(outQueue))
      /\ Head(outQueue).n = accepted - Len(Tail(outQueue))
      /\ Head(outQueue).n \in 1..accepted
      /\ closing = "handshake" =>
            (Tail(outQueue) # <<>> =>
                Tail(outQueue)[Len(Tail(outQueue))].op = "close")
      /\ closing = "handshake" =>
            (Head(outQueue).n = accepted => Head(outQueue).op = "close")
  BY <1>1, TailProperties DEF ChannelInv
<1>3. /\ lost' \subseteq Nat
      /\ \A n \in lost' : n <= accepted - Len(Tail(outQueue))
  <2>1. lost \subseteq Nat /\ accepted \in Nat /\ Len(Tail(outQueue)) \in Nat
    BY <1>2 DEF ChannelInv, IInv, TypeOK
  <2> DEFINE h == Head(outQueue).n
             t == Len(Tail(outQueue))
  <2>2. /\ lost' = lost \cup {h} /\ h \in 1..accepted /\ h = accepted - t
        /\ \A n \in lost : n <= accepted - t
        /\ t \in Nat
    BY <1>1, <1>2, <2>1
  <2> HIDE DEF h, t
  <2>3. lost' \subseteq Nat /\ \A n \in lost' : n <= accepted - t
    BY <2>1, <2>2
  <2>. QED
    BY <2>3 DEF t
<1>4. /\ closing = "handshake" => accepted > 0
      /\ closing = "handshake" => accepted \notin lost'
  BY <1>1, <1>2 DEF ChannelInv, QueueInv
<1>5. QueueInv'
  BY <1>1, <1>2, <1>3, <1>4, CloseKeepsQueueInv DEF ChannelInv
<1>6. WireInv' /\ LastSent' = LastSent /\ Line' = Line /\ LastDelivered' = LastDelivered
  BY <1>1, QuietWire, QuietLine, QuietDelivered DEF ChannelInv
<1>7. PipelineInv'
  BY <1>1 DEF ChannelInv, PipelineInv
<1>. QED
  BY <1>1, <1>5, <1>6, <1>7, CloseStep DEF Kept

(* Everything that was accepted has been sent when close() ends the socket.  *)
LEMMA EndSocketMaps ==
    ASSUME ChannelInv, EndSocket
    PROVE  Kept /\ ChannelStep
<1>1. /\ socket = "ending" /\ socket' = "ended"
      /\ UNCHANGED <<state, closing, accepted, outQueue, lost, wire, pipeline, delivered>>
  BY DEF EndSocket, outgoing, incoming
<1>2. state # "Open" /\ closing = "handshake" /\ outQueue = <<>>
  BY <1>1 DEF ChannelInv, QueueInv, IInv, OutgoingInv, Flushed
<1>3. Line = "up" /\ Line' = "ended"
  BY <1>1 DEF Line, Writable
<1>4. accepted \in Nat /\ accepted > 0 /\ accepted \notin lost
  BY <1>2 DEF ChannelInv, QueueInv, IInv, TypeOK
<1>5. Written(accepted)
  <2>1. Writable /\ Len(outQueue) = 0
    BY <1>1, <1>2 DEF Writable
  <2>2. accepted \in 1..(accepted - Len(outQueue))
    BY <1>4, <2>1
  <2>. QED
    BY <1>4, <2>1, <2>2 DEF ChannelInv, IInv, OutgoingInv, Flushed
<1>6. /\ LastSent \in Nat
      /\ \A i \in 1..Len(wire) : wire[i].isFinal => wire[i].n <= LastSent
      /\ \/ LastSent = 0
         \/ \E i \in 1..Len(wire) : wire[i].isFinal /\ wire[i].n = LastSent
  BY LastFinalIsLargest DEF ChannelInv, WireInv, IInv, TypeOK, LastSent
<1>7. accepted <= LastSent
  BY <1>5, <1>6 DEF Written
<1>8. LastSent <= accepted
  <2>1. ASSUME NEW i \in 1..Len(wire) PROVE wire[i].n <= accepted
    <3>1. wire[i].n <= accepted - Len(outQueue) + (IF cursor.next > 0 THEN 1 ELSE 0)
      BY DEF ChannelInv, IInv, OutgoingInv, CursorOnHead
    <3>2. Len(outQueue) = 0 /\ ~(cursor.next > 0)
      BY <1>2 DEF ChannelInv, IInv, OutgoingInv, CursorOnHead
    <3>. QED
      BY <1>4, <3>1, <3>2
  <2>. QED
    BY <1>4, <1>6, <2>1
<1>9. LastSent = accepted
  BY <1>4, <1>6, <1>7, <1>8
<1>10. WireInv' /\ LastSent' = LastSent /\ LastDelivered' = LastDelivered
  BY <1>1, QuietWire, QuietDelivered DEF ChannelInv
<1>11. Channel!EndHandshake
  BY <1>1, <1>2, <1>3, <1>9, <1>10 DEF Channel!EndHandshake
<1>12. QueueInv' /\ PipelineInv'
  BY <1>1, <1>2 DEF ChannelInv, QueueInv, PipelineInv
<1>. QED
  BY <1>10, <1>11, <1>12 DEF Kept, ChannelStep, Channel!Next

LEMMA ReceiveMaps ==
    ASSUME ChannelInv, NEW frame \in PeerFrame, Receive(frame)
    PROVE  Kept /\ ChannelStep
<1>1. UNCHANGED delivered /\ LastDelivered' = LastDelivered
  BY QuietDelivered DEF Receive
<1>2. CASE Reject
  <2>1. /\ CloseImmediately
        /\ UNCHANGED <<accepted, outQueue, lost, wire, pipeline>>
    BY <1>2 DEF Reject, outgoing
  <2>2. WireInv' /\ LastSent' = LastSent
    BY <2>1, QuietWire DEF ChannelInv
  <2>3. QueueInv' /\ ChannelStep
    BY <1>1, <2>1, <2>2, CloseImmediatelyStep
  <2>4. PipelineInv'
    BY <2>1 DEF ChannelInv, PipelineInv
  <2>. QED
    BY <2>2, <2>3, <2>4 DEF Kept
<1>3. CASE UNCHANGED <<state, closing, socket, outgoing>> /\ PipelineInv'
  <2>1. UNCHANGED <<state, closing, socket, accepted, outQueue, lost, wire>>
    BY <1>3 DEF outgoing
  <2>2. QueueInv'
    BY <2>1 DEF ChannelInv, QueueInv
  <2>3. WireInv' /\ LastSent' = LastSent /\ Line' = Line
    BY <2>1, QuietWire, QuietLine DEF ChannelInv
  <2>. QED
    BY <1>1, <1>3, <2>1, <2>2, <2>3 DEF Kept, ChannelStep, Shown
<1>4. ASSUME PostProcess(ControlFrame(frame.op)), frame.op \in {"ping", "pong", "close"}
      PROVE  PipelineInv'
  <2>1. /\ pipeline' = Append(pipeline, ControlFrame(frame.op))
        /\ ControlFrame(frame.op).op # "message"
    BY <1>4 DEF PostProcess, ControlFrame
  <2>. QED
    BY <2>1, PushKeepsPipelineInv DEF ChannelInv
<1>5. ASSUME Assemble(frame) PROVE PipelineInv'
  <2>1. CASE frame.isFinal
    <3> DEFINE message == [op |-> "message", from |-> Assembled, to |-> dataFrames + 1]
    <3>1. pipeline' = Append(pipeline, message)
      BY <1>5, <2>1, Zenon DEF Assemble, PostProcess
    <3>2. message.from < message.to
      BY DEF ChannelInv, IInv, TypeOK, Assembled
    <3> HIDE DEF message
    <3>. QED
      BY <3>1, <3>2, PushKeepsPipelineInv DEF ChannelInv
  <2>2. CASE ~frame.isFinal
    <3>1. UNCHANGED pipeline
      BY <1>5, <2>2, Zenon DEF Assemble
    <3>. QED
      BY <3>1 DEF ChannelInv, PipelineInv
  <2>. QED
    BY <2>1, <2>2
<1>. QED
  BY <1>2, <1>3, <1>4, <1>5 DEF Receive, ValidateDataFrame

LEMMA PostProcessThrowsMaps ==
    ASSUME ChannelInv, PostProcessThrows
    PROVE  Kept /\ ChannelStep
<1>1. /\ pipeline # <<>> /\ pipeline' = Tail(pipeline)
      /\ Close(outQueue, "InternalServerError")
      /\ UNCHANGED <<socket, lost, wire, delivered>>
  BY DEF PostProcessThrows
<1>2. QueueInv'
  BY <1>1, CloseKeepsQueueInv DEF ChannelInv, QueueInv, IInv, TypeOK
<1>3. WireInv' /\ LastSent' = LastSent /\ Line' = Line /\ LastDelivered' = LastDelivered
  BY <1>1, QuietWire, QuietLine, QuietDelivered DEF ChannelInv
<1>4. PipelineInv'
  BY <1>1, PopKeepsPipelineInv DEF ChannelInv
<1>. QED
  BY <1>1, <1>2, <1>3, <1>4, CloseStep DEF Kept

LEMMA PostProcessRejectsMaps ==
    ASSUME ChannelInv, PostProcessRejects
    PROVE  Kept /\ ChannelStep
<1>1. /\ pipeline # <<>> /\ pipeline' = Tail(pipeline)
      /\ CloseImmediately
      /\ UNCHANGED <<accepted, outQueue, lost, wire, delivered>>
  BY DEF PostProcessRejects, outgoing
<1>2. WireInv' /\ LastSent' = LastSent /\ LastDelivered' = LastDelivered
  BY <1>1, QuietWire, QuietDelivered DEF ChannelInv
<1>3. QueueInv' /\ ChannelStep
  BY <1>1, <1>2, CloseImmediatelyStep
<1>4. PipelineInv'
  BY <1>1, PopKeepsPipelineInv DEF ChannelInv
<1>. QED
  BY <1>2, <1>3, <1>4 DEF Kept

(* While the connection is open what is delivered continues what was.        *)
LEMMA DispatchMaps ==
    ASSUME ChannelInv, Dispatch
    PROVE  Kept /\ ChannelStep
<1> DEFINE frame == Head(pipeline)
<1>1. /\ pipeline # <<>> /\ pipeline' = Tail(pipeline)
      /\ ParsedDataHandler(frame)
      /\ UNCHANGED <<socket, lost, wire>>
  BY DEF Dispatch
<1>2. PipelineInv'
  BY <1>1, PopKeepsPipelineInv DEF ChannelInv
<1>3. WireInv' /\ LastSent' = LastSent /\ Line' = Line
  BY <1>1, QuietWire, QuietLine DEF ChannelInv
<1>4. /\ outQueue \in Seq(OutgoingFrame)
      /\ pipeline \in Seq(PipelineFrame) /\ frame \in PipelineFrame
      /\ frame = pipeline[1] /\ 1 \in 1..Len(pipeline)
  BY <1>1 DEF ChannelInv, IInv, TypeOK
<1> HIDE DEF frame
<1>5. CASE UNCHANGED <<state, closing, accepted, outQueue, delivered>>
  <2>1. LastDelivered' = LastDelivered
    BY <1>5, QuietDelivered
  <2>2. QueueInv'
    BY <1>1, <1>5 DEF ChannelInv, QueueInv
  <2>. QED
    BY <1>2, <1>3, <1>5, <2>1, <2>2 DEF Kept, ChannelStep, Shown
<1>6. CASE /\ ~Dropped(frame) /\ frame.op = "message"
           /\ Deliver(frame)
           /\ UNCHANGED <<state, closing, accepted, outQueue>>
  <2>1. state = "Open"
    BY <1>6 DEF Dropped
  <2>2. frame.from < frame.to /\ frame.to \in Nat
    BY <1>4, <1>6 DEF ChannelInv, PipelineInv, PipelineFrame
  <2>3. LastDelivered = frame.from
    BY <1>1, <1>4, <2>1
       DEF ChannelInv, IInv, IncomingInv, DeliveryAtPipeline, DeliveredUpTo,
           PipelineStart, LastDelivered
  <2>4. LastDelivered' = frame.to
    <3> DEFINE message == [from |-> frame.from, to |-> frame.to]
    <3>1. delivered' = Append(delivered, message) /\ message.to = frame.to
      BY <1>6 DEF Deliver
    <3> HIDE DEF message
    <3>2. delivered \in Seq([from: Nat, to: Nat])
      BY DEF ChannelInv, IInv, TypeOK
    <3>3. /\ Len(delivered') = Len(delivered) + 1
          /\ delivered'[Len(delivered) + 1] = message
          /\ Len(delivered) \in Nat
      BY <3>1, <3>2
    <3>4. delivered' # <<>> /\ delivered'[Len(delivered')] = message
      BY <3>3
    <3>. QED
      BY <3>1, <3>4 DEF LastDelivered
  <2>5. Channel!Deliver
    BY <1>3, <1>6, <2>1, <2>2, <2>3, <2>4 DEF Channel!Deliver
  <2>6. QueueInv'
    BY <1>1, <1>6 DEF ChannelInv, QueueInv
  <2>. QED
    BY <1>2, <1>3, <2>5, <2>6 DEF Kept, ChannelStep, Channel!Next
<1>7. CASE /\ SendDataFrame(outQueue, "pong")
           /\ UNCHANGED <<state, closing, delivered>>
  <2>1. LastDelivered' = LastDelivered
    BY <1>7, QuietDelivered
  <2>2. QueueInv'
    BY <1>1, <1>7, SendKeepsQueueInv DEF ChannelInv
  <2>3. ChannelStep
    BY <1>3, <1>7, <2>1, SendStep
  <2>. QED
    BY <1>2, <1>3, <2>2, <2>3 DEF Kept
<1>8. ASSUME NEW code, Close(outQueue, code), UNCHANGED delivered
      PROVE  Kept /\ ChannelStep
  <2>1. LastDelivered' = LastDelivered
    BY <1>8, QuietDelivered
  <2>2. QueueInv'
    BY <1>1, <1>8, CloseKeepsQueueInv DEF ChannelInv, QueueInv, IInv, TypeOK
  <2>3. ChannelStep
    BY <1>3, <1>8, <2>1, CloseStep
  <2>. QED
    BY <1>2, <1>3, <2>2, <2>3 DEF Kept
<1>. QED
  BY <1>1, <1>5, <1>6, <1>7, <1>8
     DEF ParsedDataHandler, ProcessPingFrame, ProcessConnectionCloseFrame

(* An error breaks the line; it begins a handshake that will not end, or     *)
(* comes after the connection has begun to close.                            *)
LEMMA SocketErrorMaps ==
    ASSUME ChannelInv, SocketError
    PROVE  Kept /\ ChannelStep
<1>1. /\ socket' = "destroyed"
      /\ Close(outQueue, "AbnormalClosure")
      /\ UNCHANGED <<lost, wire, pipeline, delivered>>
  BY DEF SocketError, incoming
<1>2. QueueInv'
  BY <1>1, CloseKeepsQueueInv DEF ChannelInv, QueueInv, IInv, TypeOK
<1>3. WireInv' /\ LastSent' = LastSent /\ LastDelivered' = LastDelivered
  BY <1>1, QuietWire, QuietDelivered DEF ChannelInv
<1>4. Line' = "broken"
  BY <1>1 DEF Line, Writable
<1>5. PipelineInv'
  BY <1>1 DEF ChannelInv, PipelineInv
<1>6. Channel!Handshake \/ Channel!Break
  BY <1>1, <1>3, <1>4 DEF Close, Channel!Handshake, Channel!Break
<1>. QED
  BY <1>2, <1>3, <1>5, <1>6 DEF Kept, ChannelStep, Channel!Next

LEMMA SocketCloseMaps ==
    ASSUME ChannelInv, SocketClose
    PROVE  Kept /\ ChannelStep
<1>1. /\ socket' = "closed" /\ state' = "Closed"
      /\ UNCHANGED <<closing, accepted, outQueue, lost, wire, pipeline, delivered>>
  BY DEF SocketClose, outgoing, incoming
<1>2. WireInv' /\ LastSent' = LastSent /\ LastDelivered' = LastDelivered
  BY <1>1, QuietWire, QuietDelivered DEF ChannelInv
<1>3. Line' = "broken"
  BY <1>1 DEF Line, Writable
<1>4. Channel!Shut
  BY <1>1, <1>2, <1>3 DEF Channel!Shut
<1>5. QueueInv' /\ PipelineInv'
  BY <1>1 DEF ChannelInv, QueueInv, PipelineInv
<1>. QED
  BY <1>2, <1>4, <1>5 DEF Kept, ChannelStep, Channel!Next

LEMMA StutterMaps ==
    ASSUME ChannelInv, UNCHANGED vars
    PROVE  Kept /\ ChannelStep
<1>1. UNCHANGED <<state, closing, socket, accepted, outQueue, lost, wire, pipeline,
                  delivered>>
  BY DEF vars, outgoing, incoming
<1>2. WireInv' /\ LastSent' = LastSent /\ Line' = Line /\ LastDelivered' = LastDelivered
  BY <1>1, QuietWire, QuietLine, QuietDelivered DEF ChannelInv
<1>3. QueueInv' /\ PipelineInv'
  BY <1>1 DEF ChannelInv, QueueInv, PipelineInv
<1>. QED
  BY <1>1, <1>2, <1>3 DEF Kept, ChannelStep, Shown

LEMMA EveryStepMaps ==
    ASSUME ChannelInv, [Next]_vars
    PROVE  ChannelInv' /\ ChannelStep
<1>1. IInv'
  BY IInvInductive DEF ChannelInv
<1>2. Kept /\ ChannelStep
  BY SendMaps, AppCloseMaps, TransmitMaps, TransmitFailsMaps, DrainMaps, EndSocketMaps,
     ReceiveMaps, DispatchMaps, PostProcessThrowsMaps, PostProcessRejectsMaps,
     SocketErrorMaps, SocketCloseMaps, StutterMaps
     DEF Next
<1>. QED
  BY <1>1, <1>2 DEF ChannelInv, Kept

LEMMA InitMaps == Init => ChannelInv /\ Channel!Init
<1> SUFFICES ASSUME Init PROVE ChannelInv /\ Channel!Init
  OBVIOUS
<1>1. IInv
  BY InitTypeOK, InitOutgoingInv, InitIncomingInv DEF IInv
<1>2. wire = <<>> /\ pipeline = <<>> /\ delivered = <<>> /\ Len(<<>>) = 0
  BY DEF Init
<1>3. QueueInv /\ WireInv /\ PipelineInv
  BY <1>2 DEF Init, QueueInv, WireInv, PipelineInv, Sorted, HasLast
<1>4. LastSent = 0 /\ LastDelivered = 0 /\ Line = "up"
  <2>1. ~ \E i \in DOMAIN wire : wire[i].isFinal
    BY <1>2
  <2>2. LastSent = 0
    BY <2>1 DEF LastSent, LastFinal
  <2>. QED
    BY <1>2, <2>2 DEF Init, LastDelivered, Line, Writable
<1>. QED
  BY <1>1, <1>3, <1>4 DEF Init, ChannelInv, Channel!Init

(* A connection with its queues, fragments, waits for "drain" and failing    *)
(* extensions is an ordered channel to those who use it.                     *)
THEOREM ConnectionIsOrderedChannel == Spec => ImplementsOrderedChannel
<1>1. ChannelInv /\ [Next]_vars => ChannelInv' /\ [Channel!Next]_Channel!vars
  BY EveryStepMaps DEF ChannelStep, Shown, Channel!vars
<1>. QED
  BY <1>1, InitMaps, PTL DEF Spec, ImplementsOrderedChannel, Channel!Spec

===============================================================================
