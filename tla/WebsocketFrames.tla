--------------------------- MODULE WebsocketFrames ---------------------------
(***************************************************************************)
(* The binary form of websocket frames: composing and fragmenting them     *)
(* (websocket-utils.ts) and parsing them out of a socket's chunks, which   *)
(* may begin and end anywhere (WebsocketDataBuffer.ts).  Bytes are numbers *)
(* and buffers are sequences of them.                                      *)
(***************************************************************************)
EXTENDS Integers, Sequences, SequencesExt

CONSTANTS
    Conversations, \* what a peer may send: sequences of frames, each with the
                   \* size of its fragments, 0 for none
    ChunkSize,     \* chunks are at most as long, or hold all that is left
    MaxChunks      \* a stream is cut into at most so many chunks

Continuation == 0 \* DataFrameType.ContinuationFrame
Huge == 2147483647 \* any length of 2^31 - 1 and more

(* A mask of 4 bytes, or <<>> for none.                                     *)
Bytes == 0..255
Masks == {<<>>} \cup [1..4 -> Bytes]
DataFrames == [type : 0..15, rsv1 : BOOLEAN, isFinal : BOOLEAN, mask : Masks,
               payload : Seq(Bytes)]

ASSUME ConversationsAssumption ==
    /\ Conversations \subseteq Seq([frame : DataFrames, size : Nat])
    /\ \A c \in Conversations : \A i \in DOMAIN c : Len(c[i].frame.payload) < Huge
    /\ ChunkSize \in Nat
    /\ MaxChunks \in Nat \ {0}

Bit(flag, value) == IF flag THEN value ELSE 0

(***************************************************************************)
(* Composing.                                                              *)
(***************************************************************************)
writeUInt16BE(n) == <<n \div 256, n % 256>>
writeUInt32BE(n) ==
    <<n \div 16777216, (n \div 65536) % 256, (n \div 256) % 256, n % 256>>
readUInt16BE(bytes) == 256 * bytes[1] + bytes[2]
readUInt32BE(bytes) ==
    16777216 * bytes[1] + 65536 * bytes[2] + 256 * bytes[3] + bytes[4]

DeclaredLength(n) == IF n >= 65536 THEN 127 ELSE IF n > 125 THEN 126 ELSE n

(* The upper word of a 64-bit length is always written as 0. *)
ExtendedLength(declared, n) ==
    CASE declared = 126 -> writeUInt16BE(n)
      [] declared = 127 -> <<0, 0, 0, 0>> \o writeUInt32BE(n)
      [] OTHER -> <<>>

Xor(a, b) ==
    LET Odd(p) == (a \div p + b \div p) % 2
    IN Odd(1) + 2 * Odd(2) + 4 * Odd(4) + 8 * Odd(8) + 16 * Odd(16)
         + 32 * Odd(32) + 64 * Odd(64) + 128 * Odd(128)

XorMask(payload, mask) ==
    IF mask = <<>> THEN payload
    ELSE [i \in DOMAIN payload |-> Xor(payload[i], mask[((i - 1) % 4) + 1])]

FrameHeader(f, declared) ==
    << Bit(f.isFinal, 128) + Bit(f.rsv1, 64) + f.type,
       Bit(f.mask # <<>>, 128) + declared >>

composeWebsocketFrame(f) ==
    LET declared == DeclaredLength(Len(f.payload))
    IN FrameHeader(f, declared) \o ExtendedLength(declared, Len(f.payload))
           \o f.mask \o XorMask(f.payload, f.mask)

(* Only the first fragment keeps type and bits, only the last is final, and *)
(* none is masked.                                                          *)
fragmentWebsocketFrame(f, size) ==
    IF size = 0 \/ Len(f.payload) <= size THEN <<f>>
    ELSE LET count == (Len(f.payload) + size - 1) \div size IN
         [i \in 1..count |->
            [type |-> IF i = 1 THEN f.type ELSE Continuation,
             rsv1 |-> i = 1 /\ f.rsv1,
             isFinal |-> i = count,
             mask |-> <<>>,
             payload |-> SubSeq(f.payload, size * (i - 1) + 1,
                                IF size * i < Len(f.payload)
                                THEN size * i ELSE Len(f.payload))]]

(***************************************************************************)
(* Parsing.  The buffer is within a read: `have` of the `want` bytes are   *)
(* there, and `step` says what they are.                                   *)
(***************************************************************************)
NoFrame == [type |-> 0, rsv1 |-> FALSE, isFinal |-> FALSE, masked |-> FALSE,
            mask |-> <<>>, length |-> 0]

Begin(buffer) == [buffer EXCEPT !.step = "header", !.want = 2, !.have = <<>>]

EmptyBuffer == Begin([chunks |-> <<>>, step |-> "", want |-> 0, have |-> <<>>,
                      frame |-> NoFrame, frames |-> <<>>])

decomposeHeader(bytes) ==
    [NoFrame EXCEPT
        !.type = bytes[1] % 16,
        !.isFinal = (bytes[1] \div 128) % 2 = 1,
        !.rsv1 = (bytes[1] \div 64) % 2 = 1,
        !.masked = (bytes[2] \div 128) % 2 = 1,
        !.length = bytes[2] % 128]

(* The upper word exceeds 2^21 - 1.                                         *)
TooLong(bytes) == bytes[1] > 0 \/ bytes[2] > 31

read64BitPayloadLength(bytes) ==
    IF SubSeq(bytes, 1, 4) = <<0, 0, 0, 0>> /\ bytes[5] < 128
    THEN readUInt32BE(SubSeq(bytes, 5, 8)) ELSE Huge

(* Ask for the next piece of the frame. *)
ReadMask(buffer, frame) ==
    [buffer EXCEPT !.frame = frame, !.have = <<>>,
                   !.step = IF frame.masked THEN "mask" ELSE "payload",
                   !.want = IF frame.masked THEN 4 ELSE frame.length]

ReadLength(buffer, frame) ==
    IF frame.length < 126 THEN ReadMask(buffer, frame)
    ELSE [buffer EXCEPT !.frame = frame, !.have = <<>>, !.step = "length",
                        !.want = IF frame.length = 126 THEN 2 ELSE 8]

Dispatch(buffer) ==
    LET f == buffer.frame IN
    [buffer EXCEPT !.frames = Append(@,
        [type |-> f.type, rsv1 |-> f.rsv1, isFinal |-> f.isFinal, mask |-> f.mask,
         payload |-> XorMask(buffer.have, f.mask)])]

(* The read is complete.  A length out of range throws, and the parser of   *)
(* this connection never asks for anything again.                           *)
Complete(buffer) ==
    CASE buffer.step = "header" -> ReadLength(buffer, decomposeHeader(buffer.have))
      [] buffer.step = "length" /\ buffer.want = 2 ->
            ReadMask(buffer, [buffer.frame EXCEPT !.length = readUInt16BE(buffer.have)])
      [] buffer.step = "length" /\ buffer.want = 8 ->
            IF TooLong(buffer.have) THEN [buffer EXCEPT !.step = "stopped", !.want = Huge]
            ELSE ReadMask(buffer, [buffer.frame EXCEPT
                                      !.length = read64BitPayloadLength(buffer.have)])
      [] buffer.step = "mask" ->
            [buffer EXCEPT !.frame.mask = buffer.have, !.have = <<>>,
                           !.step = "payload", !.want = buffer.frame.length]
      [] buffer.step = "payload" -> Begin(Dispatch(buffer))

DropsTheRest(buffer) ==
    LET chunk == Head(buffer.chunks)
        missing == buffer.want - Len(buffer.have)
    IN [buffer EXCEPT
          !.have = @ \o SubSeq(chunk, 1, IF missing < Len(chunk) THEN missing ELSE Len(chunk)),
          !.chunks = Tail(@)]

(* read(): take from the first chunk what is missing, drop it when empty.   *)
Consume(buffer) ==
    LET chunk == Head(buffer.chunks)
        missing == buffer.want - Len(buffer.have)
        taken == IF missing < Len(chunk) THEN missing ELSE Len(chunk)
        left == SubSeq(chunk, taken + 1, Len(chunk))
    IN [buffer EXCEPT
          !.have = @ \o SubSeq(chunk, 1, taken),
          !.chunks = IF left = <<>> THEN Tail(@) ELSE <<left>> \o Tail(@)]

(***************************************************************************)
(* A peer sends a conversation, and then another over a new connection.    *)
(***************************************************************************)
VARIABLES
    composed, \* the frames it has composed
    stream,   \* their bytes, those that are still on their way
    chunks,   \* chunks that have arrived
    buffer    \* the WebsocketDataBuffer that receives them

frameVars == <<composed, stream, chunks, buffer>>

FramesInit ==
    /\ composed = <<>>
    /\ stream = <<>>
    /\ chunks = 0
    /\ buffer = EmptyBuffer

Fragments(c) ==
    FlattenSeq([i \in DOMAIN c |-> fragmentWebsocketFrame(c[i].frame, c[i].size)])
OnWire(frames) ==
    FlattenSeq([i \in DOMAIN frames |-> composeWebsocketFrame(frames[i])])

Compose ==
    /\ composed = <<>>
    /\ \E c \in Conversations : composed' = Fragments(c)
    /\ stream' = OnWire(composed')
    /\ chunks' = 0
    /\ buffer' = EmptyBuffer

(* The chunk is of any small size or all that is left.                      *)
ReceiveChunk ==
    /\ stream # <<>>
    /\ buffer.step # "destroyed"
    /\ \E size \in ((1..ChunkSize) \cap (1 .. Len(stream))) \cup {Len(stream)} :
          /\ chunks < MaxChunks - 1 \/ size = Len(stream)
          /\ buffer' = [buffer EXCEPT !.chunks = Append(@, SubSeq(stream, 1, size))]
          /\ stream' = SubSeq(stream, size + 1, Len(stream))
    /\ chunks' = chunks + 1
    /\ UNCHANGED composed

Reading == buffer.step \notin {"stopped", "destroyed"}
Waiting == buffer.chunks = <<>> /\ Len(buffer.have) # buffer.want

(* A part of a read, and the step of processNextFrame() after it: chunks    *)
(* and the end of the connection come between any two awaits.  That here    *)
(* they also come between two parts of one loop adds no outcome.            *)
ReadPart ==
    /\ Reading
    /\ buffer.chunks # <<>> /\ Len(buffer.have) # buffer.want
    /\ buffer' = Consume(buffer)
    /\ UNCHANGED <<composed, stream, chunks>>

ProcessPart ==
    /\ Reading
    /\ Len(buffer.have) = buffer.want
    /\ buffer' = Complete(buffer)
    /\ UNCHANGED <<composed, stream, chunks>>

(* Reads that wait, and those that follow, are answered with zeros; the     *)
(* frame they make up is not dispatched.                                    *)
Destroy ==
    /\ composed # <<>>
    /\ buffer.step # "destroyed"
    /\ buffer' = [buffer EXCEPT !.step = "destroyed", !.want = Huge]
    /\ UNCHANGED <<composed, stream, chunks>>

(* The connection is gone, another one begins. *)
NextStream ==
    /\ composed # <<>>
    /\ stream = <<>> \/ buffer.step = "destroyed"
    /\ composed' = <<>>
    /\ stream' = <<>>
    /\ chunks' = 0
    /\ buffer' = EmptyBuffer

FramesNext ==
    Compose \/ ReceiveChunk \/ ReadPart \/ ProcessPart \/ Destroy \/ NextStream

FramesSpec == FramesInit /\ [][FramesNext]_frameVars

(* However a message is fragmented and wherever the chunks of the socket    *)
(* begin and end, what the parser dispatches are the frames that were       *)
(* composed, in order, none of them changed; when all bytes are there and   *)
(* it waits for more, all of them.                                          *)
FramesSurvive ==
    /\ IsPrefix(buffer.frames, composed)
    /\ stream = <<>> /\ Waiting /\ buffer.step # "destroyed" => buffer.frames = composed
==============================================================================
