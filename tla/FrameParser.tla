---------------------------- MODULE FrameParser -----------------------------
(***************************************************************************)
(* onReceiveData of src/src/clsMultiplexedTunnel.cpp: cutting frames out   *)
(* of a byte stream that recv returns in pieces of any length.             *)
(*                                                                         *)
(* The peer sends the frames of the constant-valued variable frames.  A    *)
(* byte is its position in that stream, so a buffer is a sequence of       *)
(* positions, and copying the wrong bytes shows.                           *)
(***************************************************************************)
EXTENDS Integers, Sequences, FiniteSets

CONSTANTS HeaderSize,       \* HEADER_SIZE
          ParseBufferSize,  \* PARSE_BUFFER_SIZE
          MaxFrameSize,     \* MAX_ALLOWED_FRAME_SIZE
          MaxChunk,         \* what one recv returns at most: SLAB_SIZE - 1
          MaxFrames,        \* bound: frames of the stream
          Lengths           \* values of the length field

ASSUME ParserAssumption == /\ HeaderSize \in Nat \ {0}
                           /\ ParseBufferSize \in Nat /\ HeaderSize <= ParseBufferSize
                           /\ MaxFrameSize \in Nat /\ ParseBufferSize <= MaxFrameSize
                           /\ MaxChunk \in 1 .. ParseBufferSize
                           /\ MaxFrames \in Nat
                           /\ Lengths \subseteq Nat

VARIABLES frames,       \* what the peer sends
          received,     \* how many bytes recv has returned
          data,         \* the bytes of the current call of onReceiveData
          data_pos,
          parseBuffer,  \* the bytes in m_parseBuffer
          capacity,     \* m_parseBufferCapacity, 0 without a buffer
          parsed,       \* the byte sequences handed to processFrame
          pc,           \* how far onReceiveData is; the errors end it for good
          poolEmpty     \* whether the buffer pool has no memory for now

vars == <<frames, received, data, data_pos, parseBuffer, capacity, parsed, pc, poolEmpty>>

FrameKinds == [type: {"Data", "other"}, length: Lengths]

(* Only a Data frame has a payload; elsewhere the length is a value.       *)
Size(f) == IF f.type = "Data" THEN HeaderSize + f.length ELSE HeaderSize

(* Where the frames of the stream start; the last entry is its end.        *)
Start == LET s[k \in 1 .. Len(frames) + 1] ==
                 IF k = 1 THEN 1 ELSE s[k - 1] + Size(frames[k - 1])
         IN  s
Total == Start[Len(frames) + 1] - 1

Bytes(from, to) == [i \in 1 .. to - from + 1 |-> from + i - 1]
FrameBytes(k) == Bytes(Start[k], Start[k + 1] - 1)

(* What the parser makes of a header: the frame whose header it is, or a   *)
(* frame without payload when the bytes are no header.                     *)
HeaderAt(bytes) ==
    LET ks == {k \in 1 .. Len(frames) : \A i \in 1 .. HeaderSize : bytes[i] = Start[k] + i - 1}
    IN  IF ks = {} THEN [type |-> "other", length |-> 0]
                   ELSE frames[CHOOSE k \in ks : TRUE]

(* The types of the variables.                                           *)
TypeOK == /\ frames \in UNION {[1 .. n -> FrameKinds] : n \in 0 .. MaxFrames}
          /\ received \in 0 .. Total
          /\ data \in Seq(1 .. Total) /\ data_pos \in 0 .. Len(data)
          /\ parseBuffer \in Seq(1 .. Total) /\ Len(parseBuffer) <= capacity
          /\ capacity \in 0 .. MaxFrameSize
          /\ parsed \in Seq(Seq(1 .. Total))
          /\ pc \in {"idle", "header", "payload", "zeroCopy", "store",
                 "ProtocolError", "InternalError"}
          /\ poolEmpty \in BOOLEAN

Init == /\ frames \in UNION {[1 .. n -> FrameKinds] : n \in 1 .. MaxFrames}
        /\ received = 0
        /\ data = << >> /\ data_pos = 0
        /\ parseBuffer = << >> /\ capacity = 0
        /\ parsed = << >>
        /\ pc = "idle"
        /\ poolEmpty = FALSE

-----------------------------------------------------------------------------
Upto(n, bound) == IF n < bound THEN n ELSE bound

(* Appends as many of the current bytes to the parse buffer as it needs to *)
(* hold n, if there are that many.                                         *)
Copied(n) == Upto(n - Len(parseBuffer), Len(data) - data_pos)
CopyTo(n) == /\ parseBuffer' = parseBuffer \o SubSeq(data, data_pos + 1, data_pos + Copied(n))
             /\ data_pos' = data_pos + Copied(n)
Completes(n) == Len(parseBuffer) + Copied(n) >= n

OnReceiveData ==
    /\ pc = "idle"
    /\ \E len \in 1 .. Upto(MaxChunk, Total - received) :
          /\ data' = Bytes(received + 1, received + len)
          /\ received' = received + len
    /\ data_pos' = 0
    /\ poolEmpty' \in BOOLEAN
    /\ pc' = IF parseBuffer = << >> THEN "zeroCopy" ELSE "header"
    /\ UNCHANGED <<frames, parseBuffer, capacity, parsed>>

(* processFragmentedFrame: first the header of the frame that was cut ...  *)
CompleteHeader ==
    /\ pc = "header"
    /\ IF Len(parseBuffer) < HeaderSize THEN CopyTo(HeaderSize)
                                        ELSE UNCHANGED <<parseBuffer, data_pos>>
    /\ pc' = IF Len(parseBuffer) < HeaderSize /\ ~Completes(HeaderSize) THEN "idle" ELSE "payload"
    /\ UNCHANGED <<frames, received, data, capacity, parsed, poolEmpty>>

(* ... then room for it, and its payload.                                  *)
Grown(size) == IF capacity < size THEN size ELSE capacity

CompletePayload ==
    LET size == Size(HeaderAt(parseBuffer))
    IN  /\ pc = "payload"
        /\ \/ /\ capacity < size
              /\ size > MaxFrameSize \/ poolEmpty
              /\ pc' = IF size > MaxFrameSize THEN "ProtocolError" ELSE "InternalError"
              /\ UNCHANGED <<data_pos, parseBuffer, capacity, parsed>>
           \/ /\ size <= capacity \/ (size <= MaxFrameSize /\ ~poolEmpty)
              /\ capacity' = Grown(size)
              /\ \/ /\ Completes(size)
                    /\ parsed' = Append(parsed,
                           parseBuffer \o SubSeq(data, data_pos + 1, data_pos + Copied(size)))
                    /\ parseBuffer' = << >>
                    /\ data_pos' = data_pos + Copied(size)
                    /\ pc' = "zeroCopy"
                 \/ /\ ~Completes(size)
                    /\ CopyTo(size)
                    /\ pc' = "idle"
                    /\ UNCHANGED parsed
        /\ UNCHANGED <<frames, received, data, poolEmpty>>

(* processZeroCopyFrames: a frame that is in data as a whole.              *)
HasHeader == data_pos + HeaderSize <= Len(data)
NextSize == Size(HeaderAt(SubSeq(data, data_pos + 1, data_pos + HeaderSize)))

WholeFrameShort == HasHeader /\ data_pos + NextSize < Len(data)   \* wrong: <, not <=
WholeFrame == HasHeader /\ data_pos + NextSize <= Len(data)

ZeroCopy ==
    /\ pc = "zeroCopy"
    /\ IF WholeFrame
       THEN /\ parsed' = Append(parsed, SubSeq(data, data_pos + 1, data_pos + NextSize))
            /\ data_pos' = data_pos + NextSize
            /\ UNCHANGED pc
       ELSE pc' = "store" /\ UNCHANGED <<parsed, data_pos>>
    /\ UNCHANGED <<frames, received, data, parseBuffer, capacity, poolEmpty>>

(* storeRemainingData, in a buffer made when there is none yet.            *)
RestOfChunk == data   \* wrong: the frames handled before as well
Remaining == SubSeq(data, data_pos + 1, Len(data))

HeaderRoom == IF capacity = 0 THEN HeaderSize ELSE capacity   \* wrong: a header only
Room == IF capacity = 0 THEN ParseBufferSize ELSE capacity

NoBuffer == capacity = 0 /\ poolEmpty

Store ==
    /\ pc = "store"
    /\ \/ /\ Remaining = << >>
          /\ pc' = "idle"
          /\ UNCHANGED <<parseBuffer, capacity>>
       \/ /\ Remaining # << >>
          /\ NoBuffer \/ Len(Remaining) > Room
          /\ pc' = "InternalError"
          /\ capacity' = IF NoBuffer THEN 0 ELSE Room
          /\ UNCHANGED parseBuffer
       \/ /\ Remaining # << >>
          /\ ~NoBuffer /\ Len(Remaining) <= Room
          /\ pc' = "idle"
          /\ capacity' = Room
          /\ parseBuffer' = Remaining
    /\ UNCHANGED <<frames, received, data, data_pos, parsed, poolEmpty>>

Next == OnReceiveData \/ CompleteHeader \/ CompletePayload \/ ZeroCopy \/ Store

Spec == Init /\ [][Next]_vars

-----------------------------------------------------------------------------
ParsedBytes == Start[Len(parsed) + 1] - 1

(* However the stream is cut, processFrame gets its frames: one after the  *)
(* other, each whole and with its own bytes.                               *)
FramesAsSent == /\ Len(parsed) <= Len(frames)
                /\ \A k \in 1 .. Len(parsed) : parsed[k] = FrameBytes(k)

(* Between two calls the parse buffer holds exactly the bytes that belong  *)
(* to no frame handled so far, ...                                         *)
RestIsKept == pc = "idle" => parseBuffer = Bytes(ParsedBytes + 1, received)

(* ... and never a whole frame, which would wait for the next recv.        *)
NoFrameWaits ==
    pc = "idle" => Len(parsed) = Len(frames) \/ received < Start[Len(parsed) + 2] - 1

(* The session is only shut down for a frame above the limit, or for lack  *)
(* of memory: what the parser keeps always has room in its buffer.         *)
ShutDownForCause ==
    /\ pc = "ProtocolError" => \E k \in 1 .. Len(frames) : Size(frames[k]) > MaxFrameSize
    /\ pc = "InternalError" => poolEmpty

=============================================================================
