------------------------------ MODULE Buffers -------------------------------
(***************************************************************************)
(* Who lives in the buffer pool of a reactor, and on which bytes: the      *)
(* receive buffers and write queues of its sockets (clsTCPSocket.cpp,      *)
(* clsSendQueue.cpp) and the parse buffer of a tunnel                      *)
(* (clsMultiplexedTunnel.cpp), all from one BufferPool over Tlsf.          *)
(*                                                                         *)
(* Lengths are in words.  The words a socket queues are numbered, so a     *)
(* word that is lost, repeated or overwritten in the pool shows.           *)
(***************************************************************************)
EXTENDS Tlsf, Sequences

CONSTANTS NSockets,
          SLAB_SIZE, PARSE_BUFFER_SIZE,
          Messages,       \* lengths given to send
          FrameSizes,     \* sizes of frames that outgrow the parse buffer
          MaxQueued       \* bound: words in one write queue

Sockets == 1 .. NSockets
Period == MaxQueued + 1

ASSUME BuffersAssumption ==
          /\ NSockets \in Nat /\ SLAB_SIZE \in Nat \ {0} /\ PARSE_BUFFER_SIZE \in Nat \ {0}
          /\ Messages \subseteq Nat \ {0} /\ FrameSizes \subseteq Nat
          /\ MaxQueued \in Nat /\ Period < 100

VARIABLES heap,         \* the memory of m_bufferPool
          rBuffer,      \* per socket; NoPtr when it is closed
          writeQueue,   \* per socket: its Buffers, [data, len]
          first,        \* per socket, for the properties: the first queued word,
          queued,       \* ... and how many words are queued
          parse         \* m_parseBuffer with m_parseBufferCapacity and ...Length

vars == <<heap, rBuffer, writeQueue, first, queued, parse>>

Word(s, i) == 100 * s + (i % Period)
ParseWord(i) == 50 + i

NoParseBuffer == [ptr |-> NoPtr, capacity |-> 0, length |-> 0]

Init == /\ heap = tlsf_add_pool(control_construct)
        /\ rBuffer = [s \in Sockets |-> NoPtr]
        /\ writeQueue = [s \in Sockets |-> << >>]
        /\ first = [s \in Sockets |-> 0]
        /\ queued = [s \in Sockets |-> 0]
        /\ parse = NoParseBuffer

Filled(h, ptr, n, w(_)) ==
    [h EXCEPT !.mem = [a \in ptr .. ptr + n - 1 |-> w(a - ptr)] @@ @]

-----------------------------------------------------------------------------
(* A new socket; when there is no memory for its buffer it is given up.    *)
AdoptFd(s) ==
    LET new == tlsf_malloc(heap, SLAB_SIZE)
    IN  /\ rBuffer[s] = NoPtr
        /\ new.ptr # NoPtr
        /\ heap' = new.heap
        /\ rBuffer' = [rBuffer EXCEPT ![s] = new.ptr]
        /\ first' = [first EXCEPT ![s] = 0]
        /\ UNCHANGED <<writeQueue, queued, parse>>

(* push copies the data into the pool, or drops it when there is no room.  *)
Push(s, len) ==
    LET new == tlsf_malloc(heap, len)
        word(i) == Word(s, first[s] + queued[s] + i)
    IN  /\ rBuffer[s] # NoPtr
        /\ queued[s] + len <= MaxQueued
        /\ new.ptr # NoPtr
        /\ heap' = Filled(new.heap, new.ptr, len, word)
        /\ writeQueue' = [writeQueue EXCEPT ![s] = Append(@, [data |-> new.ptr, len |-> len])]
        /\ queued' = [queued EXCEPT ![s] = @ + len]
        /\ UNCHANGED <<rBuffer, first, parse>>

(* The heap after pop_front of the first n buffers.                        *)
PopFronts(h, q) ==
    LET after[n \in 0 .. Len(q)] ==
            IF n = 0 THEN h ELSE tlsf_free(after[n - 1], q[n].data)
    IN  after

LenUpto(q) ==
    LET sum[n \in 0 .. Len(q)] == IF n = 0 THEN 0 ELSE sum[n - 1] + q[n].len
    IN  sum

CutBehind(h, b, sent) == h   \* wrong: the front buffer is shortened, its bytes stay
Cut(h, b, sent) ==
    Forget(memcpy(h, b.data, b.data + sent, b.len - sent), b.data + b.len - sent .. b.data + b.len - 1)

(* sendmsg has taken sent words: buffers sent as a whole go, the next one  *)
(* is moved to the front of its memory.                                    *)
OnWritable(s, sent) ==
    LET q == writeQueue[s]
        whole == CHOOSE n \in 0 .. Len(q) : /\ LenUpto(q)[n] <= sent
                                            /\ n = Len(q) \/ sent < LenUpto(q)[n + 1]
        part == sent - LenUpto(q)[whole]
        popped == PopFronts(heap, q)[whole]
        rest == SubSeq(q, whole + 1, Len(q))
    IN  /\ sent \in 1 .. queued[s]
        /\ heap' = IF part = 0 THEN popped ELSE Cut(popped, q[whole + 1], part)
        /\ writeQueue' = [writeQueue EXCEPT
               ![s] = IF part = 0 THEN rest ELSE [rest EXCEPT ![1].len = @ - part]]
        /\ first' = [first EXCEPT ![s] = IF sent = queued[s] THEN 0 ELSE (@ + sent) % Period]
        /\ queued' = [queued EXCEPT ![s] = @ - sent]
        /\ UNCHANGED <<rBuffer, parse>>

(* close: the receive buffer goes first, then what is still queued.        *)
QueueKept(h, q) == h   \* wrong: the queue is not cleared
Clear(h, q) == PopFronts(h, q)[Len(q)]

Close(s) ==
    /\ rBuffer[s] # NoPtr
    /\ heap' = Clear(tlsf_free(heap, rBuffer[s]), writeQueue[s])
    /\ rBuffer' = [rBuffer EXCEPT ![s] = NoPtr]
    /\ writeQueue' = [writeQueue EXCEPT ![s] = << >>]
    /\ first' = [first EXCEPT ![s] = 0]
    /\ queued' = [queued EXCEPT ![s] = 0]
    /\ UNCHANGED parse

-----------------------------------------------------------------------------
ParseUnchanged == UNCHANGED <<rBuffer, writeQueue, first, queued>>

(* storeRemainingData: n words of a frame, in a buffer made when needed.   *)
StoreRest(n) ==
    LET new == IF parse.ptr # NoPtr THEN [heap |-> heap, ptr |-> parse.ptr]
               ELSE tlsf_malloc(heap, PARSE_BUFFER_SIZE)
        capacity == IF parse.ptr # NoPtr THEN parse.capacity ELSE PARSE_BUFFER_SIZE
    IN  /\ parse.length = 0
        /\ new.ptr # NoPtr /\ n \in 1 .. capacity
        /\ heap' = Filled(new.heap, new.ptr, n, ParseWord)
        /\ parse' = [ptr |-> new.ptr, capacity |-> capacity, length |-> n]
        /\ ParseUnchanged

(* resizeParseBuffer, and the words of the frame up to n.                  *)
Resize(size, n) ==
    LET new == tlsf_realloc(heap, parse.ptr, size)
        word(i) == ParseWord(parse.length + i)
    IN  /\ parse.length > 0 /\ size > parse.capacity
        /\ new.ptr # NoPtr /\ n \in parse.length .. size
        /\ heap' = Filled(new.heap, new.ptr + parse.length, n - parse.length, word)
        /\ parse' = [ptr |-> new.ptr, capacity |-> size, length |-> n]
        /\ ParseUnchanged

FrameDone ==
    /\ parse.length > 0
    /\ heap' = Forget(heap, parse.ptr .. parse.ptr + parse.length - 1)
    /\ parse' = [parse EXCEPT !.length = 0]
    /\ ParseUnchanged

ReleaseParseBuffer ==
    /\ parse.ptr # NoPtr
    /\ heap' = tlsf_free(heap, parse.ptr)
    /\ parse' = NoParseBuffer
    /\ ParseUnchanged

Next == \/ \E s \in Sockets : \/ AdoptFd(s) \/ Close(s)
                              \/ \E len \in Messages : Push(s, len)
                              \/ \E sent \in 1 .. MaxQueued : OnWritable(s, sent)
        \/ \E n \in 1 .. PARSE_BUFFER_SIZE : StoreRest(n)
        \/ \E size \in FrameSizes, n \in 1 .. block_size_max : Resize(size, n)
        \/ FrameDone \/ ReleaseParseBuffer

Spec == Init /\ [][Next]_vars

-----------------------------------------------------------------------------
(* tlsf_check and tlsf_check_pool find nothing after any history of calls. *)
PoolConsistent == BlocksTile(heap) /\ ListsMatch(heap)

Owned == {rBuffer[s] : s \in Sockets} \cup {parse.ptr}
         \cup UNION {{writeQueue[s][i].data : i \in 1 .. Len(writeQueue[s])} : s \in Sockets}

(* Every block in use has an owner and every owner its own block: nothing  *)
(* leaks, and nothing is freed under its owner.                            *)
NothingLeaks ==
    {block_to_ptr(b) : b \in Walk(heap) \ FreeBlocks(heap)} = Owned \ {NoPtr}

HasRoom(ptr, n) == ptr = NoPtr \/ block_size(heap, block_from_ptr(ptr)) >= n

(* The words queued and not yet sent are in the pool, in their order,      *)
(* whatever is allocated, moved and freed around them; so is what the      *)
(* tunnel has of a frame, and each buffer is as large as its owner thinks. *)
DataIntact ==
    /\ \A s \in Sockets :
          LET q == writeQueue[s]
          IN  /\ queued[s] = LenUpto(q)[Len(q)]
              /\ \A i \in 1 .. Len(q), k \in 0 .. MaxQueued :
                    k < q[i].len =>
                       heap.mem[q[i].data + k] = Word(s, first[s] + LenUpto(q)[i - 1] + k)
              /\ HasRoom(rBuffer[s], SLAB_SIZE)
    /\ \A i \in 0 .. parse.length - 1 : heap.mem[parse.ptr + i] = ParseWord(i)
    /\ HasRoom(parse.ptr, parse.capacity)

(* A request is only refused when no free block is larger than it by one   *)
(* part in SL_INDEX_COUNT: the good fit does not lose memory that is free. *)
RefusedWhenFull ==
    \A size \in Messages \cup FrameSizes \cup {SLAB_SIZE, PARSE_BUFFER_SIZE} :
       block_locate_free(heap, adjust_request_size(size)) = {} =>
          \A b \in FreeBlocks(heap) :
             block_size(heap, b) * SL_INDEX_COUNT
                < adjust_request_size(size) * (SL_INDEX_COUNT + 1)

=============================================================================
