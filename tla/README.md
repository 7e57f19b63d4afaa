# Verification of epoll_new

TLA+ models of the epoll reactor library in `src/src/` (C++), the TLC runs that
check them, and proofs about them for TLAPS. The library is a single-threaded
event loop per shard: a reactor owns one epoll instance, a list of connections,
timers, a DNS client and a garbage collector for closed sockets. The programs
in `src/` (a SOCKS5 proxy, and a SOCKS5 tunnel over a yamux-like multiplexer)
are built from it.

## Inventory

| Part | State | Operations | Talks to |
|---|---|---|---|
| `SocketList`, `IntrusiveList` | slot array indexed by descriptor (type, pointer, generation), 32-bit generation counter, linked list of used slots | `add`, `remove`, `get`, `forEachActive` | called by the reactor |
| `EpollReactor` | epoll instance, batch of fetched events, `SocketList`, `GCList`, timers, DNS | `run`, `onTCPEvent`, `adoptAccepted`, `register_fd`, `del_fd`, `addFlags`, `removeFlags`, `maintenance`, `runGarbageCollector`, `deleteLater` | calls sockets' handlers; is called by sockets; kernel |
| `TCPSocket` | status, fd, receive buffer, `SendQueue`, event mask, `m_readPaused`, `m_pendingClose` | `connectTo`/`_connect`, `_accepted`, `send`, `close`, `pause_reading`, `resume_reading`, `onReadable`, `onWritable`, `handleHalfClose` | calls the application synchronously (`onReceiveData`, `onClose`, `onPause`, ...), which calls any method again |
| `SendQueue`, `BufferPool` | list of buffers, `m_len`; TLSF pool shared by all sockets of a reactor | `push`, `front`, `pop_front`, `clear` | used by `TCPSocket` and the tunnel |
| `GCList` | objects to delete with their retirement time | `retire`, `flush`, `flush_all` | filled by `deleteLater`, emptied by a timer |
| `Timer`, `TimerManager` | timerfd; heap of deadlines with one timerfd | `setInterval`, `stop`, `onTick`, `addTimer`, `removeTimer` | reactor dispatches ticks; callbacks change the timers |
| `DNSLookup` | pending queries by 16-bit id, request pool, LRU cache, resolver list | `resolve`, `on_dns_read`, `maintenance` | UDP, lossy; calls the connecting socket back |
| `MultiplexedTunnel` | streams with send and receive windows, pending data, close flags; parse buffer | `openStream`, `sendToStream`, `closeStream`, `shutdown`, `onReceiveData` and the frame handlers | is a `TCPSocket`; calls stream callbacks; talks to its peer in frames |
| `Socks5Proxy`, stream handler, local forwarder | a phase each, an acceptor coupled to a connector | handshake, forwarding, pause and resume of the other side | two `TCPSocket`s, or a `TCPSocket` and a stream |
| `Server` | shards (threads), listeners, round robin | `start`, `stop`, `AddNewListener` | starts and stops reactors from another thread |

What makes the system hard:

* **Reentrancy.** There is one thread, but handlers call the application and the
  application calls `send`, `close`, `connectTo` on any socket, in the middle of
  `onReadable`, `close` or `maintenance`. State read before a callback is stale after it.
* **Descriptor reuse.** The kernel hands out the lowest free number. A batch of
  events can name a number that was closed and reused since `epoll_wait`; the
  generation in the epoll key is the only protection.
* **Edge triggering.** A wakeup is seen once. Every switch of the event mask has
  to leave an edge for data that is still queued.
* **Deferred deletion.** Objects are deleted by a timer, never while frames of theirs run.
* **Half-open connections, resets and refused connections** at every point.
* **Resource limits**: no descriptor left (`accept4`, `socket`), no slot in the list,
  no memory in the pool, `EPOLL_CTL_ADD` refused.
* **Flow control** across the tunnel: credit must neither leak nor be overrun.

## Modules

| Module | What it is | Code |
|---|---|---|
| `SocketObjects` | the objects of a run (constants) | |
| `SocketList` | slots, generations, active list, as operations | `clsSocketList.*`, `clsIntrusiveList.h` |
| `StaleEvents` | the list under any use of it, with events in flight | `clsEpollReactor.cpp` `run`, `register_fd`, `del_fd`, key packing |
| `StaleEventsProof` | theorems about `StaleEvents` | |
| `Kernel` | descriptors, TCP states and edge-triggered epoll, as far as the code uses them (external) | |
| `TCPSocket` | every method of a socket, as frames of a call stack | `clsTCPSocket.cpp`, `clsSendQueue.cpp` |
| `EpollReactor` | the loop, the sockets, the application and the environment together; properties | `clsEpollReactor.cpp`, `clsGCList.h` |
| `EpollReactorProof` | theorems about `EpollReactor`, its sockets included | |
| `FlowWindow` | the two constants of flow control and what is assumed of them | `clsMultiplexedTunnel.h` |
| `StreamFlow` | what credit-based flow control promises, per direction of a stream: five counters | abstract; `clsMultiplexedTunnel.cpp` `sendToStream`, `trySendWindowUpdate`, `processPending` |
| `Tunnel` | both ends of a tunnel: streams, windows, pending data, closing, shutdown, as call stacks; implements `StreamFlow` | `clsMultiplexedTunnel.cpp` |
| `TunnelProof` | theorems about `Tunnel`, and about `StreamFlow` | |
| `FrameParser` | the parse buffer and the zero-copy loop over a byte stream cut anywhere | `clsMultiplexedTunnel.cpp` `onReceiveData` to `storeRemainingData` |
| `FrameParserProof` | theorems about `FrameParser` | |
| `DNSLookup` | lookups, retries, timeouts and the cache over a lossy network | `clsDNSLookup.cpp` |
| `DNSLookupProof` | theorems about `DNSLookup` | |
| `Tlsf` | the allocator, function by function, on a memory of words | `tlsf.c` |
| `Buffers` | the receive buffers, write queues and parse buffer that live in it, and the bytes they hold | `clsBufferPool.*`, `clsSendQueue.cpp`, the allocating parts of `clsTCPSocket.cpp` and `clsMultiplexedTunnel.cpp` |
| `Endpoint` | a `TCPSocket` as its owner sees it: each method one function over a record | `clsTCPSocket.cpp` |
| `Socks5Proxy` | acceptor and connector of a proxy session | `clsSocks5Proxy.h` |
| `Socks5Tunnel` | the same across a tunnel: local forwarder, stream, stream handler | `Socks5LocalForwarder.h`, `Socks5StreamHandler.h` |
| `Socks5` | a session of either program with its client, its target and the events of the reactor; properties | `clsEpollReactor.cpp` `onTCPEvent`, `clsTCPSocket.cpp` |
| `Socks5Proof`, `Socks5DataProof` | theorems about `Socks5`: its connections, and its data | |
| `Timers` | timers behind one timerfd, and a timer with its own | `clsTimerManager.*`, `clsTimer.*` |
| `Shard` | the loop of a reactor's thread with these timers, and the thread that stops it; properties | `clsEpollReactor.cpp` `run`, `clsServer.cpp` |
| `ShardProof` | theorems about `Shard` | |
| `MCStaleEvents`, `MCEpollReactor`, `MCDNSLookup` | instances for TLC; the other modules are instances themselves | |

`EpollReactor` extends `TCPSocket`, which extends `SocketList` and `Kernel`.
`Tunnel` stands on an abstract connection: a queue of whole frames in each
direction that may end at any time. `FrameParser` fills the gap below it: bytes
become the frames that were sent. `DNSLookup` stands alone: the reactor calls its
handlers, and `EpollReactor` has of it only the answer to a connecting socket.
`Buffers` extends `Tlsf`; it has of the sockets and the tunnel only what they do to memory.
`Socks5` extends `Socks5Proxy` and `Socks5Tunnel`, and both extend `Endpoint`, which is
`TCPSocket` with the reactor's interleavings folded away. `Socks5Tunnel` takes from `Tunnel` that frames
arrive as sent and in order. `Shard` extends `Timers`.

### How the state corresponds to the code

`SocketList`: `list` is the slot array, `genIDCounter` the counter (modulo
`MaxGen + 1`, as the code's is modulo 2^32), `active` the intrusive list as a
sequence of slots. `Add`, `Remove`, `Get` are the methods with their early returns.

`Kernel`: `owner[fd]` is what is open under a number; `interest[fd]` its epoll
registration (generation half of the key and event mask); `armed` the numbers
with an edge not yet reported; `net[o]` the TCP state of the kernel socket that
object `o` opened (established, unread units, FIN, pending error, write side,
room in the send buffer); `backlog` the listener's queue.

`TCPSocket`: `sock[o]` holds the members of an object, `life[o]` whether its
memory is valid, `gcList` is `m_GCList`, and `stack` is the call stack of the
reactor's thread, innermost frame first. A frame names the method part still to
run (`read`, `dataHandled`, `writable`, `flush`, `drained`, `quiet`, `close`,
`forceClose`, `halfClose`, `retire`, `connect`) or the callback that runs
(`onData`, `onClose`, ...). A step runs the innermost frame up to its next
callback or the next system call whose result depends on the environment. So the network and the rest of the process act
between any two system calls, and the application acts inside callbacks and
nowhere else. The fd is deliberately not reset by `CloseNow`: in the code
`m_SocketContext.fd` keeps its number after `close()`, and the number may belong
to someone else by then.

`EpollReactor`: `batch` is `evs[]` after `epoll_wait`. The code walks it in array
order; the model takes events up in any order, which covers every order the
kernel may return. `dns` is the set of sockets whose lookup is under way.
The application makes any call that `AppCalls` allows on any live object while a
callback is innermost, or from a timer of its own; it stops calling beyond
`MaxNesting` nested callbacks.

Data is counted in units: a queue is a sequence of buffer lengths, and `len` is
`m_len`, which, as in the code, does not go down when a buffer is sent in part.

`Tunnel`: `streams[p]` is `m_streams` of end `p`; a stream's record has the
windows, the unacknowledged bytes, the two close flags and the queue of pending
buffers of `struct Stream`. `stack[p]` is the call stack of that end's thread,
with the frames still to be parsed from one `recv` (`parse`), the callbacks, and
what the code does after a callback returns: the ACK after `onNewStream`, the window update
after `onData`, erasing after `onClose`, the loop of `shutdown`. Data
is counted in units, numbered from 1 on each stream, so that a lost, doubled or
overtaken unit shows; `accepted` and `delivered` are ghosts. A stream that is erased
by a callback and then once more by its caller is undefined behaviour in the
code (`m_streams.erase` with a dead iterator): `EraseAgain` lets the process
go on or die. The peer of an end is another end of this code, so only frames
that this code sends are under way.

`FrameParser`: a byte is its position in the stream the peer sends, `data` what
one `recv` returned, `parseBuffer` and `capacity` the members of that name,
`pc` which of the three parts of `onReceiveData` runs. `processFrame` is the append to `parsed`.

`DNSLookup`: `pending` is `m_pending` with the requests it points to, `free` the length of
`m_free_requests`, `cacheList` and `age` the list and the map of the cache.
`asked` holds the queries that left the current socket. Any of them may be answered at any time, any
number of times, rightly or with an error, or never, which is what UDP does; a new
socket has another port, so what was asked before is never answered. The clock is abstracted to
what the code compares it with: a cache entry is below, at or above its time to live, and `maintenance` finds any
subset of the pending requests timed out (`m_Timeout` is taken to be positive, so none that is sent again in a walk times out
in it). `stack` holds the callbacks that run, and `touch`, which moves the host of a cached answer to the front of the
list after its callback. `handler` is what the thread goes on with once the stack is empty: `done`, the rest of
`on_dns_read` with the entry it holds, or `scan`, the walk of `maintenance` with the entry it stands on. `lookups` is a
ghost that notes each call of `resolve` and counts its callbacks, `leaked` one that counts the requests that were lost when their entry was overwritten.

`resolve` within a callback works on the table its caller is walking. Where its id has come round and is in use,
`m_pending[qid]` takes the entry over (`Overwrites`); where the table is full it grows (`Grows`), to
the next of `Sizes`, and is put in another order. The standard leaves open what the walk then does; the model has what
libstdc++ does: it goes on from the node it stands on, in the new order, so that it may miss entries and meet others
again (`Resumed`). The sizes are 13, 29, 59, 127, 257, 541 and 1109, and the table grows at its 14th, 30th, ... entry. An entry that is
erased under its handler, a walk that ends with an id that is no longer there (`m_pending[id]` is then a
null pointer), and one that gave up the same request twice end the program (`Crash`).

`Tlsf`: a heap is a record of `mem`, one value per word, the two bitmaps as sets, and `blocks`, the heads of the
free lists. A block header is where the C code has it: `prev_phys_block` overlaps the last data word of
the block before, `size` carries the two flag bits, and the links of a free
block are its first two data words. Operators are named after the C functions and return the heap
after the call. Words that nobody may read (freed memory, the links of `block_null`) are set to `Junk`,
which changes nothing that is read and keeps the states few.

`Buffers`: `rBuffer[s]` is the receive buffer of a socket, `writeQueue[s]` its `SendQueue`, `parse` the three members of a tunnel's
parse buffer. The words a socket queues are numbered and are written to the pool; `first` and
`queued` are ghosts that say which numbers are still to be sent.

`Endpoint`: a record has the members of `TCPSocket` that its owner can tell apart, and the connection below it
(`inbox`, `fin`, `reset`, `room`, `got`). `m_len` is a field of its own since, as in the code, it is not the
sum of what is queued. `Close`, `Send`, `OnWritable`, ... are the methods from call to return; the
owner's callbacks are made by the modules above (`With`, `Update`) from what has changed.

`Socks5Proxy`, `Socks5Tunnel`: `obj` holds the members of the session and its two sockets. Greeting, request and
reply are units (two for the greeting, two for the request), so that each can come cut in the middle; what a
client may get wrong is its `client` kind. `reused` says that the connector of a proxy was given the descriptor number that the
acceptor had. A closed socket keeps its number and `send` does not ask, so `OnConnected` then puts the reply to the client into the connection to the target. `near` and `far` are the two ends of the stream, `up`
and `down` the frames between them. A handler with all its callbacks, across both sockets, is one step: there is one thread,
and nothing else runs in between.

`Timers`: `m_timers` and `m_expirations` are the members; a moment is relative to the present.
`now` is the `now` of `onTick`, `callback` whose callback runs. `timer` is a `Timer` with
the generation of its registration. `Shard`: `loop` is where `run()` stands, `batch` what
`epoll_wait` returned, `waited` what is left of its timeout, `stopper` where the thread in `Server::stop` stands.

## Runs

| Run | Question | Bounds |
|---|---|---|
| `stale_events` | is an event that was fetched before its descriptor was closed and reused ever delivered to the new owner; is the active list exact | 3 slots (slot 0 included), 2 objects, generations 1..4 (the counter wraps), 2 events in flight |
| `reactor_one` | one socket through all events, all application calls and all rare failures | 2 descriptors, queue of 3 units, 2 nested callbacks |
| `reactor_two` | two sockets that take each other's numbers within a batch | 3 descriptors, queue of 1 unit, 1 nested callback; threshold collector |
| `reactor_live` | what must happen in the end | 1 socket, 1 nested callback, no rare failure |
| `reactor_drain` | a statement of the source that its code does not keep (see below) | as `reactor_live` |
| `tunnel_flow` | do the two ends implement `StreamFlow`; does data arrive, is a close heard | window 2, threshold 2, sends of 1 and 3 units, 6 units a direction; 1 stream |
| `tunnel_session` | do credit and data survive closes, resets, shutdown in callbacks and a broken connection | window 2, one send of 5 units a direction, calls of the application inside one callback |
| `frame_parser` | does the parser yield the frames that were sent, however `recv` cuts them | header of 2 bytes, buffer of 4, limit 6, up to 3 frames of every kind and 5 lengths, every cut |
| `dns` | does every lookup end, with one callback and its own host's addresses; do pool and cache stay consistent; what of it is left when ids come round and the table grows under a walk | 4 lookups of 2 hosts with 3 ids, pool of 3 requests, table of 2 entries that grows to 5, cache of 1, 1 retry, 1 nested callback |
| `buffers` | does the pool stay consistent and every byte in its place; does nothing leak; is a request refused only for lack of memory | pool of 18 words, 4 lists a level, 2 sockets with 4 queued words each, a tunnel with a parse buffer of 3 that grows to 5 and 7 |
| `socks5` | does a session relay everything in order, resume what it pauses, and end as a whole | both programs, 4 kinds of client, 4 + 3 units from the client and 2 from the target, back pressure above 1 unit, a send buffer of 1 |
| `shard` | does every timer keep one expiration and fire, none early; does `stop` return | 2 timers and a `Timer`, intervals 1 and 2, 3 calls, events handled up to 1 late, a timeout of 3 |

Why the bounds suffice for the cases meant: with one socket and two descriptors the number of
a closed socket can be taken by an accepted connection, by a new connection or
by the rest of the process ("foreign"); with `HighWater` and `LowWater` of one unit and a
send buffer of one unit, each of pause, resume, partial write, full queue and
drain happens; two nested callbacks are what it takes for a callback to close the
socket whose callback called it. Two sockets are what the exchange of a number within one batch takes.

Streams share nothing but the connection's order, so one stream is what flow control takes. It is opened by the
client. In `tunnel_flow` the client sends and either end closes, in `tunnel_session` both send. A send of more than twice the window makes a
partial frame, a pending rest, and a rest that is cut again.
In `frame_parser` the lengths make a frame that fits the buffer, one that fills it,
one that needs a larger buffer, one exactly at the limit and one above it.
`PARSE_BUFFER_SIZE` (8 KiB) is at least what a `recv` returns
(`SLAB_SIZE - 1`), as in `constants.h`; `ParserAssumption` says so, and
`ShutDownForCause` rests on it.

In `dns`, four lookups with three ids make the last one take the id of the first, which may still wait; three requests
make the pool run dry and a table of two entries grow at the third. Two hosts
and a cache of one make every new answer push the other host out; with one retry each of first
attempt, last attempt and giving up happens. `Wanted` says which hosts each lookup may be about, so that fewer runs
differ only in the names of hosts. A request that is overwritten, a walk that gives up a request twice, each way to `Crash`, and
an answer to an earlier lookup of the same id are all reached at these bounds.

In `buffers`, the pool holds the receive buffers of both sockets and little more, so that
allocation fails, splits and merges on both sides of a block happen; 5 and 7 words make `realloc`
grow in place, into its free neighbour, and by moving. Sizes fall into lists of one size and lists of several.
In `socks5`, a send buffer of one unit and back pressure above one unit make partial writes, and with
three units of data a queue is paused, drained in part and resumed. No event returns to an earlier
state: each uses up a unit, a frame, a peer's decision or a phase. So liveness would say no more
than that the last states are right, and the properties are invariants.
In `shard`, three calls are what it takes to add two timers and disturb one, and a `Timer` can be started, stopped and
started between `epoll_wait` and its event.

The runs check one type invariant, that of `stale_events`; the `TypeOK` of `Tunnel`, `FrameParser` and `DNSLookup` are proved.

`CHECK_DEADLOCK FALSE` is set where the system may really stop: the byte
stream of `frame_parser` ends; the ends of a tunnel may have nothing left to do, or be closed;
a session is over, a shard stopped, or a resolver has come to `Crash`.

`ReactorAssumption` says that the listening descriptor has a slot (`ListenFd \in Slots`): the reactor is modelled from
the registration of its listener on. `GCThreshold = 1` stands for `THRESHOLD_SIZE = 1024`.

### Fairness

`FairSpec` of `EpollReactor` assumes: the reactor's thread runs its innermost
frame (weak fairness, only this thread disables it); `epoll_wait` and the
dispatch of fetched events happen again and again although the application and timers run in
between (strong); timers fire although the loop is busy (strong: the timer descriptors are
level-triggered and periodic); a callback at each nesting depth returns
(strong: another callback may run in between); a peer reads what it was sent. The
accept and read loops end: neither clients nor peers are for ever faster than
the reactor, which the code does not guarantee and relies on
(`adoptAccepted` and `onReadable` loop until `EAGAIN`).

`FairSpec` of `Tunnel` assumes that each end's thread handles the frames that
have come (weak fairness: the handler of the innermost frame stays enabled until it runs) and
that callbacks return. It assumes nothing of the application's calls and
nothing of the connection, which need not break.

`FairSpec` of `DNSLookup` assumes that the handlers of the reactor's thread run to their end and
callbacks return, and that a request that waits is found timed out in the end: the periodic timer of
`maintenance` fires when its time has passed. All three are weak. For the last one that is less than the code gives: a
request that is pending and a thread at rest in between enable it again and again, and where they do not stay so the request
is called back or the thread is busy with it. It assumes nothing of the network.

`FairSpec` of `Shard` assumes that the reactor's thread runs (weak: each of its steps stays enabled until it is taken, or
is replaced by another of its steps), that time passes, and that the thread in `stop` goes on once it has set the flag. It does not assume that
`stop` is called, nor anything of the application.

### What the violation run and the models show

`reactor_drain`: `close(false)` with data queued shuts the write side down
before the queue it waits for is sent, so `EPOLLOUT` comes and every `sendmsg` fails.

No run asks for the following; each is in the model, and shows when a property is stated for it.

* `onTCPEvent` runs up to three handlers for an event; a
  callback in one of them may close the socket. When a pending close was under way, the
  end of `onWritable` closes the old number again (`clsTCPSocket.cpp:755`) and calls `onClose` a second time.
  The same cause lets `removeFlags` overwrite the epoll registration of the descriptor
  that reused the number (`clsTCPSocket.cpp:777`).
* An accepted connection that cannot be registered is never
  closed: `close(true)` returns because the descriptor was not stored yet (`clsTCPSocket.cpp:370`).
* A `Timer` that is given another interval between `epoll_wait` and its event ticks at once, since what
  `read` says is not looked at (`clsTimer.cpp:54`); `NeverEarly` names this exception.
* A client that leaves while its target is looked up: the target is connected all the same (`clsTCPSocket.cpp:222`);
  `EndTogether` names this exception (`orphan`).

* `send`, `pause_reading`, `resume_reading` and `addFlags` do not ask whether the socket is closed, and `close` leaves the number in it. The SOCKS5 programs do
  send on closed sockets (`clsSocks5Proxy.h:160`, `Socks5LocalForwarder.h:188`, `Socks5StreamHandler.h:123`). Within one session, the
  client may leave while its target is looked up and the target's connection be given its number: the reply to the client goes to
  the target (`reused` of `Socks5`, the exception of `RelayedInOrder`). Where the number has gone to a stranger, his connection gets the bytes, and
  where the kernel does not take them all, or reading is paused or resumed, `EPOLL_CTL_MOD` gives his registration a generation that is not his,
  so he gets no event any more. `EpollReactor` has this for calls on any socket in any status; the modules of one session end at its sockets.
* With the garbage collector on, which is the default of the library (`clsEpollReactor.h:49`), up to 1024 closed sockets are kept until the reactor is
  destroyed: `flush` deletes only in blocks of 1024 (`clsGCList.h:49`). The programs turn it off (`main.cpp:26`, `Socks5TunnelServer.cpp:61`,
  `Socks5TunnelClient.cpp:57`). No document says when a closed socket is deleted, so there is no liveness property about it.
* When an id of `DNSLookup` comes round while it is in use, after 65534 lookups, the older request is lost and its callback never made. When a callback of
  `maintenance` looks up again and the table grows, the walk may call a lookup back twice, and then follows a null pointer (`clsDNSLookup.cpp:394`).
  `AnsweredOnce`, `RightAnswer` and `LookupEnds` name these exceptions.
* One call of `sendToStream` with more than 128 KiB makes a frame that the peer's parser refuses (`clsMultiplexedTunnel.cpp:434`), though the window is 256 KiB: the
  session ends. `FrameParser` has the limit, `Tunnel` does not.

The reactor runs have the application send in every status but `"Connecting"`. Data sent while
the attempt is under way is queued, and completing the connection switches `EPOLLOUT` off
with the data still queued (`clsTCPSocket.cpp:632`): with `"Connecting"` added to `SendStatuses`,
`QueueHasEpollout` fails in `reactor_one` and `QueueDrains` in `reactor_live`. What is proved of `EpollReactor` is proved for any `SendStatuses`.

## Proofs

`StaleEventsProof` proves three theorems for every number of descriptors, objects and
generations: `TypeCorrect`, `StaleRejected` and `ListExact`.

`StaleEventsRejected` is not inductive. Its invariant `IInv` says how
generations and *turns* of the counter (a ghost that counts wraparounds) order
registrations: a key in the kernel carries the generation of its slot, stamps of
slots, keys and events are never later than the counter, two
stamps of one number differ when they were made by different registrations.
From it follows that equal generations mean the same registration, unless the
counter went all the way round while the event waited (`Fresh`).
`ActiveListExact` is inductive together with the type invariant.

The assumptions of `StaleEvents` are those of its modules: generations are at least two values, the
objects do not contain the null pointer.

`TunnelProof` proves `FlowTypes`, `NoOverrun` and `NoStall` of `StreamFlow`: for every
window, every threshold between 1 and the window, every set of flows and
every number of units, what is under way fits the receiver's window, and a flow with
data left is never stuck. The inductive invariant orders the counters
(`learned <= credited <= delivered <= sent <= given`) and says that a sender has always sent
all that its window allowed: `sent` is the smaller of `given` and the initial window
plus `learned`. `WindowAssumption` (the threshold is not above the window) is what makes
`NoStall` true: 8 KiB against 256 KiB in the code. `Tunnel` has the same constants and the same assumption (`FlowWindow`), and implements
`StreamFlow`: TLC checks `ImplementsStreamFlow` in `tunnel_flow`, `TunnelProof` proves it, so the three hold of the
tunnel (`TunnelFlowControl`). There is no run of `StreamFlow` itself: what it would check is proved.

`ShardProof` proves `OneExpirationEach`, `TimerfdArmed` and `NoneEarly` for any intervals below `Off`, any number of timers and calls
and any lateness. `ManagerInv` is the inductive invariant of the manager: its types, that a callback of the manager runs
within `onTick` and for a timer that is still there (`CallbackKnown`), `OneExpiration` and `ArmedForFirst`. Both
need the rule that a callback does not remove or change its own timer, which is a guard of the model and not of the code. That the timerfd stays right while time
passes rests on every nonempty set of pending moments having a first one, which follows from `<` being well-founded
on the naturals (`LeastExists`). `TimerInv` says of a fetched event that it is the only one of the
`Timer`, that its generation is one the `Timer` has had, and that, where it is the present one, its moment has
come or `setInterval` was called since; generations make the rest of `NoneEarly`. `TimersAssumption` says that intervals are positive and
below `Off`, the number that stands for a timerfd that is not set.

`FrameParserProof` proves all four invariants of `frame_parser` (`FramesArriveAsSent`, `NoByteLost`, `WholeFramesAreHandled`,
`ErrorsHaveACause`) for any header, any buffer and limit, any number of frames of any lengths and any cut of the stream. None is
inductive. `ParserInv` adds `InOrder` (the buffer, the rest of the chunk and what is still to be received
are, in this order, the bytes from the end of the last handled frame on, and a growing buffer keeps its bytes) and `Progress` (where each
of the three parts of `onReceiveData` stands in the frame it works on). From both follows that a header is never read before its last byte has come,
and that what is left of a chunk is shorter than a frame, so it fits. `ParserAssumption` says that a header fits the buffer, the buffer the
limit, and a `recv` the buffer.

`DNSLookupProof` proves the four invariants of `dns` (`PoolStaysBalanced`, `CacheStaysExact`, `NobodyAnsweredTwice`, `AnswersAreRight`) for any
number of hosts, lookups, retries and nested callbacks, any cache, any pool, any sizes of the table and any number of ids, which come round and may be in use when
they do. `LookupInv` adds to them: that a callback under way is of a call that was made, and what it is given is about the host of a call with that id
(`StackSound`); that the requests a walk has still to meet are pending, though what it gave up need not be any more (`HandlerSound`);
that each pending request serves a call with its own id and host, not refused, and not called back unless a handler is about to erase it (`CallsSound`); and that a query is about the host of a call that had
its id (`AskedSound`). The last is what makes `RightAnswer` true. For `AnsweredOnce` the walk is what matters: a request it has given up stays in the table
until the walk ends, and it is called back again only if the walk meets it again, which the walk then notes (`twice`).
An entry that is overwritten is that of another call from then on, and no answer or timeout leads to the older call any more. `LookupAssumption` says
that the numbers are naturals, that there is a size of the table for the whole pool, and which hosts are wanted.

`TunnelProof` proves the invariants of both tunnel runs and the action property of `tunnel_session`, for any streams, any window and threshold
that `WindowAssumption` allows, any sizes and numbers of units, callbacks nested to any depth, all calls in both ends and a connection that
breaks anywhere: `CreditStaysConserved`, `CreditIsOnItsWay`, `NothingIsLost`, `DataInOrder`. The
properties speak of directions that carry data; to be inductive the invariant has to say what is left of a stream when one end closed or erased
it, its own `shutdown` is under way, or its SYN has not arrived. `TunnelInv` is

* `Typed`: types, and only frames this code sends are under way;
* `Parity`: the two ends open odd and even ids;
* `StacksFine`: the loop over a chunk is the outermost frame of a stack and has at most as many frames left as are on
  the wire; an ACK or credit still owed comes right before it;
* `Streams`: `Sound` for each stream and each of its directions, which relates an end's record, the frames it has under way, what its stack still owes, and the peer's record:
  an id not opened yet is unused (`Unopened`); a SYN under way comes first and the peer has nothing yet (`AtSyn`); FIN or RST is sent by an end
  that closed and by no other (`Closes`); up to a FIN, the data on the wire continues what the peer has got, and what is pending
  continues that (`Carried`); what the sender may send, what is under way and the credit coming back fit the peer's window, and fill it exactly
  while both ends live (`Covered`); what the own window misses is counted in `unackedRecvBytes`, or is about to be (`Accounted`).

Each action is shown to be about one stream (`Shape`, `Local`), then to change the two ends of that stream by one of nine relations
(`Begins`, `Sends`, `Shuts`, `Replies`, `Returns`, `Ignores`, `Accepts`, `Hears`, `Takes`), or to forget (`Less`), and each relation to preserve `Sound` in both directions.

`TunnelImplementsStreamFlow` proves `ImplementsStreamFlow` along the same lines. `Meter` reads the five counters of a flow off the two ends of a direction that
`Runs`; `Balance` derives from `TunnelInv` that they are in order and that the sender has sent all its window allows, and each of the nine relations is shown to be one
move of one of the stream's two flows (`Gives`, `Hands`, `Repays`, `Learns`) or none, but for flows that begin or end (`StreamStep`). So every step of the tunnel is `Give`,
`Deliver`, `ReturnCredit`, `LearnCredit` of one flow, or `Forget` of those that do not run (`StepOfFlows`). It carries one more invariant, that no
sender learned of less than nothing (`LearnedNat`), which itself needs the moves.

TLC checked `TunnelInv` at the bounds of both tunnel runs, and `ParserInv` and `LookupInv` at those of theirs, before they were proved. `TunnelAssumption` says that
ids are positive and units are counted in naturals.

These proofs are about sums over queues and about what is left when some frames are taken out of a queue. The provers cannot unfold the recursive operators behind the community
modules' folds, so `Sums`, `Picks`, `First` (of `Tunnel`) and `Minus` (of `DNSLookup`) are recursive functions, and the modules
that need it state induction over a set instead of a predicate (`Climb`, from a to b, and `ClimbSeq`, over the length of a sequence).

`EpollReactorProof` proves `SlotsStaySound`, `NothingDangles`, `RetiredAtMostOnce` and the action properties `ClosedGetsNoData` and `EventsReachTheirSubject`: for any number of
sockets and descriptors, callbacks that call methods that call back to any depth, sending in any status, all the rare failures, and a network and a process around the reactor that
act between any two system calls. One inductive invariant, `ReactorInv`, carries all of them. It says by what an object may still be named, and in which state it
is then:

* `FramesAreLive`, `WalkIsLive`: a frame of the call stack is of a live object, and so is the pointer of a slot that `maintenance` has still to close, a slot that may have been
  closed and taken again since it was collected (a closed slot keeps its pointer);
* `RetiredAreGoing`: an object whose `deleteLater` is due, or that the collector holds, is `Going`: live, closed, and once opened. It is one or the other,
  and `FramesOnce` and `CollectedOnce` say it is so once. `close` returns early on a closed socket, and a lookup ends before a descriptor is opened, so nothing of the kind happens to a `Going` object again;
* `LookupsAreWaiting`: an object whose lookup is under way, or about to be answered, is not closed and has neither descriptor nor slot, and is not the one and the other. So the answer comes to a live object, and finds it as it was left.
  A socket closed during its lookup is not closed at all (`m_SocketContext.fd` is still -1), which is what keeps this true;
* `SlotsFit`: the slot of a socket is in use only while the socket is live and not closed and owns that number; the socket has stored the number, or has not stored any (an accepted
  connection that could not be adopted). The second case is needed: its slot and its number stay taken for ever;
* `MembersFit`: without a descriptor there is no queue and no drain to wait for, and neither then nor once closed is there a receive buffer. From the last follows `NoDataAfterClose`.

`SlotsFit` is why `CloseSlot` and the collector are safe, and `RetiredAreGoing` with it why a deleted object has no slot. Every method is shown to be of one of four kinds, and each kind to
preserve `ReactorInv` once: it changes members of a socket that keeps its descriptor, and starts frames that neither retire nor connect (`HarmlessWithOwners`); it
closes (`ClosingKeeps`, for `close` and for the end of `onWritable`); it makes, looks up, connects or accepts one object not yet closed
(`YoungObjectKeeps`); it collects (`CollectedKeeps`). What the proof takes from the kernel is that a new number was free (`LowestFreeIsFree`) and `KernelAssumption`: there are
finitely many numbers, and no object is one of the names for what else can be open. TLC checked `ReactorInv` at the bounds of `reactor_one` and
`reactor_two`, and in random walks with three sockets and every failure, before it was proved.

`EventsReachTheirSubject` proves the action property `DeliveredToSubject` under the hypothesis `[]NotRoundYet`, that the 32-bit counter of generations has not gone round; once it has,
a number closed and reopened 2^32 generations apart can be taken for another, which no code excludes. The step of a method is summed up as `Stamped`: a slot it puts in use gets a
generation above the counter's old value (`SlotsStamped`), the socket's copy is one the counter had (`MembersStamped`), and a key in the kernel is a socket's copy or gone (`KeysStamped`). So generations outside the
slots are never ahead of the counter (`StampsKnown`), and a slot that got a new one while an event waited does not match the event any more; one that did not is still the slot of the
socket the event is about (`AboutSubject`, which for a new event is `SlotsFit`). TLC checked both at the bounds of `reactor_one` and `reactor_two` first.

Of the other properties of `EpollReactor`, `QueueHasEpollout` has no proof because it is not true for all constants: it fails with
`"Connecting"` in `SendStatuses` (above), and a registration that `removeFlags` of a closed socket overwrites (above) may have asked for `EPOLLOUT`.

`Socks5Proof` and `Socks5DataProof` prove `PausedForCause`, `EndTogether` and `RelayedInOrder` of both programs, for any watermarks and any room in the kernel's send buffers. The first part is about
sockets: `SockOK` says what descriptor, status and queue of a socket tell of each other between two calls (an open socket that waits to close has data queued, one that connects has none), and
`Op` what any method may do to a socket, as far as the other one is concerned: it stays as it is, or closes, or stays open with its status or as Closing, paused only if its queue is not empty. Each method is
shown to be an `Op` once; what the peer does is `Beneath` it. The invariants of the programs are then about two sockets:

* `ProxyInv`: the two are paused together and one of them has a queue (`PausePair`), and where one has closed the other is about to
  (`EndPair`), which needs to know how far the handshake is (`ProxyPhase`): before the request there is no connector, a failed one has no descriptor;
* `TunnelInv`: each end of the stream knows of the other what was sent and handled (`NearOK`, `FarOK`): an end that closed has
  said so by a frame that is still on its way, or that the other has handled. A SYN comes once, and first, and a FIN or RST of the far
  end only when it has closed (`LinesOK`); a closed socket has told
  its stream (`Told`), and pauses for its own queue alone (`PausesAlone`).

Both carry the exception: where a client is gone and its target is still being looked up, `orphan` is set. A connector is given
the number of its client only then (`reused`).

`Socks5DataProof` is about the data (`RelaysInOrder`). What a peer has sent is `Left(k, n)` of the client, its units after the `k`th, and `Had(m)`
of the target. `RelayedInOrder` is not inductive: it says where the units are while nobody has closed, and not what of them may be taken off next. Its invariant
`Relays` adds to the two invariants above where the units are in every state of the handshake:

* in a proxy (`ProxyKeeps`), during the handshake all that came is unread or in `clientBuffer`, from the first unit or from the third, which is where the request begins; after it, what the
  connector has sent, its queue, `connectorBuffer` (`Coming`) and the unread rest make up all units after the fourth, and `connectorBuffer` is empty once the target is connected (`Emptied`);
* in a tunnel (`TunnelKeeps`) the stream lies in between; the handler's own buffer is empty between two events (`Bare`). The first data frame is the request, whole and alone, and until
  the handler has it and the target is connected nothing else is in the stream in either direction (`Asked`, `Waits`). `Start` is where the units begin that the
  handler has yet to act on: 0, 2 or 4.

A proxy whose client has gone and whose connector has its number (`reused`, `Alone`) is the third case: once its target is connected it has the reply to the client, and `Misdirected` says that
the rest of what it has begins what the client sent.

Where a connection was reset, or a side has closed, units may be missing, but only at the end: `Runs` says that what there is begins the whole, and is all of it unless lost. Each method is shown once to
take the data of its socket along (`Quiet`, for one that may lose what was queued and nothing else); the rest follows the events. How much the two peers send is fixed by the scripts of `Socks5` (`ClientScript`,
`TargetScript`), in the theorem as in the runs; how it is cut, when it comes, what fails and how large the buffers are is not.
`DataIn` maps over the units and flattens, so that the proof can take it apart where two sequences are joined (`DataCat`).

All other properties are only model-checked: that one of `EpollReactor`, those of `Buffers`, whose allocator walks its pool recursively (induction over data), and all liveness, which
is out of the provers' reach.

## Not modelled, and plan

The proofs are complete up to `Buffers`: for `RefusedWhenFull` and `NothingLeaks` the allocator would need an invariant in place of the recursive walk over the pool.

Open in the models: the life cycle of a socket as abstract specification of `EpollReactor` and `Endpoint`; the intrusive
list's pointers refining the sequence; a liveness property over the listener's backlog.

Not modelled, part by part:

* The tunnel: frames above the parser's limit, `Ping` (stateless), the exhaustion of 32-bit stream
  ids, streams without an `onData` callback, and peers that are not this code. `closeStream` sends FIN before data that is still pending,
  which the peer then ignores; a closed direction is therefore outside of
  what `AllArrives`, `NothingLost` and `StreamFlow` promise.
* `DNSLookup`: AAAA queries (the library asks only for A), host names that are addresses (answered
  on the spot), how queries and answers are written, and the callbacks of the destructor.
* The pool: `tlsf_memalign`, `tlsf_remove_pool` and `tlsf_destroy` have no caller while a reactor runs; the
  pool is one, and its statistics are left out.
* SOCKS5 sessions: the bytes of addresses (IPv6 and names have the same course), what follows when a tunnel's own
  connection breaks, windows that are used up (both in `Tunnel`), what a session sends into the connections of others that have got the
  numbers of its closed sockets, and the end of a session's memory. That end is
  undefined: acceptor and connector are members of the session, and the collector deletes them as objects of
  their own. `Socks5` stops where `close` hands a socket over.
* Timers: a callback that removes its own timer, changes its interval or restarts its own `Timer`, and interval 0. The
  first leaves `onTick` with an iterator that is gone, the second doubles the expiration, the
  last never leaves the loop; nothing in the repository does so.
* `Server`: `stop_listener`, which the stopping thread runs on the shard's own list (a data race whose outcome
  cannot be enumerated), round robin, signals.
* `UDPSocket` and `Listener` (nothing uses them), `concurrentqueue.h` and
  `lightweightsemaphore.h` (vendored, unused), start-up code and the examples.
