------------------------------ MODULE Endpoint ------------------------------
(***************************************************************************)
(* A TCPSocket (src/src/clsTCPSocket.cpp) as its owner sees it: what a     *)
(* call or an event does to the socket as a whole.  TCPSocket.tla has the  *)
(* same methods step by step, with the descriptor table and the epoll      *)
(* instance below them; here a socket is a record and a method a function  *)
(* from records to records, so that programs can be composed from it.      *)
(*                                                                         *)
(* What is sent and received are units, numbers or names.  EPOLLOUT is on  *)
(* while there is data queued (checked there as QueueHasEpollout), and     *)
(* the pool has memory for what is queued.                                 *)
(***************************************************************************)
EXTENDS Integers, Sequences, SequencesExt

CONSTANTS BACK_PRESSURE, LOW_WATERMARK,
          SendRoom      \* bound: units the send buffer of the kernel takes

ASSUME EndpointAssumption == /\ LOW_WATERMARK \in Nat /\ BACK_PRESSURE \in Nat
                             /\ LOW_WATERMARK <= BACK_PRESSURE
                             /\ SendRoom \in Nat \ {0}

ReadySocket == [status |-> "Ready",
                fd |-> "none",           \* "open" from socket() to close()
                writeQueue |-> << >>,    \* of buffers, each a sequence of units
                m_len |-> 0,             \* its size()
                pendingClose |-> FALSE,
                readPaused |-> FALSE,
                (* its connection: *)
                inbox |-> << >>,         \* arrived, not yet read
                fin |-> FALSE, reset |-> FALSE,   \* of the peer
                room |-> SendRoom,
                shut |-> FALSE,          \* SHUT_WR of our side
                got |-> << >>]           \* what the peer has been sent
AcceptedSocket == [ReadySocket EXCEPT !.status = "Connected", !.fd = "open"]

IsOpen(s) == s.fd = "open"
Queued(s) == FlattenSeq(s.writeQueue)
Smaller(m, n) == IF m < n THEN m ELSE n

-----------------------------------------------------------------------------
(* close(): nothing without a descriptor; with data queued and no force,   *)
(* only the write side, for now.                                           *)
Close(s, force) ==
    IF ~IsOpen(s) THEN s
    ELSE IF s.writeQueue = << >> \/ force
         THEN [s EXCEPT !.status = "Closed", !.fd = "closed", !.writeQueue = << >>]
         ELSE [s EXCEPT !.status = "Closing", !.pendingClose = TRUE, !.shut = TRUE]

Transmitted(s, units) ==
    [s EXCEPT !.got = @ \o units, !.room = @ - Len(units)]

Rest(units, n) == SubSeq(units, n + 1, Len(units))

(* send(): past an empty queue the kernel takes what it has room for, the  *)
(* rest is queued; a long queue pauses reading.                            *)
(*                                                                         *)
(* A closed socket keeps its number, and send() does not ask: the data     *)
(* goes to whoever has the number by then.  That does nothing to the       *)
(* socket itself, so here it stays as it is.  Where the number can be one  *)
(* of the same session, its module says what happens to that one           *)
(* (OnConnected of Socks5Proxy); what a session that has ended sends into  *)
(* the connections of others is outside of a model of one session.         *)
Send(s, data) ==
    LET n == IF s.writeQueue = << >> THEN Smaller(s.room, Len(data)) ELSE 0
        sent == Transmitted(s, SubSeq(data, 1, n))
        len == s.m_len + Len(data) - n
    IN  CASE data = << >> -> s
          [] data # << >> /\ s.writeQueue = << >> /\ (~IsOpen(s) \/ s.reset \/ s.shut) -> Close(s, TRUE)
          [] OTHER -> IF n = Len(data) THEN sent
                      ELSE [sent EXCEPT !.writeQueue = Append(@, Rest(data, n)),
                                        !.m_len = len,
                                        !.readPaused = @ \/ len > BACK_PRESSURE]

(* The write queue after n units left it.  m_len only loses the buffers    *)
(* that went as a whole, and of those what was left of them.               *)
Consumed(s, n) ==
    LET upto[i \in 0 .. Len(s.writeQueue)] ==
            IF i = 0 THEN 0 ELSE upto[i - 1] + Len(s.writeQueue[i])
        whole == CHOOSE i \in 0 .. Len(s.writeQueue) :
                    upto[i] <= n /\ (i = Len(s.writeQueue) \/ n < upto[i + 1])
        rest == Rest(s.writeQueue, whole)
    IN  [s EXCEPT !.m_len = @ - upto[whole],
                  !.writeQueue = IF rest = << >> THEN rest
                                 ELSE <<Rest(rest[1], n - upto[whole])>> \o Tail(rest)]

(* onWritable() of an established connection.  ResumesReading says whether *)
(* it ends with resume_reading().                                          *)
Writable(s) == /\ IsOpen(s) /\ s.status # "Connecting"
               /\ s.writeQueue # << >>
               /\ s.room > 0 \/ s.reset \/ s.shut

OnWritable(s) ==
    LET n == Smaller(s.room, Len(Queued(s)))
        rest == Transmitted(Consumed(s, n), SubSeq(Queued(s), 1, n))
    IN  CASE s.reset \/ s.shut -> Close(s, TRUE)
          [] ~(s.reset \/ s.shut) /\ rest.writeQueue = << >> /\ s.pendingClose -> Close(rest, TRUE)
          [] OTHER -> rest

ResumesAtLowWater(s) == IsOpen(s) /\ s.m_len <= LOW_WATERMARK   \* wrong: m_len may never be low
ResumesReading(s) == IsOpen(s) /\ (s.m_len <= LOW_WATERMARK \/ s.writeQueue = << >>)

(* The peer has finished: recv gives 0, or handleHalfClose sees it.        *)
Finished(s) == IsOpen(s) /\ s.fin /\ s.inbox = << >> /\ ~s.pendingClose
OnFinished(s) ==
    IF s.writeQueue = << >> THEN Close(s, TRUE)
    ELSE [s EXCEPT !.pendingClose = TRUE, !.status = "Closing"]

(* EPOLLERR, and maintenance() for a socket that stays Closing, force it.  *)
Failing(s) == IsOpen(s) /\ (s.reset \/ s.status = "Closing")

(* onReadable() hands its owner up to n units.                             *)
MayRead(s) == IsOpen(s) /\ ~s.readPaused /\ s.inbox # << >> /\ ~s.reset
Read(s, n) == [s EXCEPT !.inbox = Rest(@, n)]

(* connectTo() and _connect(): what becomes of the request.                *)
ConnectResults == {"lookup",      \* the name is asked for
                   "inProgress",  \* an address, or a name in the cache
                   "failed",      \* OnConnectFailed, and connectTo is true
                   "refused",     \* OnConnectFailed, and connectTo is false
                   "noRequest"}   \* connectTo is false, and no callback
ConnectTo(s, result) ==
    [s EXCEPT !.status = IF result \in {"failed", "refused"} THEN "Closed" ELSE "Connecting",
              !.fd = IF result = "inProgress" THEN "open" ELSE @]

InLookup(s) == s.status = "Connecting" /\ s.fd = "none"
InHandshake(s) == s.status = "Connecting" /\ IsOpen(s) /\ ~s.reset

-----------------------------------------------------------------------------
(* The peer, once the connection stands.                                   *)
Connection(s) == IsOpen(s) /\ s.status # "Connecting" /\ ~s.reset
PeerMaySend(s) == Connection(s) /\ ~s.fin
PeerMayTake(s) == Connection(s) /\ s.room < SendRoom

Arrived(s, units) == [s EXCEPT !.inbox = @ \o units]
Taken(s) == [s EXCEPT !.room = @ + 1]
PeerFinished(s) == [s EXCEPT !.fin = TRUE]
PeerReset(s) == [s EXCEPT !.reset = TRUE, !.inbox = << >>]

=============================================================================
