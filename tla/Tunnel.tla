------------------------------- MODULE Tunnel -------------------------------
(***************************************************************************)
(* The two ends of a MultiplexedTunnel (src/src/clsMultiplexedTunnel.cpp): *)
(* streams over one TCP connection, with credit-based flow control.        *)
(*                                                                         *)
(* Each end is a thread that handles one frame after another.  Handlers    *)
(* call the application, which calls the tunnel; stack[p] is the call      *)
(* stack of end p, innermost frame first, as in TCPSocket.  Frames are     *)
(* whole here: cutting them out of what recv returns is FrameParser's.     *)
(* The peer is an end of this code, so a frame is one the code sends.      *)
(***************************************************************************)
EXTENDS FlowWindow, Sequences, FiniteSets

CONSTANTS Ids,            \* bound: the stream ids in use
          SendSizes,      \* lengths the application sends
          MaxAccepted,    \* bound: units an end sends on a stream
          MaxNesting,     \* bound: callbacks within callbacks that still call
          ClientCalls,    \* which calls the client's application makes, see CallNames
          ServerCalls,    \* and the server's
          Breaks          \* whether the TCP connection may break at any time

CallNames == {"send", "close", "reset", "shutdown"}

ASSUME TunnelAssumption == /\ Ids \subseteq Nat \ {0}
                           /\ SendSizes \subseteq Nat \ {0}
                           /\ MaxAccepted \in Nat /\ MaxNesting \in Nat
                           /\ ClientCalls \subseteq CallNames /\ ServerCalls \subseteq CallNames
                           /\ Breaks \in BOOLEAN

VARIABLES streams,       \* m_streams of each end
          m_nextStreamId,
          connected,     \* whether an end's TCP socket is open
          wire,          \* frames an end has sent and its peer not handled
          stack,         \* the call stack of each end
          accepted,      \* ghost: units handed to sendToStream
          delivered      \* ghost: units handed to onData

vars == <<streams, m_nextStreamId, connected, wire, stack, accepted, delivered>>

Peers == {"client", "server"}
AppCalls(p) == IF p = "client" THEN ClientCalls ELSE ServerCalls
Other(p) == IF p = "client" THEN "server" ELSE "client"

(* pendingData holds buffers; a buffer is a range of the stream's units.   *)
Ranges == [first: Nat \ {0}, length: Nat \ {0}]

Stream == [sendWindow: Nat, recvWindow: Nat, unackedRecvBytes: Nat,
           localClosed: BOOLEAN, remoteClosed: BOOLEAN, pendingData: Seq(Ranges)]

NewStream == [sendWindow |-> InitialWindow, recvWindow |-> InitialWindow,
              unackedRecvBytes |-> 0, localClosed |-> FALSE, remoteClosed |-> FALSE,
              pendingData |-> << >>]

(* first is a ghost: which units of the stream a Data frame carries.       *)
Frame(type, flag, id, length, first) ==
    [type |-> type, flag |-> flag, id |-> id, length |-> length, first |-> first]
Syn(id) == Frame("WindowUpdate", "SYN", id, 0, 0)
Ack(id) == Frame("WindowUpdate", "ACK", id, 0, 0)
Update(id, delta) == Frame("WindowUpdate", "none", id, delta, 0)
Data(id, r) == Frame("Data", "none", id, r.length, r.first)
Fin(id, rst) == Frame("Data", IF rst THEN "RST" ELSE "FIN", id, 0, 0)
GoAway == Frame("GoAway", "none", 0, 0, 0)

Frames == [type: {"Data", "WindowUpdate", "GoAway"}, flag: {"none", "SYN", "ACK", "FIN", "RST"},
           id: Ids \cup {0}, length: Nat, first: Nat]

Callbacks == {"onData", "onClose", "onNewStream"}

Calls == [pc: Callbacks \cup {"ack", "erase"}, id: Ids]
         \cup [pc: {"consumed"}, id: Ids, length: Nat]
         \cup [pc: {"parse"}, left: Nat \ {0}]
         \cup [pc: {"closeAll"}, ids: SUBSET Ids]
         \cup [pc: {"closeTCP"}]

(* The types of the variables.                                           *)
TypeOK ==
    /\ \A p \in Peers : DOMAIN streams[p] \subseteq Ids
                        /\ \A id \in DOMAIN streams[p] : streams[p][id] \in Stream
    /\ m_nextStreamId \in [Peers -> Nat]
    /\ connected \in [Peers -> BOOLEAN]
    /\ wire \in [Peers -> Seq(Frames)]
    /\ stack \in [Peers -> Seq(Calls)]
    /\ accepted \in [Peers -> [Ids -> 0 .. MaxAccepted]]
    /\ delivered \in [Peers -> [Ids -> 0 .. MaxAccepted]]

Init == /\ streams = [p \in Peers |-> << >>]
        /\ m_nextStreamId = [p \in Peers |-> IF p = "client" THEN 1 ELSE 2]
        /\ connected = [p \in Peers |-> TRUE]
        /\ wire = [p \in Peers |-> << >>]
        /\ stack = [p \in Peers |-> << >>]
        /\ accepted = [p \in Peers |-> [id \in Ids |-> 0]]
        /\ delivered = [p \in Peers |-> [id \in Ids |-> 0]]

-----------------------------------------------------------------------------
Knows(p, id) == id \in DOMAIN streams[p]

Running(p, pc) == stack[p] # << >> /\ Head(stack[p]).pc = pc
Continue(p, calls) == stack' = [stack EXCEPT ![p] = calls \o Tail(@)]
Call(p, calls) == stack' = [stack EXCEPT ![p] = calls \o @]

With(s, id, r) == [i \in DOMAIN s \cup {id} |-> IF i = id THEN r ELSE s[i]]
Without(s, id) == [i \in DOMAIN s \ {id} |-> s[i]]
Store(p, id, r) == streams' = [streams EXCEPT ![p] = With(@, id, r)]

(* sendFrame: what a closed socket is given is lost.                       *)
Sending(w, p, frames) == IF connected[p] THEN [w EXCEPT ![p] = @ \o frames] ELSE w
SendFrames(p, frames) == wire' = Sending(wire, p, frames)

(* The handler of a received frame takes it off and answers with frames.   *)
Answer(p, frames) == wire' = Sending([wire EXCEPT ![Other(p)] = Tail(@)], p, frames)

-----------------------------------------------------------------------------
(* What sendToStream and processPending do with a stream s and its queue q *)
(* of ranges: send from the front as far as the window goes, cutting a     *)
(* range that does not fit.  Only the last frame may be a cut one.         *)

First(q, k) == SubSeq(q, 1, k)

(* The lengths of the first i buffers of q, or frames, together.           *)
Sums(q) == LET sum[i \in 0 .. Len(q)] == IF i = 0 THEN 0 ELSE sum[i - 1] + q[i].length
           IN  sum
LengthOf(q) == Sums(q)[Len(q)]

RestUnmoved(r, k) == [first |-> r.first, length |-> r.length - k]   \* wrong: no memmove
RestUncut(r, k) == [first |-> r.first + k, length |-> r.length]     \* wrong: len stays

Cut(r, k) == [first |-> r.first, length |-> k]
Rest(r, k) == [first |-> r.first + k, length |-> r.length - k]

(* The whole ranges at the front of q that window units suffice for.       *)
Whole(q, window) == CHOOSE k \in 0 .. Len(q) :
                        /\ LengthOf(First(q, k)) <= window
                        /\ k = Len(q) \/ LengthOf(First(q, k + 1)) > window

SentFrom(q, window) ==
    LET k == Whole(q, window)
        room == window - LengthOf(First(q, k))
    IN  IF k < Len(q) /\ room > 0 THEN Append(First(q, k), Cut(q[k + 1], room))
                                  ELSE First(q, k)

KeptFrom(q, window) ==
    LET k == Whole(q, window)
        room == window - LengthOf(First(q, k))
    IN  IF k < Len(q) THEN <<Rest(q[k + 1], room)>> \o SubSeq(q, k + 2, Len(q)) ELSE << >>

(* Stream id of end p with record s gets rid of what it can of queue q.    *)
DataFrames(id, q) == [i \in DOMAIN q |-> Data(id, q[i])]
Flushed(s, q) == [s EXCEPT !.sendWindow = @ - LengthOf(SentFrom(q, @)),
                           !.pendingData = KeptFrom(q, s.sendWindow)]

-----------------------------------------------------------------------------
(* The calls of the application, from a callback or from outside.          *)

CallbacksRunning(p) == SelectSeq(stack[p], LAMBDA c : c.pc \in Callbacks)

InApplication(p) == \/ stack[p] = << >> /\ connected[p]
                    \/ stack[p] # << >> /\ Head(stack[p]).pc \in Callbacks
MayCall(p) == InApplication(p) /\ Len(CallbacksRunning(p)) <= MaxNesting

AppReturns(p) == /\ stack[p] # << >> /\ Head(stack[p]).pc \in Callbacks
                 /\ Continue(p, << >>)
                 /\ UNCHANGED <<streams, m_nextStreamId, connected, wire, accepted, delivered>>

OpenStream(p) ==
    LET id == m_nextStreamId[p]
    IN  /\ MayCall(p)
        /\ id \in Ids
        /\ m_nextStreamId' = [m_nextStreamId EXCEPT ![p] = @ + 2]
        /\ Store(p, id, NewStream)
        /\ SendFrames(p, <<Syn(id)>>)
        /\ UNCHANGED <<connected, stack, accepted, delivered>>

SendToStream(p, id, n) ==
    /\ MayCall(p) /\ "send" \in AppCalls(p)
    /\ Knows(p, id) /\ ~streams[p][id].localClosed
    /\ accepted[p][id] + n <= MaxAccepted
    /\ accepted' = [accepted EXCEPT ![p][id] = @ + n]
    /\ LET s == streams[p][id]
           r == [first |-> accepted[p][id] + 1, length |-> n]
       IN  IF s.sendWindow = 0
           THEN /\ Store(p, id, [s EXCEPT !.pendingData = Append(@, r)])
                /\ UNCHANGED wire
           ELSE LET k == IF n < s.sendWindow THEN n ELSE s.sendWindow
                IN  /\ SendFrames(p, <<Data(id, Cut(r, k))>>)
                    /\ Store(p, id, [s EXCEPT
                            !.sendWindow = @ - k,
                            !.pendingData = IF k < n THEN Append(@, Rest(r, k)) ELSE @])
    /\ UNCHANGED <<m_nextStreamId, connected, stack, delivered>>

(* closeStream on a stream that is not closed here: FIN or RST goes out at *)
(* once, whatever is pending; a stream the peer closed before is dropped.  *)
Closed(s) == [s EXCEPT !.localClosed = TRUE]
AfterClose(s, id) == IF s.remoteClosed THEN <<[pc |-> "onClose", id |-> id],
                                              [pc |-> "erase", id |-> id]>>
                                       ELSE << >>

CloseStream(p, id, rst) ==
    /\ MayCall(p) /\ (IF rst THEN "reset" ELSE "close") \in AppCalls(p)
    /\ Knows(p, id) /\ ~streams[p][id].localClosed
    /\ Store(p, id, Closed(streams[p][id]))
    /\ SendFrames(p, <<Fin(id, rst)>>)
    /\ Call(p, AfterClose(streams[p][id], id))
    /\ UNCHANGED <<m_nextStreamId, connected, accepted, delivered>>

Erase(p) == /\ Running(p, "erase")
            /\ Knows(p, Head(stack[p]).id)
            /\ streams' = [streams EXCEPT ![p] = Without(@, Head(stack[p]).id)]
            /\ Continue(p, << >>)
            /\ UNCHANGED <<m_nextStreamId, connected, wire, accepted, delivered>>

(* onClose called closeStream or shutdown, which erased the stream: erasing *)
(* it again is undefined.  The process goes on, or it dies.                *)
EraseAgain(p) == /\ Running(p, "erase")
                 /\ ~Knows(p, Head(stack[p]).id)
                 /\ \/ Continue(p, << >>) /\ UNCHANGED connected
                    \/ /\ stack' = [stack EXCEPT ![p] = << >>]
                       /\ connected' = [connected EXCEPT ![p] = FALSE]
                 /\ UNCHANGED <<streams, m_nextStreamId, wire, accepted, delivered>>

(* shutdown, and handleGoAwayFrame: every stream's onClose, then close.    *)
EndSession(p) == <<[pc |-> "closeAll", ids |-> DOMAIN streams[p]], [pc |-> "closeTCP"]>>

Shutdown(p) == /\ MayCall(p) /\ "shutdown" \in AppCalls(p)
               /\ SendFrames(p, <<GoAway>>)
               /\ Call(p, EndSession(p))
               /\ UNCHANGED <<streams, m_nextStreamId, connected, accepted, delivered>>

(* The loop over the ids collected before; the map's order is any order.   *)
CloseAll(p) ==
    /\ Running(p, "closeAll")
    /\ LET ids == Head(stack[p]).ids
       IN  \/ /\ ids = {}
              /\ Continue(p, << >>)
           \/ \E id \in ids :
                 Continue(p, (IF Knows(p, id) THEN <<[pc |-> "onClose", id |-> id],
                                                     [pc |-> "erase", id |-> id]>>
                                              ELSE << >>)
                             \o <<[pc |-> "closeAll", ids |-> ids \ {id}]>>)
    /\ UNCHANGED <<streams, m_nextStreamId, connected, wire, accepted, delivered>>

CloseTCP(p) == /\ Running(p, "closeTCP")
               /\ connected' = [connected EXCEPT ![p] = FALSE]
               /\ Continue(p, << >>)
               /\ UNCHANGED <<streams, m_nextStreamId, wire, accepted, delivered>>

-----------------------------------------------------------------------------
(* onReceiveData: what one recv returned holds some of the frames under    *)
(* way.  The parser handles them one by one and does not look whether a    *)
(* handler closed the connection.                                          *)
Receive(p) ==
    /\ stack[p] = << >> /\ connected[p]
    /\ \E n \in 1 .. Len(wire[Other(p)]) : Call(p, <<[pc |-> "parse", left |-> n]>>)
    /\ UNCHANGED <<streams, m_nextStreamId, connected, wire, accepted, delivered>>

(* processFrame: handle the first frame, which makes calls, and go on.     *)
NextFrame(p) == Head(wire[Other(p)])
Handled(p, calls) ==
    LET left == Head(stack[p]).left
    IN  Continue(p, calls \o IF left > 1 THEN <<[pc |-> "parse", left |-> left - 1]>> ELSE << >>)

(* A frame of a stream that is unknown, or closed by the peer before, and  *)
(* a frame that only says that a stream was accepted: nothing is done.     *)
HandleIgnored(p) ==
    LET f == NextFrame(p)
    IN  /\ Running(p, "parse")
        /\ \/ f.type = "Data" /\ ~Knows(p, f.id)
           \/ f.type = "Data" /\ Knows(p, f.id) /\ streams[p][f.id].remoteClosed
           \/ f.type = "WindowUpdate" /\ ~Knows(p, f.id) /\ f.flag # "SYN"
           \/ f.type = "WindowUpdate" /\ Knows(p, f.id) /\ f.length = 0
        /\ Answer(p, << >>)
        /\ Handled(p, << >>)
        /\ UNCHANGED <<streams, m_nextStreamId, connected, accepted, delivered>>

(* handleNewStream: the ACK follows the application's onNewStream.         *)
HandleSyn(p) ==
    LET f == NextFrame(p)
    IN  /\ Running(p, "parse")
        /\ f.type = "WindowUpdate" /\ f.flag = "SYN" /\ ~Knows(p, f.id)
        /\ Store(p, f.id, NewStream)
        /\ Answer(p, << >>)
        /\ Handled(p, <<[pc |-> "onNewStream", id |-> f.id], [pc |-> "ack", id |-> f.id]>>)
        /\ UNCHANGED <<m_nextStreamId, connected, accepted, delivered>>

SendAck(p) == /\ Running(p, "ack")
              /\ SendFrames(p, <<Ack(Head(stack[p]).id)>>)
              /\ Continue(p, << >>)
              /\ UNCHANGED <<streams, m_nextStreamId, connected, accepted, delivered>>

(* handleDataFrame with a payload: more than the window resets the stream. *)
(* That the parser ends the session at a frame above 128 KiB, which one    *)
(* call of sendToStream can make, is in FrameParser, not here.             *)
HandleData(p) ==
    LET f == NextFrame(p)
        s == streams[p][f.id]
    IN  /\ Running(p, "parse")
        /\ f.type = "Data" /\ f.length > 0 /\ Knows(p, f.id) /\ ~s.remoteClosed
        /\ IF f.length > s.recvWindow
           THEN IF s.localClosed
                THEN Answer(p, << >>) /\ Handled(p, << >>) /\ UNCHANGED <<streams, delivered>>
                ELSE /\ Store(p, f.id, Closed(s))
                     /\ Answer(p, <<Fin(f.id, TRUE)>>)
                     /\ Handled(p, << >>)
                     /\ UNCHANGED delivered
           ELSE /\ Store(p, f.id, [s EXCEPT !.recvWindow = @ - f.length])
                /\ delivered' = [delivered EXCEPT ![p][f.id] = @ + f.length]
                /\ Answer(p, << >>)
                /\ Handled(p, <<[pc |-> "onData", id |-> f.id],
                                [pc |-> "consumed", id |-> f.id, length |-> f.length]>>)
        /\ UNCHANGED <<m_nextStreamId, connected, accepted>>

(* Wrong: above the threshold only; credit that the window misses.         *)
UpdateAbove(p) ==
    LET c == Head(stack[p])
        s == streams[p][c.id]
        delta == s.unackedRecvBytes + c.length
    IN  /\ Running(p, "consumed")
        /\ Knows(p, c.id)
        /\ IF delta > Threshold
           THEN /\ Store(p, c.id, [s EXCEPT !.unackedRecvBytes = 0, !.recvWindow = @ + delta])
                /\ SendFrames(p, <<Update(c.id, delta)>>)
           ELSE Store(p, c.id, [s EXCEPT !.unackedRecvBytes = delta]) /\ UNCHANGED wire
        /\ Continue(p, << >>)
        /\ UNCHANGED <<m_nextStreamId, connected, accepted, delivered>>

UpdateUnrecorded(p) ==
    LET c == Head(stack[p])
        s == streams[p][c.id]
    IN  /\ Running(p, "consumed")
        /\ Knows(p, c.id)
        /\ SendFrames(p, <<Update(c.id, c.length)>>)
        /\ Continue(p, << >>)
        /\ UNCHANGED <<streams, m_nextStreamId, connected, accepted, delivered>>

(* trySendWindowUpdate, after onData.                                      *)
TrySendWindowUpdate(p) ==
    LET c == Head(stack[p])
        s == streams[p][c.id]
        delta == s.unackedRecvBytes + c.length
    IN  /\ Running(p, "consumed")
        /\ \/ /\ ~Knows(p, c.id)
              /\ UNCHANGED <<streams, wire>>
           \/ /\ Knows(p, c.id) /\ delta < Threshold
              /\ Store(p, c.id, [s EXCEPT !.unackedRecvBytes = delta])
              /\ UNCHANGED wire
           \/ /\ Knows(p, c.id) /\ delta >= Threshold
              /\ Store(p, c.id, [s EXCEPT !.unackedRecvBytes = 0, !.recvWindow = @ + delta])
              /\ SendFrames(p, <<Update(c.id, delta)>>)
        /\ Continue(p, << >>)
        /\ UNCHANGED <<m_nextStreamId, connected, accepted, delivered>>

FinUnlessClosed(p) ==   \* wrong: not noted on a stream that is closed here
    LET f == NextFrame(p)
        s == streams[p][f.id]
    IN  /\ Running(p, "parse")
        /\ f.type = "Data" /\ f.flag \in {"FIN", "RST"} /\ Knows(p, f.id) /\ ~s.remoteClosed
        /\ Store(p, f.id, [s EXCEPT !.remoteClosed = ~s.localClosed])
        /\ Answer(p, << >>)
        /\ Handled(p, IF s.localClosed THEN << >> ELSE <<[pc |-> "onClose", id |-> f.id]>>)
        /\ UNCHANGED <<m_nextStreamId, connected, accepted, delivered>>

(* handleDataFrame with FIN or RST.                                        *)
HandleFin(p) ==
    LET f == NextFrame(p)
        s == streams[p][f.id]
    IN  /\ Running(p, "parse")
        /\ f.type = "Data" /\ f.flag \in {"FIN", "RST"} /\ Knows(p, f.id) /\ ~s.remoteClosed
        /\ Store(p, f.id, [s EXCEPT !.remoteClosed = TRUE])
        /\ Answer(p, << >>)
        /\ Handled(p, IF s.localClosed THEN << >> ELSE <<[pc |-> "onClose", id |-> f.id]>>)
        /\ UNCHANGED <<m_nextStreamId, connected, accepted, delivered>>

UpdateWithoutPending(p) ==   \* wrong: no processPending
    LET f == NextFrame(p)
    IN  /\ Running(p, "parse")
        /\ f.type = "WindowUpdate" /\ f.length > 0 /\ Knows(p, f.id)
        /\ Store(p, f.id, [streams[p][f.id] EXCEPT !.sendWindow = @ + f.length])
        /\ Answer(p, << >>)
        /\ Handled(p, << >>)
        /\ UNCHANGED <<m_nextStreamId, connected, accepted, delivered>>

(* handleWindowUpdateFrame with a delta, and processPending.               *)
HandleUpdate(p) ==
    LET f == NextFrame(p)
        s == [streams[p][f.id] EXCEPT !.sendWindow = @ + f.length]
    IN  /\ Running(p, "parse")
        /\ f.type = "WindowUpdate" /\ f.length > 0 /\ Knows(p, f.id)
        /\ Store(p, f.id, Flushed(s, s.pendingData))
        /\ Answer(p, DataFrames(f.id, SentFrom(s.pendingData, s.sendWindow)))
        /\ Handled(p, << >>)
        /\ UNCHANGED <<m_nextStreamId, connected, accepted, delivered>>

HandleGoAway(p) ==
    /\ Running(p, "parse")
    /\ NextFrame(p).type = "GoAway"
    /\ Answer(p, << >>)
    /\ Handled(p, EndSession(p))
    /\ UNCHANGED <<streams, m_nextStreamId, connected, accepted, delivered>>

(* The TCP connection ends: its peer's socket is closed, or it breaks.     *)
(* MultiplexedTunnel does not override onClose, so no stream hears of it.  *)
ConnectionEnds(p) ==
    /\ stack[p] = << >> /\ connected[p]
    /\ ~connected[Other(p)] \/ Breaks
    /\ connected' = [connected EXCEPT ![p] = FALSE]
    /\ UNCHANGED <<streams, m_nextStreamId, wire, stack, accepted, delivered>>

-----------------------------------------------------------------------------
HandlerStep(p) == \/ Receive(p) \/ HandleIgnored(p) \/ HandleSyn(p) \/ SendAck(p)
                  \/ HandleData(p) \/ TrySendWindowUpdate(p) \/ HandleFin(p)
                  \/ HandleUpdate(p) \/ HandleGoAway(p)
                  \/ Erase(p) \/ EraseAgain(p) \/ CloseAll(p) \/ CloseTCP(p)

Application(p) == \/ OpenStream(p) \/ Shutdown(p)
                  \/ \E id \in Ids : \/ \E n \in SendSizes : SendToStream(p, id, n)
                                     \/ \E rst \in BOOLEAN : CloseStream(p, id, rst)

Next == \E p \in Peers : HandlerStep(p) \/ AppReturns(p) \/ Application(p) \/ ConnectionEnds(p)

Spec == Init /\ [][Next]_vars

(* Both threads run on, and callbacks return.                              *)
FairSpec == Spec /\ \A p \in Peers : WF_vars(HandlerStep(p)) /\ WF_vars(AppReturns(p))

-----------------------------------------------------------------------------
(* The frames of w that belong to a set, in their order.                   *)
Picks(w, set) ==
    LET picked[i \in 0 .. Len(w)] ==
            IF i = 0 THEN << >>
            ELSE IF w[i] \in set THEN Append(picked[i - 1], w[i]) ELSE picked[i - 1]
    IN  picked
Pick(w, set) == Picks(w, set)[Len(w)]

OfType(id, type) == {f \in Frames : f.id = id /\ f.type = type}
OnWire(p, id, type) == Pick(wire[p], OfType(id, type))
InFlight(p, id, type) == LengthOf(OnWire(p, id, type))
Opening(p, id) == \E i \in DOMAIN wire[p] : wire[p][i] = Syn(id)

(* Direction p -> Other(p) of stream id carries data: both ends are up,    *)
(* the sender has not closed it and the receiver has or will have it.      *)
Flowing(p, id) == /\ connected[p] /\ connected[Other(p)]
                  /\ Knows(p, id) /\ ~streams[p][id].localClosed
                  /\ Knows(Other(p), id) \/ Opening(p, id)

RecvWindow(p, id) == IF Knows(p, id) THEN streams[p][id].recvWindow ELSE InitialWindow

(* Credit is neither lost nor made: what the sender may still send, what   *)
(* is under way and the updates coming back add up to the receiver's       *)
(* window, so the receiver never resets a stream for overrunning it.       *)
CreditConserved ==
    \A p \in Peers, id \in Ids : Flowing(p, id) =>
        streams[p][id].sendWindow + InFlight(p, id, "Data")
            + InFlight(Other(p), id, "WindowUpdate") = RecvWindow(Other(p), id)

(* Data waits for credit only while credit is on its way, or the data that *)
(* will bring it: the two ends never wait for each other.                  *)
CreditOnItsWay ==
    \A p \in Peers, id \in Ids :
        Flowing(p, id) /\ streams[p][id].pendingData # << >> =>
            /\ streams[p][id].sendWindow = 0
            /\ \/ InFlight(p, id, "Data") > 0
               \/ InFlight(Other(p), id, "WindowUpdate") > 0
               \/ \E i \in DOMAIN stack[Other(p)] :
                     LET c == stack[Other(p)][i] IN c.pc = "consumed" /\ c.id = id

(* Nothing is lost, doubled or overtaken: the units that were accepted and *)
(* not delivered are those on the wire followed by those pending.          *)
NothingLost ==
    \A p \in Peers, id \in Ids : Flowing(p, id) =>
        LET left == OnWire(p, id, "Data") \o streams[p][id].pendingData
            before(i) == delivered[Other(p)][id] + LengthOf(First(left, i))
        IN  /\ \A i \in DOMAIN left : left[i].first = before(i - 1) + 1
            /\ before(Len(left)) = accepted[p][id]

(* Both ends together keep the promises of StreamFlow, for each direction  *)
(* while it carries data.                                                  *)
Counter(c(_, _)) == [f \in Peers \X Ids |-> IF Flowing(f[1], f[2]) THEN c(f[1], f[2]) ELSE 0]

Given(p, id) == accepted[p][id]
Sent(p, id) == accepted[p][id] - LengthOf(streams[p][id].pendingData)
Delivered(p, id) == delivered[Other(p)][id]
Credited(p, id) == RecvWindow(Other(p), id) + Delivered(p, id) - InitialWindow
Learned(p, id) == streams[p][id].sendWindow + Sent(p, id) - InitialWindow

Flows == INSTANCE StreamFlow WITH Flow <- Peers \X Ids, Units <- 0 .. MaxAccepted,
             given <- Counter(Given), delivered <- Counter(Delivered),
             credited <- Counter(Credited), learned <- Counter(Learned), sent <- Counter(Sent)

ImplementsStreamFlow == Flows!Spec

(* Even when a stream is closed or the session ends, what onData gets is a *)
(* prefix of what the peer sent, without a gap.                            *)
DeliveredInOrder ==
    [][\A p \in Peers, id \in Ids : delivered'[p][id] # delivered[p][id]
          => NextFrame(p).first = delivered[p][id] + 1]_vars

(* Whatever was accepted arrives, or the stream or the session ends.       *)
AllArrives ==
    \A p \in Peers, id \in Ids :
        Flowing(p, id) /\ delivered[Other(p)][id] < accepted[p][id]
            ~> ~Flowing(p, id) \/ delivered[Other(p)][id] = accepted[p][id]

(* The peer of an end that closed a stream hears of it, or the session     *)
(* ends.                                                                   *)
CloseIsHeard ==
    \A p \in Peers, id \in Ids :
        Knows(p, id) /\ streams[p][id].localClosed
            ~> \/ ~Knows(p, id) \/ ~connected[p] \/ ~connected[Other(p)]
               \/ ~Opening(p, id)
                  /\ (Knows(Other(p), id) => streams[Other(p)][id].remoteClosed)

=============================================================================
