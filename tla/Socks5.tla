-------------------------------- MODULE Socks5 --------------------------------
(***************************************************************************)
(* A SOCKS5 client, the target it asks for, and between them a program     *)
(* with a socket to each: a Socks5Proxy (Socks5Proxy.tla), or a forwarder  *)
(* and a stream handler at the two ends of a tunnel (Socks5Tunnel.tla).    *)
(* Here are the events of the reactor, which end in the callbacks of the   *)
(* program, and what the network and the peers may do.                     *)
(*                                                                         *)
(* The client sends two units of greeting, two of request, then data, at   *)
(* any time and in any pieces; the target sends data.                      *)
(***************************************************************************)
EXTENDS Socks5Proxy, Socks5Tunnel

VARIABLES obj,       \* the objects of the program
          sentUp, sentDown,   \* units the client and the target have sent
          orphan,    \* the client left while its target was looked up
          reused     \* the connector has the number the acceptor had

vars == <<obj, sentUp, sentDown, orphan, reused>>

Clients == {"good", "oldVersion", "noAuthRefused", "badRequest"}
Handshake == <<"greeting", "methods", "request", "address">>
ClientScript == Handshake \o <<"a", "b", "c">>   \* bound: three units of data
TargetScript == <<"x", "y">>                     \* bound: two units of data
Payload == {"a", "b", "c", "x", "y"}             \* the data of both, without the handshake
DataIn(units) ==
    FlattenSeq([i \in DOMAIN units |-> IF units[i] \in Payload THEN <<units[i]>> ELSE << >>])

Init == /\ obj \in {Proxy(kind) : kind \in Clients} \cup {Forwarding(kind) : kind \in Clients}
        /\ sentUp = 0 /\ sentDown = 0
        /\ orphan = FALSE /\ reused = FALSE

-----------------------------------------------------------------------------
(* What the events end in, for each of the programs.                       *)
IsProxy == obj.program = "proxy"
After(w, side, s) == IF IsProxy THEN With(w, side, s) ELSE Update(w, side, s)
Asks(w) == IF IsProxy THEN LookingUp(w) ELSE HandlerLooksUp(w)
HeardOfEnd(w) == IF IsProxy THEN w.acceptor.fd = "closed" ELSE w.far.remoteClosed
Received(w, side, data, result) ==
    CASE IsProxy /\ side = "acceptor" -> OnAcceptorReceiveData(w, data, result)
      [] IsProxy /\ side = "connector" -> OnConnectorReceiveData(w, data)
      [] ~IsProxy /\ side = "acceptor" -> OnReceiveData(w, data)
      [] OTHER -> SendToStream(w, "far", data)

(* A proxy's connector that opens its descriptor when the acceptor has     *)
(* closed may be given that number, unless another socket has taken it.    *)
MayReuse(w) ==
    /\ IsProxy /\ w.acceptor.fd = "closed"
    /\ obj.connector.fd = "none" /\ IsOpen(w.connector)

Becomes(w) == /\ obj' = w
              /\ orphan' = (orphan \/ (HeardOfEnd(w) /\ Asks(w)))
              /\ reused' \in (IF MayReuse(w) THEN BOOLEAN ELSE {reused})
              /\ UNCHANGED <<sentUp, sentDown>>

(* onReadable hands on what has arrived so far.                            *)
ReadChunk(side) ==
    /\ MayRead(obj[side])
    /\ \E n \in 1 .. Len(obj[side].inbox), result \in ConnectResults :
          Becomes(Received([obj EXCEPT ![side] = Read(@, n)], side,
                           SubSeq(obj[side].inbox, 1, n), result))

WritableEvent(side) ==
    /\ Writable(obj[side])
    /\ LET w == After(obj, side, OnWritable(obj[side]))
       IN  Becomes(IF ResumesReading(w[side])
                   THEN After(w, side, [w[side] EXCEPT !.readPaused = FALSE]) ELSE w)

FinishedEvent(side) ==
    Finished(obj[side]) /\ Becomes(After(obj, side, OnFinished(obj[side])))

(* EPOLLERR is looked at before anything else, so a connection the target  *)
(* refuses is closed and OnConnectFailed is not called.                    *)
FailureEvent(side) ==
    Failing(obj[side]) /\ Becomes(After(obj, side, Close(obj[side], TRUE)))

LookupAnswered ==
    /\ Asks(obj)
    /\ \/ Becomes([obj EXCEPT !.connector.fd = "open"])
       \/ LET failed == [obj EXCEPT !.connector.status = "Closed"]
          IN  Becomes(IF IsProxy THEN OnConnectFailed(failed) ELSE ConnectFailed(failed))

HandshakeDone ==
    /\ InHandshake(obj.connector)
    /\ LET connected == [obj EXCEPT !.connector.status = "Connected"]
       IN  Becomes(IF IsProxy THEN OnConnected(connected, reused)
                   ELSE ConnectorConnected(connected))

FrameArrives(end) ==
    /\ ~IsProxy /\ (IF end = "near" THEN obj.down ELSE obj.up) # << >>
    /\ \E result \in ConnectResults : Becomes(HandleFrame(obj, end, result))

-----------------------------------------------------------------------------
PeerStep(side, s) == obj' = [obj EXCEPT ![side] = s] /\ UNCHANGED <<orphan, reused>>

ClientSends ==
    /\ PeerMaySend(obj.acceptor) /\ sentUp < Len(ClientScript)
    /\ PeerStep("acceptor", Arrived(obj.acceptor, <<ClientScript[sentUp + 1]>>))
    /\ sentUp' = sentUp + 1 /\ UNCHANGED sentDown

TargetSends ==
    /\ PeerMaySend(obj.connector) /\ sentDown < Len(TargetScript)
    /\ PeerStep("connector", Arrived(obj.connector, <<TargetScript[sentDown + 1]>>))
    /\ sentDown' = sentDown + 1 /\ UNCHANGED sentUp

PeerTakes(side) == /\ PeerMayTake(obj[side]) /\ PeerStep(side, Taken(obj[side]))
                   /\ UNCHANGED <<sentUp, sentDown>>
PeerFinishes(side) == /\ PeerMaySend(obj[side]) /\ PeerStep(side, PeerFinished(obj[side]))
                      /\ UNCHANGED <<sentUp, sentDown>>
PeerFails(side) == /\ Connection(obj[side]) \/ InHandshake(obj[side])
                   /\ PeerStep(side, PeerReset(obj[side]))
                   /\ UNCHANGED <<sentUp, sentDown>>

Next == \/ ClientSends \/ TargetSends \/ LookupAnswered \/ HandshakeDone
        \/ \E end \in {"near", "far"} : FrameArrives(end)
        \/ \E side \in Sides :
              \/ ReadChunk(side) \/ WritableEvent(side)
              \/ FinishedEvent(side) \/ FailureEvent(side)
              \/ PeerTakes(side) \/ PeerFinishes(side) \/ PeerFails(side)

Spec == Init /\ [][Next]_vars

-----------------------------------------------------------------------------
SocketSound(s) == s.status \in {"Ready", "Connecting", "Connected"} /\ ~s.reset
Sound == /\ SocketSound(obj.acceptor) /\ SocketSound(obj.connector) /\ obj.state # "Error"
         /\ ~IsProxy => \A end \in {"near", "far"} : ~obj[end].localClosed /\ ~obj[end].remoteClosed
BetweenUp == IF IsProxy THEN obj.connectorBuffer ELSE DataIn(DataOf(obj.up))
BetweenDown == IF IsProxy THEN << >> ELSE DataIn(DataOf(obj.down))

(* What each side sent reaches the other whole and in order, whatever the  *)
(* pieces it came in and whether it came before the target was connected   *)
(* (m_connectorBuffer, clsSocks5Proxy.h:401; m_clientBuffer,               *)
(* Socks5LocalForwarder.h:181): as long as nobody has closed, each unit is *)
(* with the peer, queued, buffered, in the stream or unread, once.  The    *)
(* target gets the client's data and nothing else, but for the reply to a  *)
(* client that has left its number to the target (clsSocks5Proxy.h:160).   *)
RelayedInOrder ==
    /\ IsPrefix(IF reused THEN DataIn(obj.connector.got) ELSE obj.connector.got,
                DataIn(ClientScript))
    /\ IsPrefix(DataIn(obj.acceptor.got), TargetScript)
    /\ Sound =>
          /\ obj.connector.got \o Queued(obj.connector) \o BetweenUp
                \o DataIn(obj.clientBuffer \o obj.acceptor.inbox)
                = DataIn(SubSeq(ClientScript, 1, sentUp))
          /\ DataIn(obj.acceptor.got \o Queued(obj.acceptor)) \o BetweenDown \o obj.connector.inbox
                = SubSeq(TargetScript, 1, sentDown)

(* Reading that was stopped for a full queue starts again: only a queue    *)
(* that drains resumes it (clsTCPSocket.cpp:771), a proxy's socket has the *)
(* other paused with it (clsSocks5Proxy.h:225), and so long as one is      *)
(* paused, one of the two still has data to drain.  The sockets of a       *)
(* tunnel are in two programs, and each is paused for its own queue.       *)
PausedForCause ==
    \A side \in Sides : IsOpen(obj[side]) /\ obj[side].readPaused =>
        \E o \in (IF IsProxy THEN Sides ELSE {side}) :
            IsOpen(obj[o]) /\ obj[o].writeQueue # << >>

(* Neither connection outlives the other (clsSocks5Proxy.h:139, 177;       *)
(* Socks5LocalForwarder.h:67, 192; Socks5StreamHandler.h:152, 158), in     *)
(* whatever order they fail, finish and drain: where one has closed, the   *)
(* other has too, or maintenance() will find it Closing, or the frame that *)
(* closes it is on its way.  Except that a target being looked up when the *)
(* client leaves is connected all the same (clsTCPSocket.cpp:222).         *)
EndTogether ==
    \A side \in Sides :
        obj[side].fd = "closed" /\ IsOpen(obj[Other(side)]) =>
            \/ Failing(obj[Other(side)]) \/ orphan
            \/ ~IsProxy /\ Ended(IF side = "acceptor" THEN obj.up ELSE obj.down)

=============================================================================
