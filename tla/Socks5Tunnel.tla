---------------------------- MODULE Socks5Tunnel ----------------------------
(***************************************************************************)
(* src/Socks5LocalForwarder.h and src/Socks5StreamHandler.h: the client's  *)
(* connection (acceptor) at the near end of a tunnel, the target's         *)
(* (connector) at the far end, and a stream between them.  As in           *)
(* Socks5Proxy, a handler is one function over all of it.                  *)
(*                                                                         *)
(* The tunnel is what Tunnel.tla shows it to be: frames arrive as sent, in *)
(* order.  Its TCP connection stands and the windows of the stream are not *)
(* used up.                                                                *)
(***************************************************************************)
EXTENDS Endpoint

NoStream == [known |-> FALSE, localClosed |-> FALSE, remoteClosed |-> FALSE]
OpenStream == [NoStream EXCEPT !.known = TRUE]

Forwarding(kind) ==
    [program |-> "tunnel", client |-> kind, acceptor |-> AcceptedSocket, connector |-> ReadySocket,
     (* the forwarder: *)
     state |-> "Greeting", clientBuffer |-> << >>, hasStreamId |-> FALSE,
     (* the stream handler: *)
     handler |-> "none", buffer |-> << >>,
     (* the stream, at each end, and the frames each end has sent: *)
     near |-> NoStream, far |-> NoStream, up |-> << >>, down |-> << >>]

Frame(kind, data) == [kind |-> kind, data |-> data]
DataOf(frames) == FlattenSeq([i \in DOMAIN frames |-> frames[i].data])
Ended(frames) == \E i \in DOMAIN frames : frames[i].kind \in {"FIN", "RST"}

-----------------------------------------------------------------------------
Put(w, end, frame) == IF end = "near" THEN [w EXCEPT !.up = Append(@, frame)]
                      ELSE [w EXCEPT !.down = Append(@, frame)]

SendToStream(w, end, data) ==
    IF data # << >> /\ w[end].known /\ ~w[end].localClosed
    THEN Put(w, end, Frame("Data", data)) ELSE w

(* closeStream.  An end whose peer has closed too calls onClose and        *)
(* forgets the stream.  onClose closes the socket of that end, which calls *)
(* closeStream again, now without effect.                                  *)
CloseStream(w, end, rst) ==
    LET closed == Put([w EXCEPT ![end].localClosed = TRUE], end,
                      Frame(IF rst THEN "RST" ELSE "FIN", << >>))
        socket == IF end = "near" THEN "acceptor" ELSE "connector"
        forgotten == [closed EXCEPT ![socket] = Close(@, TRUE), ![end].known = FALSE,
                                    !.hasStreamId = @ /\ end # "near"]
    IN  IF ~w[end].known \/ w[end].localClosed THEN w
        ELSE IF w[end].remoteClosed THEN forgotten ELSE closed

(* The callbacks of what has become of a socket: closed, it closes the     *)
(* stream, the near end by RST and the far end by FIN.                     *)
Update(w, side, s) ==
    LET updated == [w EXCEPT ![side] = s]
        end == IF side = "acceptor" THEN "near" ELSE "far"
    IN  IF s.status = "Closed" /\ w[side].fd = "open" /\ (side = "connector" \/ w.hasStreamId)
        THEN CloseStream(updated, end, side = "acceptor") ELSE updated

Sending(w, side, data) == Update(w, side, Send(w[side], data))

-----------------------------------------------------------------------------
(* The forwarder.                                                          *)
Reject(w, reply) ==   \* SendErrorReply
    LET replied == [Sending(w, "acceptor", reply) EXCEPT !.state = "Error"]
    IN  Update(replied, "acceptor", Close(replied.acceptor, TRUE))

ForwarderGreeting(w) ==
    LET taken == [w EXCEPT !.clientBuffer = Rest(@, 2)]
    IN  CASE Len(w.clientBuffer) < 2 \/ w.client = "oldVersion" -> w
          [] Len(w.clientBuffer) >= 2 /\ w.client = "noAuthRefused" -> Reject(taken, <<"noMethod">>)
          [] OTHER -> [Sending(taken, "acceptor", <<"method">>) EXCEPT !.state = "Request"]

ForwarderRequest(w) ==
    LET request == SubSeq(w.clientBuffer, 1, 2)
        opened == Put([w EXCEPT !.clientBuffer = Rest(@, 2), !.state = "Connecting",
                                !.hasStreamId = TRUE, !.near = OpenStream],
                      "near", Frame("SYN", << >>))
    IN  CASE Len(w.clientBuffer) < 2 -> w
          [] Len(w.clientBuffer) >= 2 /\ w.client = "badRequest" -> Reject(w, <<"error">>)
          [] OTHER -> SendToStream(opened, "near", request)

ForwardToStream(w) ==
    [(IF w.hasStreamId THEN SendToStream(w, "near", w.clientBuffer) ELSE w)
        EXCEPT !.clientBuffer = << >>]

ForwardsAtOnce(w) ==   \* wrong: without waiting for the reply
    CASE w.clientBuffer # << >> /\ w.state = "Greeting" -> ForwarderGreeting(w)
      [] w.clientBuffer # << >> /\ w.state = "Request" -> ForwarderRequest(w)
      [] w.clientBuffer # << >> /\ w.state \in {"Connecting", "Connected"} -> ForwardToStream(w)
      [] OTHER -> w

(* One turn of the loop of onReceiveData; what comes while the stream is   *)
(* Connecting stays in clientBuffer.                                       *)
ForwarderTurn(w) ==
    CASE w.clientBuffer # << >> /\ w.state = "Greeting" -> ForwarderGreeting(w)
      [] w.clientBuffer # << >> /\ w.state = "Request" -> ForwarderRequest(w)
      [] w.clientBuffer # << >> /\ w.state = "Connected" -> ForwardToStream(w)
      [] OTHER -> w
OnReceiveData(w, data) ==
    ForwarderTurn(ForwarderTurn(ForwarderTurn([w EXCEPT !.clientBuffer = @ \o data])))

(* The first data of the stream is the reply to the request.               *)
ForwarderStreamData(w, data) ==
    CASE w.state = "Connecting" ->
            ForwardToStream([Sending(w, "acceptor", data) EXCEPT !.state = "Connected"])
      [] w.state = "Connected" -> Sending(w, "acceptor", data)
      [] OTHER -> w

ForwarderStreamClose(w) == [w EXCEPT !.hasStreamId = FALSE, !.acceptor = Close(@, TRUE)]

-----------------------------------------------------------------------------
(* The stream handler.                                                     *)
ConnectFailed(w) == CloseStream(SendToStream(w, "far", <<"error">>), "far", FALSE)

HandlerStreamData(w, data, result) ==
    LET got == [w EXCEPT !.buffer = @ \o data]
        asked == [got EXCEPT !.handler = "Connecting", !.buffer = Rest(@, 2),
                             !.connector = ConnectTo(@, result)]
    IN  CASE w.handler = "WaitingRequest" ->
                IF Len(got.buffer) < 2 THEN got
                ELSE IF result \in {"failed", "refused", "noRequest"} THEN ConnectFailed(asked)
                ELSE asked
          [] w.handler = "Connected" -> Sending(w, "connector", data)
          [] OTHER -> w   \* dropped

ConnectorConnected(w) ==
    LET replied == SendToStream([w EXCEPT !.handler = "Connected"], "far", <<"success">>)
    IN  [Sending(replied, "connector", w.buffer) EXCEPT !.buffer = << >>]

HandlerStreamClose(w) == Update(w, "connector", Close(w.connector, TRUE))

(* The name is asked for and will be answered.                             *)
HandlerLooksUp(w) == InLookup(w.connector) /\ ~w.far.localClosed

-----------------------------------------------------------------------------
(* handleDataFrame and handleNewStream, for the first frame on its way to  *)
(* an end.                                                                 *)
StreamClosed(w, end) ==
    LET heard == [w EXCEPT ![end].remoteClosed = TRUE]
    IN  CASE heard[end].localClosed -> heard
          [] ~heard[end].localClosed /\ end = "near" -> ForwarderStreamClose(heard)
          [] OTHER -> HandlerStreamClose(heard)

HandleFrame(w, end, result) ==
    LET frame == Head(IF end = "near" THEN w.down ELSE w.up)
        rest == IF end = "near" THEN [w EXCEPT !.down = Tail(@)] ELSE [w EXCEPT !.up = Tail(@)]
    IN  CASE frame.kind = "SYN" -> [rest EXCEPT !.far = OpenStream, !.handler = "WaitingRequest"]
          [] frame.kind # "SYN" /\ (~w[end].known \/ w[end].remoteClosed) -> rest
          [] frame.kind = "Data" /\ w[end].known /\ ~w[end].remoteClosed ->
                IF end = "near" THEN ForwarderStreamData(rest, frame.data)
                ELSE HandlerStreamData(rest, frame.data, result)
          [] OTHER -> StreamClosed(rest, end)

=============================================================================
