---------------------------- MODULE Socks5Proxy -----------------------------
(***************************************************************************)
(* src/clsSocks5Proxy.h: a client's connection (acceptor) and one to the   *)
(* target the client asks for (connector), coupled by the callbacks of     *)
(* both.  A callback runs inside the call that causes it, so a handler is  *)
(* one function over the object.                                           *)
(***************************************************************************)
EXTENDS Endpoint

Proxy(kind) == [program |-> "proxy", client |-> kind,
                acceptor |-> AcceptedSocket, connector |-> ReadySocket,
                state |-> "Greeting", clientBuffer |-> << >>, connectorBuffer |-> << >>]

Sides == {"acceptor", "connector"}
Other(side) == CHOOSE o \in Sides : o # side

(* The callbacks of what has become of one socket: closed, it closes the   *)
(* other; paused or resumed, so is the other.                              *)
NotPropagated(w, side, s) == [w EXCEPT ![side] = s]   \* wrong: no callbacks
With(w, side, s) ==
    LET o == Other(side)
        was == w[side]
    IN  [w EXCEPT
           ![side] = s,
           ![o] = CASE s.status = "Closed" /\ was.fd = "open" -> Close(@, FALSE)
                    [] s.status # "Closed" /\ s.readPaused # was.readPaused ->
                          [@ EXCEPT !.readPaused = s.readPaused]
                    [] OTHER -> @]

CloseIt(w, side, force) == With(w, side, Close(w[side], force))
SendOn(w, side, data) == With(w, side, Send(w[side], data))

Fail(w, force) ==   \* SendErrorReply and close
    CloseIt(SendOn([w EXCEPT !.state = "Error"], "acceptor", <<"error">>), "acceptor", force)

OnConnectFailed(w) == Fail(w, TRUE)

(* The reply to the client, then what it sent early.  The acceptor is not  *)
(* asked whether it is still open: where the connector was given its       *)
(* number, the reply goes into the connection to the target.               *)
OnConnected(w, reused) ==
    LET connected == [w EXCEPT !.state = "Connected"]
        replied == IF reused
                   THEN [connected EXCEPT !.connector = Transmitted(@, <<"success">>)]
                   ELSE SendOn(connected, "acceptor", <<"success">>)
    IN  [SendOn(replied, "connector", w.connectorBuffer) EXCEPT !.connectorBuffer = << >>]

OnConnectorReceiveData(w, data) ==
    IF w.acceptor.status = "Connected" /\ w.state = "Connected"
    THEN SendOn(w, "acceptor", data) ELSE w

(* Each of these takes what it needs from clientBuffer, or leaves it alone *)
(* until there is more.                                                    *)
ProcessGreeting(w) ==
    LET taken == [w EXCEPT !.clientBuffer = Rest(@, 2)]
    IN  CASE Len(w.clientBuffer) < 2 -> w
          [] Len(w.clientBuffer) >= 2 /\ w.client = "oldVersion" -> Fail(w, FALSE)
          [] Len(w.clientBuffer) >= 2 /\ w.client = "noAuthRefused" ->
                CloseIt([SendOn(taken, "acceptor", <<"noMethod">>) EXCEPT !.state = "Error"],
                        "acceptor", FALSE)
          [] OTHER -> [SendOn(taken, "acceptor", <<"method">>) EXCEPT !.state = "Request"]

ProcessRequest(w, result) ==
    LET asked == [w EXCEPT !.clientBuffer = Rest(@, 2), !.connector = ConnectTo(@, result)]
        failed == IF result \in {"failed", "refused"} THEN OnConnectFailed(asked) ELSE asked
    IN  CASE Len(w.clientBuffer) < 2 -> w
          [] Len(w.clientBuffer) >= 2 /\ w.client = "badRequest" -> Fail(w, FALSE)
          [] OTHER -> IF result \in {"refused", "noRequest"} THEN Fail(failed, TRUE)
                      ELSE [failed EXCEPT !.state = "Connecting"]

ForwardToConnector(w) ==
    LET sent == IF w.connector.status = "Connected" /\ w.state = "Connected"
                THEN SendOn(w, "connector", w.clientBuffer)
                ELSE [w EXCEPT !.connectorBuffer = @ \o w.clientBuffer]
    IN  [sent EXCEPT !.clientBuffer = << >>]

(* One turn of the loop of OnAcceptorReceiveData; a state that waits for   *)
(* more stays as it is, and no chunk takes more than three turns.          *)
Turn(w, result) ==
    CASE w.clientBuffer # << >> /\ w.state = "Greeting" -> ProcessGreeting(w)
      [] w.clientBuffer # << >> /\ w.state = "Request" -> ProcessRequest(w, result)
      [] w.clientBuffer # << >> /\ w.state \in {"Connecting", "Connected"} -> ForwardToConnector(w)
      [] OTHER -> w
OnAcceptorReceiveData(w, data, result) ==
    Turn(Turn(Turn([w EXCEPT !.clientBuffer = @ \o data], result), result), result)

(* The name is asked for and will be answered.                             *)
LookingUp(w) == InLookup(w.connector) /\ w.state # "Error"

=============================================================================
