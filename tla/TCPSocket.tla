----------------------------- MODULE TCPSocket ------------------------------
(***************************************************************************)
(* The socket object of src/src/clsTCPSocket.cpp together with the calls   *)
(* it makes on its reactor (register_fd, del_fd, addFlags, removeFlags,    *)
(* deleteLater).                                                           *)
(*                                                                         *)
(* One thread runs all of it, but the methods call the application back,   *)
(* the application calls methods, and those call back again.  The variable *)
(* stack is the call stack of that thread: frames, innermost first, each   *)
(* naming what is still to be done and for which object.  A step runs the  *)
(* innermost frame up to its next system call or callback, so the network, *)
(* the rest of the process and the application can act in between exactly  *)
(* where they can in the program.                                          *)
(***************************************************************************)
EXTENDS SocketList, Kernel

CONSTANTS HighWater,   \* BACK_PRESSURE
          LowWater,    \* LOW_WATERMARK
          Faults       \* which rare failures may happen, see FaultNames

FaultNames == {"noaddress", "alloc", "ctl", "instant", "noquery"}

ASSUME TCPSocketAssumption == /\ HighWater \in Nat /\ LowWater \in Nat
                              /\ Faults \subseteq FaultNames

VARIABLES sock,     \* the members of each object
          life,     \* whether the object's memory is valid
          gcList,   \* m_GCList: objects to delete, oldest first
          stack     \* the call stack of the reactor's thread

objectVars == <<sock, life, gcList>>

NoFd == -1
Statuses == {"Ready", "Closed", "Closing", "Connecting", "Connected"}

Constructed == [status |-> "Ready", fd |-> NoFd, rbuf |-> FALSE,
                queue |-> << >>, len |-> 0, gen |-> 0, events |-> {},
                readPaused |-> FALSE, pendingClose |-> FALSE]

SocketMembers == [status: Statuses, fd: Fds \cup {NoFd}, rbuf: BOOLEAN,
                  queue: Seq(Nat \ {0}), len: Nat, gen: Gens,
                  events: SUBSET Flags, readPaused: BOOLEAN, pendingClose: BOOLEAN]

Callbacks == {"onData", "onClose", "onAccepted", "onConnected", "onConnecting",
              "onConnectFailed", "onPause", "onResume"}

SocketFrames == [pc: Callbacks \cup {"halfClose", "read", "dataHandled", "writable", "flush",
                                     "drained", "quiet", "close", "forceClose", "retire",
                                     "connect"},
                 o: Socket]

-----------------------------------------------------------------------------
(* The innermost frame is pc of object o; replace it by other frames.      *)
Running(pc, o) == stack # << >> /\ Head(stack) = [pc |-> pc, o |-> o]
Continue(frames) == stack' = frames \o Tail(stack)
Frame(pc, o) == [pc |-> pc, o |-> o]

SetSock(o, r) == sock' = [sock EXCEPT ![o] = r]

(* setStatus: a closed socket stays closed.                                *)
WithStatus(r, s) == [r EXCEPT !.status = IF @ = "Closed" THEN @ ELSE s]

(* addFlags and removeFlags change the context's mask, and tell the kernel *)
(* when the mask did change.  SetMask(o, r) stores members r of o, with    *)
(* whatever mask they now have.                                            *)
SetMask(o, r) == /\ SetSock(o, r)
                 /\ IF r.events # sock[o].events
                    THEN CtlMod(r.fd, r.gen, r.events)
                    ELSE UNCHANGED <<interest, armed>>

(* pause_reading and resume_reading, except for the call of onPause or     *)
(* onResume, which follows when the flag changes.                          *)
Paused(r) == [r EXCEPT !.readPaused = TRUE, !.events = @ \ {"IN"}]
Resumed(r) == [r EXCEPT !.readPaused = FALSE, !.events = @ \cup {"IN"}]

(* SendQueue: push, and the loop of onWritable that drops n sent units.    *)
(* pop_front takes the rest of the front buffer off m_len; cutting a       *)
(* buffer short does not.                                                  *)
Pushed(r, n) == [r EXCEPT !.queue = Append(@, n), !.len = @ + n]

UnitsIn(q, k) == LET s[i \in 0 .. k] == IF i = 0 THEN 0 ELSE s[i - 1] + q[i] IN s[k]
Units(q) == UnitsIn(q, Len(q))

Consumed(r, n) ==
    LET q == r.queue
        whole == CHOOSE k \in 0 .. Len(q) :
                    UnitsIn(q, k) <= n /\ (k = Len(q) \/ UnitsIn(q, k + 1) > n)
        rest == SubSeq(q, whole + 1, Len(q))
    IN  [r EXCEPT !.len = @ - UnitsIn(q, whole),
                  !.queue = IF rest = << >> THEN rest
                            ELSE [rest EXCEPT ![1] = @ - (n - UnitsIn(q, whole))]]

-----------------------------------------------------------------------------
(* close(false) and close(true).                                           *)

CloseIgnoredWhenUnopened(o) == sock[o].fd = NoFd   \* wrong: closes a closed socket again
CloseIgnored(o) == sock[o].fd = NoFd \/ sock[o].status = "Closed"

(* Wrong: members, slot or buffers are left behind.                        *)
CloseKeepingBuffers(o, force) ==
    /\ SetSock(o, [sock[o] EXCEPT !.status = "Closed"])
    /\ Remove(sock[o].fd)
    /\ CloseFd(sock[o].fd)
    /\ Continue(<<Frame("onClose", o), Frame("retire", o)>>)
    /\ UNCHANGED <<life, gcList, backlog>>

CloseKeepingSlot(o, force) ==
    /\ SetSock(o, [sock[o] EXCEPT !.status = "Closed", !.rbuf = FALSE,
                                  !.queue = << >>, !.len = 0])
    /\ CloseFd(sock[o].fd)
    /\ Continue(<<Frame("onClose", o), Frame("retire", o)>>)
    /\ UNCHANGED <<listVars, life, gcList, backlog>>

(* Everything close() does at once before it calls onClose; deleteLater    *)
(* follows the callback.                                                   *)
CloseNow(o, force) ==
    /\ SetSock(o, [sock[o] EXCEPT !.status = "Closed", !.rbuf = FALSE,
                                  !.queue = IF force THEN << >> ELSE @,
                                  !.len = IF force THEN @ - Units(sock[o].queue) ELSE @])
    /\ Remove(sock[o].fd)
    /\ CloseFd(sock[o].fd)
    /\ Continue(<<Frame("onClose", o), Frame("retire", o)>>)
    /\ UNCHANGED <<life, gcList, backlog>>

(* Data is queued: shut the write side down and wait for EPOLLOUT.  The    *)
(* shutdown is an edge even when the mask had EPOLLOUT and stays.          *)
CloseGracefully(o) ==
    LET r == [WithStatus(sock[o], "Closing") EXCEPT !.pendingClose = TRUE,
                                                    !.events = @ \cup {"OUT"}]
        fd == sock[o].fd
    IN  /\ SetSock(o, r)
        /\ net' = WriteShut(fd)
        /\ CtlMod(fd, r.gen, r.events)
        /\ Continue(<< >>)
        /\ UNCHANGED <<listVars, owner, backlog, life, gcList>>

Close(o) ==
    \E force \in BOOLEAN :
        /\ Running(IF force THEN "forceClose" ELSE "close", o)
        /\ \/ /\ CloseIgnored(o)
              /\ Continue(<< >>)
              /\ UNCHANGED <<listVars, kernelVars, objectVars>>
           \/ /\ ~CloseIgnored(o)
              /\ force \/ sock[o].queue = << >>
              /\ CloseNow(o, force)
           \/ /\ ~CloseIgnored(o)
              /\ ~force /\ sock[o].queue # << >>
              /\ CloseGracefully(o)

(* deleteLater, the last thing close() does.                               *)
RetireAtOnce(o) == /\ Running("retire", o)   \* wrong: delete this
                   /\ life' = [life EXCEPT ![o] = "freed"]
                   /\ SetSock(o, Constructed)
                   /\ Continue(<< >>)
                   /\ UNCHANGED <<listVars, kernelVars, gcList>>

Retire(o) == /\ Running("retire", o)
             /\ gcList' = Append(gcList, o)
             /\ Continue(<< >>)
             /\ UNCHANGED <<listVars, kernelVars, sock, life>>

-----------------------------------------------------------------------------
(* Wait for the queue to drain: what a peer's FIN leads to when data is    *)
(* still queued, in handleHalfClose and in onReadable alike.               *)
AwaitDrain(o) ==
    SetMask(o, [WithStatus(sock[o], "Closing") EXCEPT !.pendingClose = TRUE,
                                                      !.events = @ \cup {"OUT"}])

(* handleHalfClose: peek one byte, then look at SO_ERROR.                  *)
HandleHalfClose(o) ==
    LET fd == sock[o].fd
    IN  /\ Running("halfClose", o)
        /\ net' = ErrorTaken(fd)
        /\ \E result \in RecvResults(fd, TRUE), failed \in SoErrors(fd) :
              \/ /\ \/ result = "error"
                    \/ result = "eof" /\ sock[o].queue = << >>
                 /\ Continue(<<Frame("forceClose", o)>>)
                 /\ UNCHANGED <<sock, interest, armed>>
              \/ /\ result = "eof" /\ sock[o].queue # << >>
                 /\ AwaitDrain(o)
                 /\ Continue(IF failed THEN <<Frame("forceClose", o)>> ELSE << >>)
              \/ /\ result \in {"data", "again"}
                 /\ Continue(IF failed THEN <<Frame("forceClose", o)>> ELSE << >>)
                 /\ UNCHANGED <<sock, interest, armed>>
        /\ UNCHANGED <<listVars, owner, backlog, life, gcList>>

(* onReadable: one turn of its loop.                                       *)
OnReadable(o) ==
    LET fd == sock[o].fd
    IN  /\ Running("read", o)
        /\ \E result \in RecvResults(fd, sock[o].rbuf) :
              \/ /\ result = "data"
                 /\ net' = Received(fd)
                 /\ Continue(<<Frame("onData", o), Frame("dataHandled", o)>>)
                 /\ UNCHANGED <<sock, interest, armed>>
              \/ /\ result = "eof"
                 /\ \/ /\ sock[o].pendingClose
                       /\ Continue(<< >>)
                       /\ UNCHANGED <<sock, interest, armed>>
                    \/ /\ ~sock[o].pendingClose /\ sock[o].queue # << >>
                       /\ AwaitDrain(o)
                       /\ Continue(<< >>)
                    \/ /\ ~sock[o].pendingClose /\ sock[o].queue = << >>
                       /\ Continue(<<Frame("forceClose", o)>>)
                       /\ UNCHANGED <<sock, interest, armed>>
                 /\ UNCHANGED net
              \/ /\ result = "error"
                 /\ net' = ErrorTaken(fd)
                 /\ Continue(<<Frame("forceClose", o)>>)
                 /\ UNCHANGED <<sock, interest, armed>>
              \/ /\ result = "again"
                 /\ Continue(<< >>)
                 /\ UNCHANGED <<sock, interest, armed, net>>
        /\ UNCHANGED <<listVars, owner, backlog, life, gcList>>

(* After handleOnData: stop when the socket is paused, else read on.       *)
DataHandled(o) ==
    /\ Running("dataHandled", o)
    /\ Continue(IF sock[o].readPaused THEN << >> ELSE <<Frame("read", o)>>)
    /\ UNCHANGED <<listVars, kernelVars, objectVars>>

-----------------------------------------------------------------------------
(* onWritable, up to its send loop: SO_ERROR, and the end of a connection  *)
(* attempt.                                                                *)
OnWritable(o) ==
    LET fd == sock[o].fd
        connecting == sock[o].status = "Connecting" /\ ~sock[o].pendingClose
    IN  /\ Running("writable", o)
        /\ net' = ErrorTaken(fd)
        /\ \E failed \in SoErrors(fd) :
              \/ /\ failed
                 /\ Continue((IF connecting THEN <<Frame("onConnectFailed", o)>> ELSE << >>)
                             \o <<Frame("forceClose", o)>>)
                 /\ UNCHANGED <<sock, interest, armed>>
              \/ /\ ~failed /\ connecting
                 /\ SetMask(o, [WithStatus(sock[o], "Connected") EXCEPT !.events = @ \ {"OUT"}])
                 /\ Continue(<<Frame("onConnected", o)>>)
              \/ /\ ~failed /\ ~connecting
                 /\ Continue(<<Frame("flush", o)>>)
                 /\ UNCHANGED <<sock, interest, armed>>
        /\ UNCHANGED <<listVars, owner, backlog, life, gcList>>

(* One sendmsg of the loop, and the removal of what it sent.               *)
Flush(o) ==
    LET r == sock[o]
        total == Units(r.queue)
    IN  /\ Running("flush", o)
        /\ \/ /\ r.queue = << >>
              /\ Continue(<<Frame("drained", o)>>)
              /\ UNCHANGED <<sock, net>>
           \/ /\ r.queue # << >>
              /\ \E result \in SendResults(r.fd) :
                    \/ /\ result = "ok"
                       /\ LET n == IF Room(r.fd) < total THEN Room(r.fd) ELSE total
                          IN  SetSock(o, Consumed(r, n)) /\ net' = Sent(r.fd, n)
                       /\ UNCHANGED stack
                    \/ /\ result = "again"
                       /\ Continue(<<Frame("drained", o)>>)
                       /\ UNCHANGED <<sock, net>>
                    \/ /\ result = "error"
                       /\ net' = ErrorTaken(r.fd)
                       /\ Continue(<<Frame("forceClose", o)>>)
                       /\ UNCHANGED sock
        /\ UNCHANGED <<listVars, owner, interest, armed, backlog, life, gcList>>

(* The graceful close at the end of onWritable: close()'s work over again, *)
(* without its test for a closed socket and without deleteLater.           *)
FinishPendingClose(o) ==
    /\ SetSock(o, [WithStatus(sock[o], "Closed") EXCEPT !.rbuf = FALSE])
    /\ Remove(sock[o].fd)
    /\ CloseFd(sock[o].fd)
    /\ Continue(<<Frame("onClose", o)>>)
    /\ UNCHANGED <<life, gcList, backlog>>

Drained(o) ==
    LET r == sock[o]
    IN  /\ Running("drained", o)
        /\ \/ /\ r.queue = << >> /\ r.pendingClose
              /\ FinishPendingClose(o)
           \/ /\ r.queue # << >> \/ ~r.pendingClose
              /\ IF r.len <= LowWater /\ r.readPaused
                 THEN /\ SetMask(o, Resumed(r))
                      /\ Continue(<<Frame("onResume", o), Frame("quiet", o)>>)
                 ELSE /\ Continue(<<Frame("quiet", o)>>)
                      /\ UNCHANGED <<sock, interest, armed>>
              /\ UNCHANGED <<listVars, owner, net, backlog, life, gcList>>

(* The last lines of onWritable: with nothing queued, EPOLLOUT is switched *)
(* off and a paused socket reads again.                                    *)
QuietUntested(o) ==   \* wrong: whether or not anything is queued
    /\ Running("quiet", o)
    /\ SetMask(o, [sock[o] EXCEPT !.events = @ \ {"OUT"}])
    /\ Continue(<< >>)
    /\ UNCHANGED <<listVars, owner, net, backlog, life, gcList>>

Quiet(o) ==
    LET r == [sock[o] EXCEPT !.events = @ \ {"OUT"}]
    IN  /\ Running("quiet", o)
        /\ \/ /\ r.queue # << >>
              /\ Continue(<< >>)
              /\ UNCHANGED <<sock, interest, armed>>
           \/ /\ r.queue = << >>
              /\ SetMask(o, IF r.readPaused THEN Resumed(r) ELSE r)
              /\ Continue(IF r.readPaused THEN <<Frame("onResume", o)>> ELSE << >>)
        /\ UNCHANGED <<listVars, owner, net, backlog, life, gcList>>

-----------------------------------------------------------------------------
(* register_fd: a slot first, then EPOLL_CTL_ADD.  With ok FALSE there is  *)
(* no slot for the number, or (fault "ctl") the kernel refuses and the     *)
(* slot stays taken.  genOf is the generation that goes into the key.      *)
Registered(fd, o, ok, events) ==
    \/ /\ Addable(fd)
       /\ ok \/ "ctl" \in Faults
       /\ Add(fd, "IS_TCP_SOCKET", o)
       /\ IF ok
          THEN /\ interest' = [interest EXCEPT ![fd] = [gen |-> AddedGen(genIDCounter),
                                                       events |-> events]]
               /\ armed' = armed \cup {fd}
          ELSE UNCHANGED <<interest, armed>>
    \/ /\ ~Addable(fd) /\ ~ok
       /\ UNCHANGED <<listVars, interest, armed>>

KeyGen(fd) == IF Addable(fd) THEN AddedGen(genIDCounter) ELSE 0

(* adoptFd needs SLAB_SIZE bytes of the buffer pool.                       *)
Allocated == IF "alloc" \in Faults THEN BOOLEAN ELSE {TRUE}

(* _accepted(fd), on an object the application just made for it.  Only a   *)
(* successful registration goes on to adoptFd, which stores fd.            *)
Accepted(o, fd) ==
    /\ owner' = [owner EXCEPT ![fd] = o]
    /\ net' = [net EXCEPT ![o] = Established]
    /\ \/ /\ Registered(fd, o, TRUE, {"IN"})
          /\ \E adopted \in Allocated :
                /\ SetSock(o, [Constructed EXCEPT
                                 !.status = IF adopted THEN "Connected" ELSE @,
                                 !.fd = fd, !.rbuf = adopted,
                                 !.gen = KeyGen(fd), !.events = {"IN"}])
                /\ stack' = <<Frame(IF adopted THEN "onAccepted" ELSE "forceClose", o)>> \o stack
       \/ /\ Registered(fd, o, FALSE, {"IN"})
          /\ SetSock(o, [Constructed EXCEPT !.gen = KeyGen(fd),
                             !.events = IF Addable(fd) THEN {"IN"} ELSE {}])
          /\ stack' = <<Frame("forceClose", o)>> \o stack

(* _connect, the answer of the name lookup.                                *)

(* No address, or no descriptor left: onConnectFailed and no more.         *)
ConnectGivesUp(o) ==
    /\ "noaddress" \in Faults \/ FreeFds = {}
    /\ SetSock(o, WithStatus(sock[o], "Closed"))
    /\ Continue(<<Frame("onConnectFailed", o)>>)
    /\ UNCHANGED <<listVars, owner, interest, armed, net>>

(* EINPROGRESS: adopt the descriptor, register it and wait for EPOLLOUT.   *)
ConnectStarts(o, fd) ==
    /\ owner' = [owner EXCEPT ![fd] = o]
    /\ net' = [net EXCEPT ![o] = Pristine]
    /\ Registered(fd, o, TRUE, Flags)
    /\ SetSock(o, [sock[o] EXCEPT !.fd = fd, !.rbuf = TRUE,
                                  !.gen = KeyGen(fd), !.events = Flags])
    /\ Continue(<<Frame("onConnecting", o)>>)

(* connect() succeeds at once: the descriptor is adopted, not registered.  *)
ConnectsAtOnce(o, fd) ==
    /\ "instant" \in Faults
    /\ owner' = [owner EXCEPT ![fd] = o]
    /\ net' = [net EXCEPT ![o] = Established]
    /\ SetSock(o, [WithStatus(sock[o], "Connected") EXCEPT !.fd = fd, !.rbuf = TRUE])
    /\ Continue(<<Frame("onConnected", o)>>)
    /\ UNCHANGED <<listVars, interest, armed>>

(* Any failure after socket(): a refused address or connect(), no buffer,  *)
(* no registration.                                                        *)
ConnectFails(o, fd) ==
    /\ owner' = [owner EXCEPT ![fd] = o]
    /\ net' = [net EXCEPT ![o] = Pristine]
    /\ \/ /\ Registered(fd, o, FALSE, Flags)
          /\ SetSock(o, [WithStatus(sock[o], "Closing") EXCEPT
                            !.fd = fd, !.rbuf = TRUE, !.gen = KeyGen(fd), !.events = Flags])
       \/ /\ SetSock(o, [WithStatus(sock[o], "Closing") EXCEPT !.fd = fd])
          /\ UNCHANGED <<listVars, interest, armed>>
    /\ Continue(<<Frame("onConnectFailed", o), Frame("forceClose", o)>>)

Connect(o) ==
    /\ Running("connect", o)
    /\ \/ ConnectGivesUp(o)
       \/ /\ FreeFds # {}
          /\ \/ ConnectStarts(o, LowestFree)
             \/ ConnectsAtOnce(o, LowestFree)
             \/ ConnectFails(o, LowestFree)
    /\ UNCHANGED <<backlog, life, gcList>>

-----------------------------------------------------------------------------
(* The methods the application calls on o; frames is what they leave to do *)
(* before they return to it.                                               *)

Call(frames) == stack' = frames \o stack

(* send(data, n): write when nothing is queued, queue what is left (fault  *)
(* "alloc": drop it), ask for EPOLLOUT, pause reading above the mark.      *)
Send(o, n) ==
    LET r == sock[o]
        Queue(k, stored) ==
            LET q == [(IF stored THEN Pushed(r, k) ELSE r) EXCEPT !.events = @ \cup {"OUT"}]
                pauses == q.len > HighWater /\ ~q.readPaused
            IN  /\ SetMask(o, IF pauses THEN Paused(q) ELSE q)
                /\ Call(IF pauses THEN <<Frame("onPause", o)>> ELSE << >>)
        Sends(k) ==
            \/ /\ k = n
               /\ Call(<< >>)
               /\ UNCHANGED <<sock, interest, armed>>
            \/ k < n /\ \E stored \in Allocated : Queue(n - k, stored)
    IN  /\ \/ /\ r.queue # << >>
              /\ Sends(0)
              /\ UNCHANGED net
           \/ /\ r.queue = << >>
              /\ \E result \in SendResults(r.fd) :
                    \/ /\ result = "ok"
                       /\ LET k == IF Room(r.fd) < n THEN Room(r.fd) ELSE n
                          IN  Sends(k) /\ net' = Sent(r.fd, k)
                    \/ /\ result = "again"
                       /\ Sends(0)
                       /\ UNCHANGED net
                    \/ /\ result = "error"
                       /\ net' = ErrorTaken(r.fd)
                       /\ Call(<<Frame("forceClose", o)>>)
                       /\ UNCHANGED <<sock, interest, armed>>
        /\ UNCHANGED <<listVars, owner, backlog, life, gcList>>

PauseReading(o) ==
    /\ ~sock[o].readPaused
    /\ SetMask(o, Paused(sock[o]))
    /\ Call(<<Frame("onPause", o)>>)
    /\ UNCHANGED <<listVars, owner, net, backlog, life, gcList>>

ResumeReading(o) ==
    /\ sock[o].readPaused
    /\ SetMask(o, Resumed(sock[o]))
    /\ Call(<<Frame("onResume", o)>>)
    /\ UNCHANGED <<listVars, owner, net, backlog, life, gcList>>

CallClose(o, force) ==
    /\ Call(<<Frame(IF force THEN "forceClose" ELSE "close", o)>>)
    /\ UNCHANGED <<listVars, kernelVars, objectVars>>

=============================================================================
