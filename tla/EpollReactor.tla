---------------------------- MODULE EpollReactor ----------------------------
(***************************************************************************)
(* One reactor (src/src/clsEpollReactor.cpp) with its sockets: the epoll   *)
(* loop of run(), event dispatch, accepting, connecting through the name   *)
(* lookup, maintenance, and the deferred deletion of closed sockets.       *)
(*                                                                         *)
(* The application is everything the callbacks may do: it is modelled by   *)
(* the calls it can make while a callback frame is innermost.              *)
(***************************************************************************)
EXTENDS TCPSocket

CONSTANTS AppCalls,      \* which calls the application makes, see CallNames
          Events,        \* what the environment does, see EventNames
          SendSizes,     \* the lengths the application sends
          SendStatuses,  \* in which statuses of a socket it sends
          MaxQueue,      \* bound: m_len stays below this many units
          MaxNesting,    \* bound: callbacks within callbacks from which it still calls
          UseGC,         \* m_useGarbageCollector
          GCThreshold    \* THRESHOLD_SIZE

CallNames == {"connect", "send", "close", "pause", "timer"}
EventNames == {"reset", "data", "fin", "ack", "client", "foreign"}

ASSUME ReactorAssumption == /\ AppCalls \subseteq CallNames
                            /\ Events \subseteq EventNames
                            /\ SendSizes \subseteq Nat \ {0}
                            /\ SendStatuses \subseteq Statuses
                            /\ MaxQueue \in Nat /\ MaxNesting \in Nat
                            /\ UseGC \in BOOLEAN
                            /\ GCThreshold \in Nat \ {0}
                            /\ ListenFd \in Slots   \* it was registered before run()

VARIABLES batch,  \* events epoll_wait returned, not taken up yet
          dns     \* sockets whose name lookup is under way

vars == <<listVars, kernelVars, objectVars, stack, batch, dns>>

EpollEvents == [fd: Fds, gen: Nat, flags: SUBSET {"ERR", "HUP", "RDHUP", "IN", "OUT"},
                about: Socket \cup {Listener}]

LoopFrames == [pc: {"accept", "closeSlot"}, fd: Fds] \cup [pc: {"timer"}]

(* The types of the variables.                                           *)
TypeOK == /\ ListTypeOK
          /\ KernelTypeOK
          /\ sock \in [Socket -> SocketMembers]
          /\ life \in [Socket -> {"fresh", "live", "freed"}]
          /\ gcList \in Seq(Socket)
          /\ stack \in Seq(SocketFrames \cup LoopFrames)
          /\ batch \subseteq EpollEvents
          /\ dns \subseteq Socket

(* After add_listener: the listening descriptor has the first slot.        *)
Init == /\ list = [fd \in Slots |-> [type |-> IF fd = ListenFd THEN "IS_TCP_LISTENER"
                                              ELSE "IS_NOT_SET",
                                     socketBasePtr |-> NoSocket,
                                     genID |-> IF fd = ListenFd THEN 1 ELSE 0]]
        /\ genIDCounter = 1
        /\ active = <<ListenFd>>
        /\ owner = [fd \in Fds |-> IF fd = ListenFd THEN Listener ELSE Free]
        /\ interest = [fd \in Fds |-> IF fd = ListenFd THEN [gen |-> 1, events |-> {"IN"}]
                                      ELSE Unwatched]
        /\ armed = {}
        /\ net = [o \in Socket |-> Pristine]
        /\ backlog = 0
        /\ sock = [o \in Socket |-> Constructed]
        /\ life = [o \in Socket |-> "fresh"]
        /\ gcList = << >>
        /\ stack = << >>
        /\ batch = {}
        /\ dns = {}

Idle == stack = << >>
InGCList(o) == \E i \in DOMAIN gcList : gcList[i] = o

-----------------------------------------------------------------------------
(* run(): epoll_wait returns when the batch is done, with every descriptor *)
(* that has an edge to report.                                             *)
EpollWait ==
    /\ Idle /\ batch = {} /\ armed # {}
    /\ batch' = {[fd |-> fd, gen |-> interest[fd].gen, flags |-> Mask(fd), about |-> owner[fd]] :
                    fd \in {f \in armed : Mask(f) # {}}}
    /\ armed' = {}
    /\ UNCHANGED <<listVars, owner, interest, net, backlog, objectVars, stack, dns>>

(* onTCPEvent: what is done for the event's flags.                         *)
TCPEventFrames(o, flags) ==
    CASE "ERR" \in flags -> <<Frame("forceClose", o)>>
      [] "ERR" \notin flags /\ "HUP" \in flags ->
             IF sock[o].queue = << >> THEN <<Frame("close", o)>> ELSE <<Frame("halfClose", o)>>
      [] OTHER ->
             (IF "RDHUP" \in flags THEN <<Frame("halfClose", o)>> ELSE << >>)
             \o (IF "IN" \in flags THEN <<Frame("read", o)>> ELSE << >>)
             \o (IF "OUT" \in flags THEN <<Frame("writable", o)>> ELSE << >>)

(* run() takes the next event up; an event without a slot is dropped.      *)
Dispatch(e) ==
    /\ Idle
    /\ batch' = batch \ {e}
    /\ \/ /\ ~Get(e.fd, e.gen) \/ list[e.fd].type = "IS_NOT_SET"
          /\ UNCHANGED <<stack, net>>
       \/ /\ Get(e.fd, e.gen) /\ list[e.fd].type = "IS_TCP_LISTENER"
          /\ Call(<<[pc |-> "accept", fd |-> e.fd]>>)
          /\ UNCHANGED net
       \/ /\ Get(e.fd, e.gen) /\ list[e.fd].type = "IS_TCP_SOCKET"
          /\ Call(TCPEventFrames(list[e.fd].socketBasePtr, e.flags))
          /\ net' = IF "ERR" \in e.flags THEN ErrorTaken(e.fd) ELSE net
    /\ UNCHANGED <<listVars, owner, interest, armed, backlog, objectVars, dns>>

(* adoptAccepted: one turn of the accept4 loop.  The application's factory *)
(* returns a new object or none.                                           *)
AdoptAccepted(fd) ==
    /\ stack # << >> /\ Head(stack) = [pc |-> "accept", fd |-> fd]
    /\ \/ /\ backlog = 0 \/ FreeFds = {}
          /\ Continue(<< >>)
          /\ UNCHANGED <<listVars, kernelVars, objectVars>>
       \/ /\ backlog > 0 /\ FreeFds # {}
          /\ backlog' = backlog - 1
          /\ \/ UNCHANGED <<listVars, owner, interest, armed, net, objectVars, stack>>
             \/ \E o \in Socket : /\ life[o] = "fresh"
                                  /\ life' = [life EXCEPT ![o] = "live"]
                                  /\ Accepted(o, LowestFree)
                                  /\ UNCHANGED gcList
    /\ UNCHANGED <<batch, dns>>

(* The name lookup answers: connect_cb, from the reactor's own loop.       *)
DnsAnswers(o) ==
    /\ Idle /\ o \in dns
    /\ dns' = dns \ {o}
    /\ Call(<<Frame("connect", o)>>)
    /\ UNCHANGED <<listVars, kernelVars, objectVars, batch>>

-----------------------------------------------------------------------------
(* Timers.  Their descriptor is never closed while the reactor runs, so a  *)
(* tick is an event of its own that can come between any two others.       *)

(* maintenance() collects the slots of the sockets that have been Closing  *)
(* for too long, then closes whoever is in these slots by then.            *)
StalledInHandshake(fd) ==   \* wrong: a socket that waits for its queue never times out
    /\ list[fd].type = "IS_TCP_SOCKET"
    /\ list[fd].socketBasePtr # NoSocket
    /\ sock[list[fd].socketBasePtr].status = "Connecting"

Stalled(fd) == /\ list[fd].type = "IS_TCP_SOCKET"
               /\ list[fd].socketBasePtr # NoSocket
               /\ sock[list[fd].socketBasePtr].status = "Closing"

(* The members of S, in the order of the active list.                      *)
InListOrder(S) ==
    {s \in [1 .. Cardinality(S) -> S] :
        \A i, j \in DOMAIN s :
            i < j => \E k, l \in DOMAIN active : k < l /\ active[k] = s[i] /\ active[l] = s[j]}

Maintenance(timedOut) ==
    /\ Idle
    /\ timedOut # {}
    /\ \A fd \in timedOut : Linked(fd) /\ Stalled(fd)
    /\ \E slots \in InListOrder(timedOut) :
          stack' = [i \in DOMAIN slots |-> [pc |-> "closeSlot", fd |-> slots[i]]]
    /\ UNCHANGED <<listVars, kernelVars, objectVars, batch, dns>>

CloseSlot(fd) ==
    /\ stack # << >> /\ Head(stack) = [pc |-> "closeSlot", fd |-> fd]
    /\ Continue(IF list[fd].socketBasePtr = NoSocket THEN << >>
                ELSE <<Frame("forceClose", list[fd].socketBasePtr)>>)
    /\ UNCHANGED <<listVars, kernelVars, objectVars, batch, dns>>

(* runGarbageCollector: flush_all, or flush, which deletes the oldest      *)
(* GCThreshold objects once there are more and the next one is old enough. *)
RunGarbageCollector ==
    LET n == IF UseGC THEN GCThreshold ELSE Len(gcList)
        dead == {gcList[i] : i \in 1 .. n}
    IN  /\ Idle
        /\ gcList # << >>
        /\ UseGC => Len(gcList) > GCThreshold
        /\ life' = [o \in Socket |-> IF o \in dead THEN "freed" ELSE life[o]]
        /\ sock' = [o \in Socket |-> IF o \in dead THEN Constructed ELSE sock[o]]
        /\ gcList' = SubSeq(gcList, n + 1, Len(gcList))
        /\ UNCHANGED <<listVars, kernelVars, stack, batch, dns>>

-----------------------------------------------------------------------------
(* The application.  It runs in a callback, or in a timer of its own.      *)

AppTimer == /\ Idle /\ "timer" \in AppCalls
            /\ Call(<<[pc |-> "timer"]>>)
            /\ UNCHANGED <<listVars, kernelVars, objectVars, batch, dns>>

InApplication == stack # << >> /\ Head(stack).pc \in Callbacks \cup {"timer"}

CallbacksRunning == SelectSeq(stack, LAMBDA f : f.pc \in Callbacks \cup {"timer"})

InCallback == InApplication /\ Len(CallbacksRunning) <= MaxNesting
MayCall(o) == InCallback /\ life[o] = "live"

AppReturns == /\ InApplication
              /\ Continue(<< >>)
              /\ UNCHANGED <<listVars, kernelVars, objectVars, batch, dns>>

AppSends(o, n) == /\ MayCall(o) /\ "send" \in AppCalls
                  /\ sock[o].status \in SendStatuses
                  /\ sock[o].len + n <= MaxQueue
                  /\ Send(o, n)
                  /\ UNCHANGED <<batch, dns>>

AppCloses(o, force) == /\ MayCall(o) /\ "close" \in AppCalls
                       /\ CallClose(o, force)
                       /\ UNCHANGED <<batch, dns>>

AppPauses(o) == /\ MayCall(o) /\ "pause" \in AppCalls
                /\ PauseReading(o)
                /\ UNCHANGED <<batch, dns>>

AppResumes(o) == /\ MayCall(o) /\ "pause" \in AppCalls
                 /\ ResumeReading(o)
                 /\ UNCHANGED <<batch, dns>>

(* A new object, setReactor and connectTo.  The lookup answers from its    *)
(* cache at once, later, or (fault "noquery") refuses.                     *)
AppConnects(o) ==
    /\ InCallback /\ "connect" \in AppCalls
    /\ life[o] = "fresh"
    /\ life' = [life EXCEPT ![o] = "live"]
    /\ SetSock(o, [Constructed EXCEPT !.status = "Connecting"])
    /\ \/ Call(<<Frame("connect", o)>>) /\ UNCHANGED dns
       \/ dns' = dns \cup {o} /\ UNCHANGED stack
       \/ "noquery" \in Faults /\ UNCHANGED <<dns, stack>>
    /\ UNCHANGED <<listVars, kernelVars, gcList, batch>>

-----------------------------------------------------------------------------
SocketStep(o) == /\ \/ Close(o) \/ Retire(o)
                    \/ HandleHalfClose(o) \/ OnReadable(o) \/ DataHandled(o)
                    \/ OnWritable(o) \/ Flush(o) \/ Drained(o) \/ Quiet(o)
                    \/ Connect(o)
                 /\ UNCHANGED <<batch, dns>>

ReactorStep == \/ EpollWait
               \/ \E e \in batch : Dispatch(e)
               \/ \E fd \in Fds : AdoptAccepted(fd) \/ CloseSlot(fd)
               \/ \E o \in Socket : SocketStep(o)

Timers == \/ \E timedOut \in SUBSET Fds : Maintenance(timedOut)
          \/ RunGarbageCollector

Application == \/ AppTimer \/ AppReturns
               \/ \E o \in Socket :
                     \/ \E n \in SendSizes : AppSends(o, n)
                     \/ \E force \in BOOLEAN : AppCloses(o, force)
                     \/ AppPauses(o) \/ AppResumes(o) \/ AppConnects(o)

Environment ==
    /\ \/ \E o \in Socket : \/ ConnectCompletes(o)
                            \/ "reset" \in Events /\ PeerResets(o)
                            \/ "data" \in Events /\ DataArrives(o)
                            \/ "fin" \in Events /\ PeerFinishes(o)
                            \/ "ack" \in Events /\ PeerAcks(o)
       \/ "client" \in Events /\ ClientConnects
       \/ "foreign" \in Events /\ ForeignOpens
       \/ \E fd \in Fds : ForeignCloses(fd)
    /\ UNCHANGED <<listVars, objectVars, stack, batch, dns>>

Next == \/ ReactorStep \/ Timers \/ Application
        \/ \E o \in Socket : DnsAnswers(o)
        \/ Environment

Spec == Init /\ [][Next]_vars

HandlerStep == \/ \E fd \in Fds : AdoptAccepted(fd) \/ CloseSlot(fd)
               \/ \E o \in Socket : SocketStep(o)

(* The loops that go on until EAGAIN find nothing more to do now and then: *)
(* neither clients nor peers are faster than the reactor for ever.         *)
AcceptsAll == backlog = 0 /\ \E fd \in Fds : AdoptAccepted(fd)

ReadsAll(o) == []<>Running("read", o) => []<><<OnReadable(o) /\ net[o].inbox = 0>>_vars

(* Callbacks return, those called from callbacks too.                      *)
ReturnsAt(depth) == Len(CallbacksRunning) = depth /\ AppReturns

TimesOutStalled == Maintenance({fd \in Fds \cap Slots : Linked(fd) /\ Stalled(fd)})

(* The reactor's thread runs on, whatever the application does in between; *)
(* the timers fire (timer descriptors are level-triggered, every timer     *)
(* periodic); peers read what they are sent.  A socket that stays Closing  *)
(* is timed out in the end: nothing renews lastActive for ever once        *)
(* neither side adds data.                                                 *)
Fairness == /\ WF_vars(HandlerStep)
            /\ SF_vars(EpollWait \/ \E e \in batch : Dispatch(e))
            /\ SF_vars(AcceptsAll)
            /\ SF_vars(TimesOutStalled)
            /\ \A depth \in 1 .. MaxNesting + 1 : SF_vars(ReturnsAt(depth))
            /\ \A o \in Socket : /\ ReadsAll(o)
                                 /\ WF_vars(PeerAcks(o) /\ UNCHANGED <<listVars, objectVars,
                                                                     stack, batch, dns>>)

FairSpec == Spec /\ Fairness

-----------------------------------------------------------------------------
OnStack(o) == \E i \in DOMAIN stack : "o" \in DOMAIN stack[i] /\ stack[i].o = o
HasSlot(o, fd) == list[fd].type = "IS_TCP_SOCKET" /\ list[fd].socketBasePtr = o

(* A slot of the connection list never outlives what it points to: its     *)
(* socket is neither closed nor on its way to deletion, and the descriptor *)
(* of that number is still the socket's own.  It is what makes the         *)
(* dispatch in run() and the walk in maintenance() safe.                   *)
SlotsSound ==
    \A o \in Socket, fd \in Fds \cap Slots :
        HasSlot(o, fd) => /\ life[o] = "live"
                          /\ sock[o].status # "Closed"
                          /\ ~InGCList(o)
                          /\ owner[fd] = o

(* Once the garbage collector has deleted an object nothing leads to it    *)
(* any more: no slot, no name lookup, no frame of the call stack, no       *)
(* second entry of the collector's list.                                   *)
NoDanglingReference ==
    \A o \in Socket :
        life[o] = "freed" => /\ \A fd \in Fds \cap Slots : ~HasSlot(o, fd)
                             /\ o \notin dns
                             /\ ~OnStack(o)
                             /\ ~InGCList(o)

(* deleteLater is called at most once for an object, however often and     *)
(* from wherever it is closed, so it is deleted once.                      *)
RetiredOnce ==
    /\ \A i, j \in DOMAIN gcList : gcList[i] = gcList[j] => i = j
    /\ \A i, j \in DOMAIN stack :
          stack[i].pc = "retire" /\ stack[j] = stack[i] => i = j
    /\ \A o \in Socket : Frame("retire", o) \in {stack[i] : i \in DOMAIN stack}
          => ~InGCList(o) /\ sock[o].status = "Closed"

(* The handlers an event starts are those of the socket the kernel meant,  *)
(* even when that number was closed and reused earlier in the same batch.  *)
DeliveredToSubject ==
    [][\A e \in batch \ batch' : \A i \in DOMAIN stack' :
          "o" \in DOMAIN stack'[i] => stack'[i].o = e.about]_vars

(* onData is never called on a closed socket.  onReadable does not test    *)
(* the status: after a callback closed the socket it reads from the old    *)
(* number again, and only the missing buffer keeps it from taking the      *)
(* data of whoever has that number now.                                    *)
NoDataAfterClose ==
    [][\A o \in Socket : Running("read", o) /\ sock[o].status = "Closed"
          => Len(stack') <= Len(stack)]_vars

(* As long as data is queued on a registered socket the kernel is asked    *)
(* for EPOLLOUT, so the queue cannot be forgotten (clsTCPSocket.cpp:596).  *)
QueueHasEpollout ==
    \A o \in Socket, fd \in Fds :
        /\ owner[fd] = o /\ Watched(fd)
        /\ sock[o].queue # << >>
        => "OUT" \in interest[fd].events

(* While a socket waits for its queue to drain it can still write, unless  *)
(* the peer reset the connection (clsTCPSocket.cpp:257-263).               *)
DrainPossible ==
    \A o \in Socket :
        /\ sock[o].pendingClose /\ sock[o].queue # << >>
        /\ Open(o)
        => net[o].wr # "shut"

(* A socket that is Closing is closed in the end, by its queue draining or *)
(* by maintenance() (clsEpollReactor.cpp:71).                              *)
ClosingEnds ==
    \A o \in Socket : sock[o].status = "Closing" ~> sock[o].status # "Closing"

(* No wakeup is lost between EPOLLOUT being switched on and off and the    *)
(* edges of the kernel: when the application stops sending, queued data    *)
(* goes out, or the connection ends.                                       *)
QueueDrains ==
    \A o \in Socket :
        <>[][~ \E n \in SendSizes : AppSends(o, n)]_vars
        => (sock[o].queue # << >> ~> sock[o].queue = << >>)

=============================================================================
