------------------------------- MODULE Kernel -------------------------------
(***************************************************************************)
(* What the reactor uses of the operating system: the descriptor table of  *)
(* the process, TCP sockets, and one edge-triggered epoll instance.  None  *)
(* of this is code of the repository; the definitions say what the system  *)
(* calls made by clsTCPSocket.cpp and clsEpollReactor.cpp do.              *)
(*                                                                         *)
(* A socket object opens at most one descriptor in its life, so the object *)
(* also names the kernel socket it opened.  Descriptors of the rest of the *)
(* process (other shards, timers, files) are Foreign.                      *)
(***************************************************************************)
EXTENDS Integers, Sequences, FiniteSets, SocketObjects

CONSTANTS KernelFDs,   \* bound: descriptors 1 .. KernelFDs can be open
          MaxInbox,    \* bound: units of data unread at a time
          SndBuf,      \* size of the kernel's send buffer, in units
          MaxBacklog   \* bound: connections that wait for accept4

ASSUME KernelAssumption == /\ KernelFDs \in Nat \ {0}
                           /\ MaxInbox \in Nat /\ MaxBacklog \in Nat
                           /\ SndBuf \in Nat \ {0}
                           /\ {"free", "foreign", "listener"} \cap Socket = {}

VARIABLES owner,     \* descriptor -> what is open under it
          interest,  \* descriptor -> its registration in the epoll instance
          armed,     \* descriptors with an edge epoll_wait has not reported
          net,       \* kernel socket -> its TCP state
          backlog    \* connections waiting on the listening socket

kernelVars == <<owner, interest, armed, net, backlog>>

Fds == 1 .. KernelFDs
Free == "free"
Foreign == "foreign"
Listener == "listener"
ListenFd == 1

Flags == {"IN", "OUT"}   \* RDHUP is always asked for; ERR, HUP need no asking
Unwatched == [gen |-> 0, events |-> {}]

Pristine == [est |-> FALSE, inbox |-> 0, fin |-> FALSE, err |-> FALSE,
             wr |-> "open", room |-> SndBuf]
Established == [Pristine EXCEPT !.est = TRUE]

KernelTypeOK ==
    /\ owner \in [Fds -> Socket \cup {Free, Foreign, Listener}]
    /\ interest \in [Fds -> [gen: Nat, events: SUBSET Flags]]
    /\ armed \subseteq Fds
    /\ net \in [Socket -> [est: BOOLEAN, inbox: 0 .. MaxInbox, fin: BOOLEAN,
                           err: BOOLEAN, wr: {"open", "shut", "reset"},
                           room: 0 .. SndBuf]]
    /\ backlog \in 0 .. MaxBacklog

-----------------------------------------------------------------------------
FreeFds == {fd \in Fds : owner[fd] = Free}

(* POSIX hands out the lowest free number.                                 *)
LowestFree == CHOOSE fd \in FreeFds : \A g \in FreeFds : fd <= g

Open(o) == \E fd \in Fds : owner[fd] = o
Watched(fd) == fd \in Fds /\ interest[fd] # Unwatched

(* A state change of kernel socket d is an edge for the descriptors that   *)
(* are registered with it.                                                 *)
EdgesOf(d) == {fd \in Fds : owner[fd] = d /\ Watched(fd)}
Wake(d) == armed' = armed \cup EdgesOf(d)

(* What epoll_wait reports for fd.                                         *)
Conditions(o) ==
    LET n == net[o] IN
    {c \in {"ERR", "HUP", "RDHUP", "IN", "OUT"} :
        CASE c = "ERR" -> n.err
          [] c = "HUP" -> n.fin /\ n.wr # "open"
          [] c = "RDHUP" -> n.fin
          [] c = "IN" -> n.inbox > 0 \/ n.fin
          [] c = "OUT" -> (n.est /\ n.room > 0) \/ n.wr # "open"}

Mask(fd) ==
    CASE owner[fd] \in Socket ->
             Conditions(owner[fd]) \cap (interest[fd].events \cup {"ERR", "HUP", "RDHUP"})
      [] owner[fd] = Listener -> IF backlog > 0 THEN {"IN"} ELSE {}
      [] OTHER -> {}

(* epoll_ctl(EPOLL_CTL_MOD): it fails on a descriptor that is not          *)
(* registered, and is an edge of its own on one that is.                   *)
CtlMod(fd, gen, events) ==
    IF Watched(fd)
    THEN /\ interest' = [interest EXCEPT ![fd] = [gen |-> gen, events |-> events]]
         /\ armed' = armed \cup {fd}
    ELSE UNCHANGED <<interest, armed>>

(* close(fd): the registration goes with the descriptor.                   *)
CloseFd(fd) ==
    IF fd \in Fds
    THEN /\ owner' = [owner EXCEPT ![fd] = Free]
         /\ interest' = [interest EXCEPT ![fd] = Unwatched]
         /\ armed' = armed \ {fd}
         /\ net' = IF owner[fd] \in Socket THEN [net EXCEPT ![owner[fd]] = Pristine] ELSE net
    ELSE UNCHANGED <<owner, interest, armed, net>>

(* The results of a read on number fd.  They follow from the state of the  *)
(* kernel socket open there, whoever asks; a closed number gives EBADF, a  *)
(* descriptor of the rest of the process anything.  A read into a null     *)
(* buffer brings no data (EFAULT).                                         *)
RecvResults(fd, buffer) ==
    CASE fd \notin Fds -> {"error"}
      [] fd \in Fds /\ owner[fd] \in {Free, Listener} -> {"error"}
      [] fd \in Fds /\ owner[fd] = Foreign ->
             {"error", "eof", "again"} \cup (IF buffer THEN {"data"} ELSE {})
      [] OTHER ->
             LET n == net[owner[fd]] IN
             {CASE n.inbox > 0 -> IF buffer THEN "data" ELSE "error"
                [] n.inbox = 0 /\ n.err -> "error"
                [] n.inbox = 0 /\ ~n.err /\ n.fin -> "eof"
                [] OTHER -> "again"}

(* The results of a write: "ok" takes at least one unit.                   *)
SendResults(fd) ==
    CASE fd \notin Fds -> {"error"}
      [] fd \in Fds /\ owner[fd] \in {Free, Listener} -> {"error"}
      [] fd \in Fds /\ owner[fd] = Foreign -> {"error", "again", "ok"}
      [] OTHER ->
             LET n == net[owner[fd]] IN
             {CASE n.err \/ n.wr # "open" -> "error"
                [] ~n.err /\ n.wr = "open" /\ n.est /\ n.room > 0 -> "ok"
                [] OTHER -> "again"}

HasSocket(fd) == fd \in Fds /\ owner[fd] \in Socket

(* Reading n units of the inbox, writing n units, taking the pending error *)
(* (getsockopt(SO_ERROR) and every call that reports it clear it).         *)
Received(fd) == IF HasSocket(fd) THEN [net EXCEPT ![owner[fd]].inbox = @ - 1] ELSE net
Sent(fd, n) == IF HasSocket(fd) THEN [net EXCEPT ![owner[fd]].room = @ - n] ELSE net
ErrorTaken(fd) == IF HasSocket(fd) THEN [net EXCEPT ![owner[fd]].err = FALSE] ELSE net
Room(fd) == IF HasSocket(fd) THEN net[owner[fd]].room ELSE SndBuf

SoErrors(fd) == CASE HasSocket(fd) -> {net[owner[fd]].err}
                  [] fd \in Fds /\ owner[fd] = Foreign -> BOOLEAN
                  [] OTHER -> {FALSE}

(* shutdown(fd, SHUT_WR).  It ends a connection attempt altogether.        *)
WriteShut(fd) ==
    IF HasSocket(fd) /\ net[owner[fd]].wr = "open"
    THEN [net EXCEPT ![owner[fd]].wr = "shut",
                     ![owner[fd]].fin = @ \/ ~net[owner[fd]].est]
    ELSE net

-----------------------------------------------------------------------------
(* The network and the rest of the process, at any moment.                 *)

NetStep(o, n) == /\ Open(o)
                 /\ net' = [net EXCEPT ![o] = n]
                 /\ Wake(o)
                 /\ UNCHANGED <<owner, interest, backlog>>

ConnectCompletes(o) == /\ ~net[o].est /\ net[o].wr = "open"
                       /\ NetStep(o, [net[o] EXCEPT !.est = TRUE])

(* RST, or a refused connection: both directions end, SO_ERROR is set.     *)
PeerResets(o) == /\ net[o].wr # "reset"
                 /\ NetStep(o, [net[o] EXCEPT !.err = TRUE, !.fin = TRUE, !.wr = "reset"])

DataArrives(o) == /\ net[o].est /\ ~net[o].fin /\ net[o].inbox < MaxInbox
                  /\ NetStep(o, [net[o] EXCEPT !.inbox = @ + 1])

PeerFinishes(o) == /\ net[o].est /\ ~net[o].fin
                   /\ NetStep(o, [net[o] EXCEPT !.fin = TRUE])

PeerAcks(o) == /\ net[o].wr # "reset" /\ net[o].room < SndBuf
               /\ NetStep(o, [net[o] EXCEPT !.room = @ + 1])

ClientConnects == /\ backlog < MaxBacklog
                  /\ backlog' = backlog + 1
                  /\ Wake(Listener)
                  /\ UNCHANGED <<owner, interest, net>>

ForeignOpens == /\ FreeFds # {}
                /\ owner' = [owner EXCEPT ![LowestFree] = Foreign]
                /\ UNCHANGED <<interest, armed, net, backlog>>

ForeignCloses(fd) == /\ owner[fd] = Foreign
                     /\ owner' = [owner EXCEPT ![fd] = Free]
                     /\ UNCHANGED <<interest, armed, net, backlog>>

=============================================================================
