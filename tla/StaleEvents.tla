---------------------------- MODULE StaleEvents -----------------------------
(***************************************************************************)
(* Why an event that epoll_wait already handed over, for a descriptor that *)
(* was closed and reused before the reactor came to it, does not reach the *)
(* new connection: EpollReactor::register_fd puts (fd, generation) in the  *)
(* 64-bit epoll key, run() looks the slot up with both halves.             *)
(*                                                                         *)
(* The generation comes from a counter that wraps.  The ghost variables    *)
(* count its turns, so that the module can say for how long a key stays    *)
(* good: until the counter has come back to it.                            *)
(***************************************************************************)
EXTENDS SocketList

VARIABLES key,       \* the kernel's interest list: descriptor -> key or NoKey
          inflight,  \* events read by epoll_wait and not dispatched yet
          turn,      \* ghost: how often genIDCounter has wrapped
          slotTurn   \* ghost: the turn in which each slot got its generation

vars == <<listVars, key, inflight, turn, slotTurn>>

NoKey == [genID |-> 0, turn |-> 0]   \* no key carries generation 0

Keys == [genID: Gens, turn: Nat]
Events == [fd: Slots, genID: Gens, turn: Nat, ptr: Socket \cup {NoSocket}]

(* The types of the variables.                                           *)
TypeOK == /\ ListTypeOK
          /\ key \in [Slots -> Keys]
          /\ inflight \subseteq Events
          /\ turn \in Nat
          /\ slotTurn \in [Slots -> Nat]

Init == /\ ListInit
        /\ key = [fd \in Slots |-> NoKey]
        /\ inflight = {}
        /\ turn = 0
        /\ slotTurn = [fd \in Slots |-> 0]

-----------------------------------------------------------------------------
Wraps(c) == IF c = MaxGen THEN 1 ELSE 0

(* register_fd: a slot, a key made of its generation, EPOLL_CTL_ADD.       *)
Register(fd, sockType, ptr) ==
    /\ key[fd] = NoKey
    /\ Add(fd, sockType, ptr)
    /\ turn' = turn + Wraps(genIDCounter)
    /\ slotTurn' = [slotTurn EXCEPT ![fd] = turn']
    /\ key' = [key EXCEPT ![fd] = [genID |-> list'[fd].genID, turn |-> turn']]
    /\ UNCHANGED inflight

(* register_fd when EPOLL_CTL_ADD fails: the slot is taken all the same.   *)
RegisterFails(fd, sockType, ptr) ==
    /\ Add(fd, sockType, ptr)
    /\ turn' = turn + Wraps(genIDCounter)
    /\ slotTurn' = [slotTurn EXCEPT ![fd] = turn']
    /\ key[fd] = NoKey
    /\ UNCHANGED <<key, inflight>>

(* del_fd(fd, true): EPOLL_CTL_DEL and SocketList::remove.                 *)
Unregister(fd) ==
    /\ Remove(fd)
    /\ slotTurn' = [slotTurn EXCEPT ![fd] = turn + Wraps(genIDCounter)]
    /\ turn' = turn + Wraps(genIDCounter) + Wraps(Incremented(genIDCounter))
    /\ key' = [key EXCEPT ![fd] = NoKey]
    /\ UNCHANGED inflight

(* epoll_wait stores an event for a registered descriptor in evs[].  The   *)
(* ghost field ptr is whom it is about.                                    *)
EpollWait(fd) ==
    /\ key[fd] # NoKey
    /\ inflight' = inflight \cup {[fd |-> fd, genID |-> key[fd].genID,
                                   turn |-> key[fd].turn,
                                   ptr |-> list[fd].socketBasePtr]}
    /\ UNCHANGED <<listVars, key, turn, slotTurn>>

(* run() takes the event up; what the handler then does to the list are    *)
(* Register and Unregister steps.                                          *)
Dispatch(e) ==
    /\ inflight' = inflight \ {e}
    /\ UNCHANGED <<listVars, key, turn, slotTurn>>

Next == \/ \E fd \in Slots, ptr \in Socket : Register(fd, "IS_TCP_SOCKET", ptr)
        \/ \E fd \in Slots : Register(fd, "IS_TCP_LISTENER", NoSocket)
        \/ \E fd \in Slots, ptr \in Socket : RegisterFails(fd, "IS_TCP_SOCKET", ptr)
        \/ \E fd \in Slots : Unregister(fd)
        \/ \E fd \in Slots : EpollWait(fd)
        \/ \E e \in inflight : Dispatch(e)

Spec == Init /\ [][Next]_vars

-----------------------------------------------------------------------------
(* The counter has not come back to the event's generation since the key   *)
(* was made.                                                               *)
Fresh(e) == \/ e.turn = turn
            \/ e.turn + 1 = turn /\ e.genID > genIDCounter

(* An event whose key the list accepts is about the socket that is in the  *)
(* slot now, unless the counter went all the way round while the event     *)
(* waited: the lookup in run() never hands a connection an event of the    *)
(* one that had its descriptor before (clsEpollReactor.cpp:478-491).       *)
StaleEventsRejected ==
    \A e \in inflight :
        Get(e.fd, e.genID) /\ Fresh(e) =>
            /\ list[e.fd].type # "IS_NOT_SET"
            /\ list[e.fd].socketBasePtr = e.ptr
            /\ key[e.fd] = [genID |-> e.genID, turn |-> e.turn]

(* The active list, which maintenance() walks, holds each slot in use once *)
(* and no other slot, in spite of push_back and remove being called on     *)
(* linked and unlinked elements alike.                                     *)
ActiveListExact ==
    /\ \A i, j \in DOMAIN active : active[i] = active[j] => i = j
    /\ \A fd \in Slots : Linked(fd) <=> list[fd].type # "IS_NOT_SET"

=============================================================================
