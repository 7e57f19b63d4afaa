----------------------------- MODULE SocketList -----------------------------
(***************************************************************************)
(* The connection list of one reactor (src/src/clsSocketList.cpp): a       *)
(* vector of slots indexed by descriptor number, each slot stamped with a  *)
(* generation taken from one 32-bit counter, and an intrusive list of the  *)
(* slots in use (src/src/clsIntrusiveList.h).                              *)
(*                                                                         *)
(* The module holds the state and the operations only.  StaleEvents drives *)
(* it alone; EpollReactor extends it with the sockets and the kernel.      *)
(***************************************************************************)
EXTENDS Integers, Sequences, SocketObjects

CONSTANTS MaxFD,    \* m_list.size(): slots 0 .. MaxFD - 1
          MaxGen    \* the largest value of the counter (2^32 - 1 in the code)

ASSUME ListAssumption == /\ MaxFD \in Nat \ {0}
                         /\ MaxGen \in Nat /\ MaxGen >= 2

VARIABLES list,          \* m_list: descriptor number -> SockInfo
          genIDCounter,  \* m_genIDCounter
          active         \* m_activeConnectionList, first to last

listVars == <<list, genIDCounter, active>>

Slots == 0 .. MaxFD - 1
Gens == 0 .. MaxGen

SockTypes == {"IS_NOT_SET", "IS_TCP_LISTENER", "IS_TCP_SOCKET"}

SockInfo == [type: SockTypes, socketBasePtr: Socket \cup {NoSocket}, genID: Gens]

ListTypeOK == /\ list \in [Slots -> SockInfo]
              /\ genIDCounter \in Gens
              /\ active \in Seq(Slots)

(* The constructor leaves the type as it finds it; nobody reads the type   *)
(* of a slot that was never added.                                         *)
ListInit == /\ list = [fd \in Slots |-> [type |-> "IS_NOT_SET",
                                         socketBasePtr |-> NoSocket, genID |-> 0]]
            /\ genIDCounter = 0
            /\ active = << >>

-----------------------------------------------------------------------------
(* One ++m_genIDCounter on the unsigned counter.                           *)
IncrementedForEver(c) == c + 1   \* wrong: wider than its half of the key
Incremented(c) == IF c = MaxGen THEN 0 ELSE c + 1

(* add() never hands out generation 0; remove() has no such test.          *)
AddedGen(c) == IF Incremented(c) = 0 THEN 1 ELSE Incremented(c)

(* Descriptors add() refuses: 0, the negative ones, and those past the     *)
(* vector's end.                                                           *)
Addable(fd) == fd > 0 /\ fd < MaxFD

(* IntrusiveList::push_back leaves an element that is linked where it is;  *)
(* remove leaves the list alone when the element is not in it.             *)
Linked(fd) == \E i \in DOMAIN active : active[i] = fd
PushBackUntested(fd) == active' = Append(active, fd)   \* wrong: no test for a linked one
PushBack(fd) == active' = IF Linked(fd) THEN active ELSE Append(active, fd)
Unlink(fd) ==
    \/ ~Linked(fd) /\ active' = active
    \/ \E i \in DOMAIN active :
          /\ active[i] = fd
          /\ active' = [j \in 1 .. Len(active) - 1 |-> IF j < i THEN active[j] ELSE active[j + 1]]

(* SocketList::add on a descriptor it accepts.  A null pointer does not    *)
(* overwrite what the slot pointed to.                                     *)
Add(fd, sockType, ptr) ==
    /\ Addable(fd)
    /\ genIDCounter' = AddedGen(genIDCounter)
    /\ list' = [list EXCEPT ![fd] =
                  [type |-> sockType,
                   socketBasePtr |-> IF ptr = NoSocket THEN @.socketBasePtr ELSE ptr,
                   genID |-> AddedGen(genIDCounter)]]
    /\ PushBack(fd)

(* SocketList::remove: the slot gets a generation no key carries, then the *)
(* counter moves on once more.  The pointer stays in the slot.             *)
Remove(fd) ==
    IF fd \in Slots
    THEN /\ genIDCounter' = Incremented(Incremented(genIDCounter))
         /\ list' = [list EXCEPT ![fd] =
                       [type |-> "IS_NOT_SET", socketBasePtr |-> @.socketBasePtr,
                        genID |-> Incremented(genIDCounter)]]
         /\ Unlink(fd)
    ELSE UNCHANGED listVars

(* SocketList::get(fd, sockgenId) # nullptr.                               *)
GetByNumber(fd, gen) == fd \in Slots   \* wrong: descriptor numbers are reused
Get(fd, gen) == fd \in Slots /\ list[fd].genID = gen

=============================================================================
