-------------------------- MODULE StaleEventsProof --------------------------
(***************************************************************************)
(* Proofs about StaleEvents, for every number of slots, every width of the *)
(* generation counter and any number of events in flight and turns of the  *)
(* counter.                                                                *)
(*                                                                         *)
(* A generation alone does not order anything, since the counter wraps; a  *)
(* generation together with the turn it was handed out in does.  The       *)
(* inductive invariant says that these stamps only grow: an event is never *)
(* newer than the slot of its descriptor, a slot never newer than the      *)
(* counter, and an event as new as its slot is about what is in the slot.  *)
(***************************************************************************)
EXTENDS StaleEvents, TLAPS

(* Stamp <<t1, g1>> is not later than <<t2, g2>>.                          *)
NotLater(t1, g1, t2, g2) == t1 < t2 \/ (t1 = t2 /\ g1 <= g2)

SlotsBehindCounter ==
    \A fd \in Slots : NotLater(slotTurn[fd], list[fd].genID, turn, genIDCounter)

KeysMatchSlots ==
    \A fd \in Slots :
        key[fd] # NoKey => /\ key[fd] = [genID |-> list[fd].genID, turn |-> slotTurn[fd]]
                           /\ list[fd].type # "IS_NOT_SET"

EventsBehindSlots ==
    \A e \in inflight :
        NotLater(e.turn, e.genID, slotTurn[e.fd], list[e.fd].genID)

EventsOfTheirSlots ==
    \A e \in inflight :
        e.turn = slotTurn[e.fd] /\ e.genID = list[e.fd].genID =>
            /\ key[e.fd] = [genID |-> e.genID, turn |-> e.turn]
            /\ key[e.fd] # NoKey
            /\ list[e.fd].socketBasePtr = e.ptr

IInv == /\ TypeOK
        /\ SlotsBehindCounter
        /\ KeysMatchSlots
        /\ EventsBehindSlots
        /\ EventsOfTheirSlots

-----------------------------------------------------------------------------
(* What the counter's arithmetic yields, on the way up and at the wrap.    *)
LEMMA CounterSteps ==
    ASSUME NEW c \in Gens
    PROVE  /\ Incremented(c) \in Gens
           /\ AddedGen(c) \in Gens
           /\ AddedGen(c) # 0
           /\ Wraps(c) \in {0, 1}
           /\ Wraps(c) = 0 => AddedGen(c) > c /\ Incremented(c) > c
  BY ListAssumption, SMT DEF Incremented, AddedGen, Wraps, Gens

(* The active list keeps its type when a slot is linked or unlinked.       *)
LEMMA PushBackType ==
    ASSUME active \in Seq(Slots), NEW fd \in Slots, PushBack(fd)
    PROVE  active' \in Seq(Slots)
  BY SMT DEF PushBack

LEMMA UnlinkType ==
    ASSUME active \in Seq(Slots), NEW fd \in Slots, Unlink(fd)
    PROVE  active' \in Seq(Slots)
<1>1. CASE ~Linked(fd) /\ active' = active
  BY <1>1
<1>2. CASE \E i \in DOMAIN active :
             /\ active[i] = fd
             /\ active' = [j \in 1 .. Len(active) - 1 |->
                             IF j < i THEN active[j] ELSE active[j + 1]]
  <2>1. PICK i \in 1 .. Len(active) :
             active' = [j \in 1 .. Len(active) - 1 |->
                          IF j < i THEN active[j] ELSE active[j + 1]]
    BY <1>2
  <2>2. Len(active) - 1 \in Nat
    BY <2>1
  <2>3. \A j \in 1 .. Len(active) - 1 :
            (IF j < i THEN active[j] ELSE active[j + 1]) \in Slots
    BY <2>1
  <2> QED
    BY <2>1, <2>2, <2>3 DEF Slots
<1> QED
  BY <1>1, <1>2 DEF Unlink

-----------------------------------------------------------------------------
(* SocketList::add and SocketList::remove keep the list's type.            *)
LEMMA AddType ==
    ASSUME ListTypeOK, NEW fd \in Slots, NEW sockType \in SockTypes,
           NEW ptr \in Socket \cup {NoSocket}, Add(fd, sockType, ptr)
    PROVE  ListTypeOK'
<1>1. AddedGen(genIDCounter) \in Gens
  BY CounterSteps DEF ListTypeOK
<1>2. list' \in [Slots -> SockInfo]
  BY <1>1 DEF ListTypeOK, Add, SockInfo
<1>3. active' \in Seq(Slots)
  BY PushBackType DEF ListTypeOK, Add
<1> QED
  BY <1>1, <1>2, <1>3 DEF ListTypeOK, Add

LEMMA RemoveType ==
    ASSUME ListTypeOK, NEW fd \in Slots, Remove(fd)
    PROVE  ListTypeOK'
<1>1. /\ Incremented(genIDCounter) \in Gens
      /\ Incremented(Incremented(genIDCounter)) \in Gens
  BY CounterSteps DEF ListTypeOK
<1>2. list' \in [Slots -> SockInfo]
  BY <1>1 DEF ListTypeOK, Remove, SockInfo, SockTypes
<1>3. active' \in Seq(Slots)
  BY UnlinkType DEF ListTypeOK, Remove
<1> QED
  BY <1>1, <1>2, <1>3 DEF ListTypeOK, Remove

(* The stamp a slot gets from add() is the counter's own afterwards, and   *)
(* later than every stamp there was.                                       *)
LEMMA AddStamp ==
    ASSUME ListTypeOK, turn \in Nat, NEW fd \in Slots, NEW sockType \in SockTypes,
           NEW ptr \in Socket \cup {NoSocket}, Add(fd, sockType, ptr),
           turn' = turn + Wraps(genIDCounter)
    PROVE  /\ turn' \in Nat
           /\ list'[fd].genID = genIDCounter'
           /\ genIDCounter' # 0
           /\ ~NotLater(turn', genIDCounter', turn, genIDCounter)
           /\ NotLater(turn, genIDCounter, turn', genIDCounter')
<1>1. genIDCounter \in Gens /\ genIDCounter' = AddedGen(genIDCounter)
  BY DEF ListTypeOK, Add
<1>2. list'[fd].genID = AddedGen(genIDCounter)
  BY DEF ListTypeOK, Add
<1>3. /\ AddedGen(genIDCounter) \in Gens
      /\ AddedGen(genIDCounter) # 0
      /\ Wraps(genIDCounter) \in {0, 1}
      /\ Wraps(genIDCounter) = 0 => AddedGen(genIDCounter) > genIDCounter
  BY <1>1, CounterSteps
<1> QED
  BY <1>1, <1>2, <1>3 DEF NotLater, Gens

(* The same of remove(), whose slot may get generation 0.                  *)
LEMMA RemoveStamp ==
    ASSUME ListTypeOK, turn \in Nat, NEW fd \in Slots, Remove(fd),
           NEW slot, slot = turn + Wraps(genIDCounter),
           turn' = turn + Wraps(genIDCounter) + Wraps(Incremented(genIDCounter))
    PROVE  /\ slot \in Nat /\ turn' \in Nat
           /\ ~NotLater(slot, list'[fd].genID, turn, genIDCounter)
           /\ NotLater(turn, genIDCounter, slot, list'[fd].genID)
           /\ NotLater(slot, list'[fd].genID, turn', genIDCounter')
<1> DEFINE next == Incremented(genIDCounter)
<1>1. genIDCounter \in Gens /\ genIDCounter' = Incremented(next)
  BY DEF ListTypeOK, Remove
<1>2. list'[fd].genID = next
  BY DEF ListTypeOK, Remove
<1>3. /\ next \in Gens
      /\ Wraps(genIDCounter) \in {0, 1}
      /\ Wraps(genIDCounter) = 0 => next > genIDCounter
  BY <1>1, CounterSteps
<1>4. /\ Incremented(next) \in Gens
      /\ Wraps(next) \in {0, 1}
      /\ Wraps(next) = 0 => Incremented(next) > next
  BY <1>3, CounterSteps
<1> QED
  BY <1>1, <1>2, <1>3, <1>4 DEF NotLater, Gens, next

-----------------------------------------------------------------------------
LEMMA TypeInit == Init => TypeOK
<1> SUFFICES ASSUME Init PROVE TypeOK
  OBVIOUS
<1>1. ListTypeOK
  BY ListAssumption DEF Init, ListInit, ListTypeOK, Slots, Gens, SockInfo, SockTypes
<1> QED
  BY <1>1, ListAssumption DEF Init, TypeOK, Keys, NoKey, Gens

(* What Register and RegisterFails have in common, and Unregister, keep    *)
(* the stamps in their types.                                              *)
LEMMA TypeStep == TypeOK /\ [Next]_vars => TypeOK'
<1> SUFFICES ASSUME TypeOK, [Next]_vars PROVE TypeOK'
  OBVIOUS
<1> USE DEF TypeOK
<1>1. ASSUME NEW fd \in Slots, NEW sockType \in SockTypes, NEW ptr \in Socket \cup {NoSocket},
             Register(fd, sockType, ptr)
      PROVE  TypeOK'
  <2>1. ListTypeOK'
    BY <1>1, AddType DEF Register
  <2>2. turn' \in Nat
    BY <1>1, AddStamp DEF Register
  <2>3. list'[fd].genID \in Gens
    BY <2>1 DEF ListTypeOK, SockInfo
  <2> QED
    BY <1>1, <2>1, <2>2, <2>3 DEF Register, Keys
<1>2. ASSUME NEW fd \in Slots, NEW sockType \in SockTypes, NEW ptr \in Socket \cup {NoSocket},
             RegisterFails(fd, sockType, ptr)
      PROVE  TypeOK'
  <2>1. ListTypeOK'
    BY <1>2, AddType DEF RegisterFails
  <2>2. turn' \in Nat
    BY <1>2, AddStamp DEF RegisterFails
  <2> QED
    BY <1>2, <2>1, <2>2 DEF RegisterFails
<1>3. ASSUME NEW fd \in Slots, Unregister(fd)
      PROVE  TypeOK'
  <2>1. ListTypeOK'
    BY <1>3, RemoveType DEF Unregister
  <2>2. turn' \in Nat /\ turn + Wraps(genIDCounter) \in Nat
    BY <1>3, RemoveStamp DEF Unregister
  <2>3. NoKey \in Keys
    BY ListAssumption DEF NoKey, Keys, Gens
  <2> QED
    BY <1>3, <2>1, <2>2, <2>3 DEF Unregister
<1>4. ASSUME NEW fd \in Slots, EpollWait(fd)
      PROVE  TypeOK'
  <2>1. [fd |-> fd, genID |-> key[fd].genID, turn |-> key[fd].turn,
         ptr |-> list[fd].socketBasePtr] \in Events
    BY DEF Events, Keys, ListTypeOK, SockInfo
  <2> QED
    BY <1>4, <2>1 DEF EpollWait, ListTypeOK, listVars
<1>5. ASSUME NEW e \in inflight, Dispatch(e)
      PROVE  TypeOK'
  BY <1>5 DEF Dispatch, ListTypeOK, listVars
<1>6. CASE UNCHANGED vars
  BY <1>6 DEF vars, ListTypeOK, listVars
<1> QED
  BY <1>1, <1>2, <1>3, <1>4, <1>5, <1>6 DEF Next, SockTypes

(* Every variable of the list's users keeps its type, whatever the number  *)
(* of slots and the width of the counter.                                  *)
THEOREM TypeCorrect == Spec => []TypeOK
  BY TypeInit, TypeStep, PTL DEF Spec

-----------------------------------------------------------------------------
Stamps == SlotsBehindCounter /\ KeysMatchSlots /\ EventsBehindSlots /\ EventsOfTheirSlots

LEMMA NotLaterTransitive ==
    ASSUME NEW a \in Int, NEW b \in Int, NEW c \in Int, NEW d \in Int, NEW e \in Int, NEW f \in Int,
           NotLater(a, b, c, d), NotLater(c, d, e, f)
    PROVE  NotLater(a, b, e, f)
  BY DEF NotLater

(* A slot fd that gets a later stamp, with whatever key: the events in     *)
(* flight for fd are behind it for good, all others are as they were.      *)
LEMMA LaterSlot ==
    ASSUME IInv, TypeOK', NEW fd \in Slots,
           ~NotLater(slotTurn'[fd], list'[fd].genID, turn, genIDCounter),
           NotLater(slotTurn'[fd], list'[fd].genID, turn', genIDCounter'),
           NotLater(turn, genIDCounter, turn', genIDCounter'),
           \A g \in Slots \ {fd} : /\ list'[g] = list[g] /\ slotTurn'[g] = slotTurn[g]
                                  /\ key'[g] = key[g],
           key'[fd] # NoKey => /\ key'[fd] = [genID |-> list'[fd].genID, turn |-> slotTurn'[fd]]
                               /\ list'[fd].type # "IS_NOT_SET",
           inflight' = inflight
    PROVE  Stamps'
<1> USE DEF IInv, TypeOK, ListTypeOK
<1>t. /\ turn \in Int /\ turn' \in Int /\ genIDCounter \in Int /\ genIDCounter' \in Int
      /\ \A g \in Slots : /\ list[g].genID \in Int /\ slotTurn[g] \in Int
                          /\ list'[g].genID \in Int /\ slotTurn'[g] \in Int
  BY DEF SockInfo, Gens
<1>1. SlotsBehindCounter'
  <2> SUFFICES ASSUME NEW g \in Slots
               PROVE  NotLater(slotTurn'[g], list'[g].genID, turn', genIDCounter')
    BY DEF SlotsBehindCounter
  <2>1. CASE g = fd
    BY <2>1
  <2>2. CASE g # fd
    <3>1. NotLater(slotTurn[g], list[g].genID, turn, genIDCounter)
      BY DEF SlotsBehindCounter
    <3> QED
      BY <3>1, <2>2, <1>t DEF NotLater
  <2> QED
    BY <2>1, <2>2
<1>2. KeysMatchSlots'
  BY DEF KeysMatchSlots
<1>3. ASSUME NEW e \in inflight
      PROVE  /\ NotLater(e.turn, e.genID, slotTurn'[e.fd], list'[e.fd].genID)
             /\ e.fd = fd => ~(e.turn = slotTurn'[fd] /\ e.genID = list'[fd].genID)
  <2>1. e.fd \in Slots /\ e.turn \in Int /\ e.genID \in Int
    BY DEF Events, Gens
  <2>2. NotLater(e.turn, e.genID, slotTurn[e.fd], list[e.fd].genID)
    BY DEF EventsBehindSlots
  <2>3. NotLater(slotTurn[e.fd], list[e.fd].genID, turn, genIDCounter)
    BY <2>1 DEF SlotsBehindCounter
  <2>4. CASE e.fd # fd
    BY <2>1, <2>2, <2>4
  <2>5. CASE e.fd = fd
    <3>1. /\ slotTurn[e.fd] \in Int /\ list[e.fd].genID \in Int
          /\ turn \in Int /\ genIDCounter \in Int
      BY <1>t, <2>1
    <3>2. NotLater(e.turn, e.genID, turn, genIDCounter)
      BY ONLY <2>1, <2>2, <2>3, <3>1, NotLaterTransitive
    <3>3. ~(e.turn = slotTurn'[fd] /\ e.genID = list'[fd].genID)
      BY <3>2
    <3>4. NotLater(turn, genIDCounter, slotTurn'[fd], list'[fd].genID)
      BY <1>t DEF NotLater
    <3>5. slotTurn'[fd] \in Int /\ list'[fd].genID \in Int
      BY <1>t
    <3>6. NotLater(e.turn, e.genID, slotTurn'[fd], list'[fd].genID)
      BY ONLY <2>1, <3>1, <3>2, <3>4, <3>5, NotLaterTransitive
    <3> QED
      BY <2>5, <3>3, <3>6
  <2> QED
    BY <2>4, <2>5
<1>4. EventsBehindSlots'
  BY <1>3 DEF EventsBehindSlots
<1>5. EventsOfTheirSlots'
  <2> SUFFICES ASSUME NEW e \in inflight,
                      e.turn = slotTurn'[e.fd], e.genID = list'[e.fd].genID
               PROVE  /\ key'[e.fd] = [genID |-> e.genID, turn |-> e.turn]
                      /\ key'[e.fd] # NoKey
                      /\ list'[e.fd].socketBasePtr = e.ptr
    BY DEF EventsOfTheirSlots
  <2>1. e.fd \in Slots \ {fd}
    BY <1>3 DEF Events
  <2> QED
    BY <2>1, ZenonT(40) DEF EventsOfTheirSlots
<1> QED
  BY <1>1, <1>2, <1>4, <1>5 DEF Stamps

LEMMA StampsInit == Init => Stamps
<1> SUFFICES ASSUME Init PROVE Stamps
  OBVIOUS
<1> QED
  BY DEF Init, ListInit, Stamps, SlotsBehindCounter, KeysMatchSlots, EventsBehindSlots,
         EventsOfTheirSlots, NotLater

LEMMA StampsStep == IInv /\ [Next]_vars => Stamps'
<1> SUFFICES ASSUME IInv, [Next]_vars PROVE Stamps'
  OBVIOUS
<1>t. TypeOK /\ ListTypeOK /\ TypeOK' /\ turn \in Nat
  BY TypeStep DEF IInv, TypeOK
<1>1. ASSUME NEW fd \in Slots, NEW sockType \in SockTypes \ {"IS_NOT_SET"},
             NEW ptr \in Socket \cup {NoSocket}, Register(fd, sockType, ptr)
      PROVE  Stamps'
  <2>1. /\ list'[fd].genID = genIDCounter' /\ genIDCounter' \in Int /\ turn' \in Int
        /\ ~NotLater(turn', genIDCounter', turn, genIDCounter)
        /\ NotLater(turn, genIDCounter, turn', genIDCounter')
    BY <1>1, <1>t, AddStamp DEF Register, TypeOK, ListTypeOK, Gens
  <2>2. /\ slotTurn'[fd] = turn' /\ list'[fd].type = sockType
        /\ key'[fd] = [genID |-> list'[fd].genID, turn |-> turn']
    BY <1>1, <1>t DEF Register, Add, TypeOK, ListTypeOK
  <2>3. \A g \in Slots \ {fd} : /\ list'[g] = list[g] /\ slotTurn'[g] = slotTurn[g]
                                /\ key'[g] = key[g]
    BY <1>1, <1>t DEF Register, Add, TypeOK, ListTypeOK
  <2>4. NotLater(turn', genIDCounter', turn', genIDCounter')
    BY <2>1 DEF NotLater
  <2>5. inflight' = inflight
    BY <1>1 DEF Register
  <2> QED
    BY <1>t, <2>1, <2>2, <2>3, <2>4, <2>5, LaterSlot
<1>2. ASSUME NEW fd \in Slots, NEW sockType \in SockTypes,
             NEW ptr \in Socket \cup {NoSocket}, RegisterFails(fd, sockType, ptr)
      PROVE  Stamps'
  <2>1. /\ list'[fd].genID = genIDCounter' /\ genIDCounter' \in Int /\ turn' \in Int
        /\ ~NotLater(turn', genIDCounter', turn, genIDCounter)
        /\ NotLater(turn, genIDCounter, turn', genIDCounter')
    BY <1>2, <1>t, AddStamp DEF RegisterFails, TypeOK, ListTypeOK, Gens
  <2>2. slotTurn'[fd] = turn' /\ key'[fd] = NoKey
    BY <1>2, <1>t DEF RegisterFails, TypeOK
  <2>3. \A g \in Slots \ {fd} : /\ list'[g] = list[g] /\ slotTurn'[g] = slotTurn[g]
                                /\ key'[g] = key[g]
    BY <1>2, <1>t DEF RegisterFails, Add, TypeOK, ListTypeOK
  <2>4. NotLater(turn', genIDCounter', turn', genIDCounter')
    BY <2>1 DEF NotLater
  <2>5. inflight' = inflight
    BY <1>2 DEF RegisterFails
  <2> QED
    BY <1>t, <2>1, <2>2, <2>3, <2>4, <2>5, LaterSlot
<1>3. ASSUME NEW fd \in Slots, Unregister(fd)
      PROVE  Stamps'
  <2>1. slotTurn'[fd] = turn + Wraps(genIDCounter) /\ key'[fd] = NoKey
    BY <1>3, <1>t DEF Unregister, TypeOK
  <2>2. /\ ~NotLater(slotTurn'[fd], list'[fd].genID, turn, genIDCounter)
        /\ NotLater(turn, genIDCounter, slotTurn'[fd], list'[fd].genID)
        /\ NotLater(slotTurn'[fd], list'[fd].genID, turn', genIDCounter')
    BY <1>3, <1>t, <2>1, RemoveStamp DEF Unregister
  <2>3. \A g \in Slots \ {fd} : /\ list'[g] = list[g] /\ slotTurn'[g] = slotTurn[g]
                                /\ key'[g] = key[g]
    BY <1>3, <1>t DEF Unregister, Remove, TypeOK, ListTypeOK
  <2>4. NotLater(turn, genIDCounter, turn', genIDCounter')
    BY <1>t, <2>2 DEF NotLater, TypeOK, ListTypeOK, SockInfo, Gens
  <2>5. inflight' = inflight
    BY <1>3 DEF Unregister
  <2> QED
    BY <1>t, <2>1, <2>2, <2>3, <2>4, <2>5, LaterSlot
<1>4. ASSUME NEW fd \in Slots, EpollWait(fd)
      PROVE  Stamps'
  <2> DEFINE new == [fd |-> fd, genID |-> key[fd].genID, turn |-> key[fd].turn,
                     ptr |-> list[fd].socketBasePtr]
  <2>1. /\ inflight' = inflight \cup {new}
        /\ UNCHANGED <<list, genIDCounter, key, turn, slotTurn>>
    BY <1>4 DEF EpollWait, listVars
  <2>2. /\ key[fd] = [genID |-> list[fd].genID, turn |-> slotTurn[fd]]
        /\ key[fd] # NoKey
    BY <1>4 DEF IInv, KeysMatchSlots, EpollWait
  <2>3. /\ new.fd = fd /\ new.genID = list[fd].genID /\ new.turn = slotTurn[fd]
        /\ new.ptr = list[fd].socketBasePtr
    BY <2>2
  <2>4. NotLater(new.turn, new.genID, slotTurn[fd], list[fd].genID)
    BY <2>3, <1>t DEF NotLater, TypeOK, ListTypeOK, SockInfo, Gens
  <2>5. SlotsBehindCounter' /\ KeysMatchSlots'
    BY <2>1 DEF IInv, SlotsBehindCounter, KeysMatchSlots
  <2> HIDE DEF new
  <2>6. EventsBehindSlots'
    BY <2>1, <2>3, <2>4 DEF IInv, EventsBehindSlots
  <2>7. EventsOfTheirSlots'
    BY <2>1, <2>2, <2>3 DEF IInv, EventsOfTheirSlots
  <2> QED
    BY <2>5, <2>6, <2>7 DEF Stamps
<1>5. ASSUME NEW e \in inflight, Dispatch(e)
      PROVE  Stamps'
  BY <1>5 DEF Dispatch, listVars, IInv, Stamps, SlotsBehindCounter, KeysMatchSlots,
              EventsBehindSlots, EventsOfTheirSlots
<1>6. CASE UNCHANGED vars
  BY <1>6 DEF vars, listVars, IInv, Stamps, SlotsBehindCounter, KeysMatchSlots,
              EventsBehindSlots, EventsOfTheirSlots
<1> QED
  BY <1>1, <1>2, <1>3, <1>4, <1>5, <1>6 DEF Next, SockTypes

(* The order of the stamps is enough: an event the list accepts carries    *)
(* the generation of its slot, and as long as the counter has not come     *)
(* back to it that generation is of the slot's turn, so the stamps agree.  *)
LEMMA StampsReject == IInv => StaleEventsRejected
<1> SUFFICES ASSUME IInv, NEW e \in inflight, Get(e.fd, e.genID), Fresh(e)
             PROVE  /\ list[e.fd].type # "IS_NOT_SET"
                    /\ list[e.fd].socketBasePtr = e.ptr
                    /\ key[e.fd] = [genID |-> e.genID, turn |-> e.turn]
  BY DEF StaleEventsRejected
<1>1. /\ e.fd \in Slots /\ e.turn \in Int /\ e.genID \in Int /\ turn \in Int
      /\ slotTurn[e.fd] \in Int /\ list[e.fd].genID \in Int /\ genIDCounter \in Int
  BY DEF IInv, TypeOK, ListTypeOK, SockInfo, Gens, Events
<1>2. NotLater(e.turn, e.genID, slotTurn[e.fd], list[e.fd].genID)
  BY DEF IInv, EventsBehindSlots
<1>3. NotLater(slotTurn[e.fd], list[e.fd].genID, turn, genIDCounter)
  BY <1>1 DEF IInv, SlotsBehindCounter
<1>4. e.genID = list[e.fd].genID
  BY DEF Get
<1>5. e.turn = slotTurn[e.fd]
  BY <1>1, <1>2, <1>3, <1>4 DEF NotLater, Fresh
<1> QED
  BY <1>1, <1>4, <1>5 DEF IInv, EventsOfTheirSlots, KeysMatchSlots

LEMMA IInvInit == Init => IInv
  BY TypeInit, StampsInit DEF IInv, Stamps

LEMMA IInvStep == IInv /\ [Next]_vars => IInv'
<1> SUFFICES ASSUME IInv, [Next]_vars PROVE IInv'
  OBVIOUS
<1> QED
  BY TypeStep, StampsStep DEF IInv, Stamps

(* No event of a closed connection reaches the one that has its descriptor *)
(* now, for any width of the counter, as long as the counter does not turn *)
(* all the way round while the event waits.                                *)
THEOREM StaleRejected == Spec => []StaleEventsRejected
  BY IInvInit, IInvStep, StampsReject, PTL DEF Spec

-----------------------------------------------------------------------------
(* push_back and remove, on a list without repetition: linking is exact.   *)
Distinct == \A i, j \in DOMAIN active : active[i] = active[j] => i = j

LEMMA PushBackExact ==
    ASSUME active \in Seq(Slots), Distinct, NEW fd \in Slots, PushBack(fd)
    PROVE  /\ Distinct'
           /\ \A g \in Slots : Linked(g)' <=> Linked(g) \/ g = fd
<1>1. CASE Linked(fd)
  BY <1>1 DEF PushBack, Linked, Distinct
<1>2. CASE ~Linked(fd)
  <2>1. active' = Append(active, fd)
    BY <1>2 DEF PushBack
  <2>2. /\ DOMAIN active = 1 .. Len(active)
        /\ DOMAIN active' = 1 .. Len(active) + 1
        /\ \A i \in 1 .. Len(active) : active'[i] = active[i]
        /\ active'[Len(active) + 1] = fd
        /\ Len(active) \in Nat
    BY <2>1
  <2> QED
    BY <1>2, <2>2 DEF Linked, Distinct
<1> QED
  BY <1>1, <1>2

LEMMA UnlinkExact ==
    ASSUME active \in Seq(Slots), Distinct, NEW fd \in Slots, Unlink(fd)
    PROVE  /\ Distinct'
           /\ \A g \in Slots : Linked(g)' <=> Linked(g) /\ g # fd
<1>1. CASE ~Linked(fd) /\ active' = active
  BY <1>1 DEF Linked, Distinct
<1>2. ASSUME NEW i \in DOMAIN active, active[i] = fd,
             active' = [j \in 1 .. Len(active) - 1 |->
                          IF j < i THEN active[j] ELSE active[j + 1]]
      PROVE  /\ Distinct'
             /\ \A g \in Slots : Linked(g)' <=> Linked(g) /\ g # fd
  <2>1. /\ Len(active) \in Nat /\ DOMAIN active = 1 .. Len(active) /\ i \in 1 .. Len(active)
        /\ DOMAIN active' = 1 .. Len(active) - 1
        /\ \A j \in 1 .. Len(active) - 1 : active'[j] = IF j < i THEN active[j] ELSE active[j + 1]
    BY <1>2
  <2>2. Distinct'
    <3> DEFINE old(j) == IF j < i THEN j ELSE j + 1
    <3>1. \A j \in 1 .. Len(active) - 1 : old(j) \in 1 .. Len(active) /\ active'[j] = active[old(j)]
      BY <2>1
    <3>2. \A j, k \in 1 .. Len(active) - 1 : old(j) = old(k) => j = k
      BY <2>1
    <3> HIDE DEF old
    <3> QED
      BY <2>1, <3>1, <3>2 DEF Distinct
  <2>3. ASSUME NEW g \in Slots, Linked(g)'
        PROVE  Linked(g) /\ g # fd
    <3>1. PICK j \in 1 .. Len(active) - 1 : active'[j] = g
      BY <2>1, <2>3 DEF Linked
    <3>2. PICK k \in 1 .. Len(active) : k # i /\ active[k] = g
      BY <2>1, <3>1
    <3> QED
      BY <1>2, <2>1, <3>2 DEF Linked, Distinct
  <2>4. ASSUME NEW g \in Slots, Linked(g), g # fd
        PROVE  Linked(g)'
    <3>1. PICK k \in 1 .. Len(active) : k # i /\ active[k] = g
      BY <1>2, <2>1, <2>4 DEF Linked
    <3> DEFINE j == IF k < i THEN k ELSE k - 1
    <3>2. j \in 1 .. Len(active) - 1 /\ active'[j] = g
      BY <2>1, <3>1
    <3> QED
      BY <2>1, <3>2 DEF Linked
  <2> QED
    BY <2>2, <2>3, <2>4
<1> QED
  BY <1>1, <1>2 DEF Unlink

LEMMA AddExact ==
    ASSUME ListTypeOK, ActiveListExact, NEW fd \in Slots,
           NEW sockType \in SockTypes \ {"IS_NOT_SET"}, NEW ptr, Add(fd, sockType, ptr)
    PROVE  ActiveListExact'
<1>1. Distinct' /\ \A g \in Slots : Linked(g)' <=> Linked(g) \/ g = fd
  BY PushBackExact DEF ListTypeOK, ActiveListExact, Distinct, Add
<1>2. /\ list'[fd].type = sockType
      /\ \A g \in Slots \ {fd} : list'[g] = list[g]
  BY DEF ListTypeOK, Add
<1> QED
  BY <1>1, <1>2 DEF ActiveListExact, Distinct

LEMMA RemoveExact ==
    ASSUME ListTypeOK, ActiveListExact, NEW fd \in Slots, Remove(fd)
    PROVE  ActiveListExact'
<1>1. Distinct' /\ \A g \in Slots : Linked(g)' <=> Linked(g) /\ g # fd
  BY UnlinkExact DEF ListTypeOK, ActiveListExact, Distinct, Remove
<1>2. /\ list'[fd].type = "IS_NOT_SET"
      /\ \A g \in Slots \ {fd} : list'[g] = list[g]
  BY DEF ListTypeOK, Remove
<1> QED
  BY <1>1, <1>2 DEF ActiveListExact, Distinct

LEMMA ExactInit == Init => ActiveListExact
  BY DEF Init, ListInit, ActiveListExact, Linked

LEMMA ExactStep == TypeOK /\ ActiveListExact /\ [Next]_vars => ActiveListExact'
<1> SUFFICES ASSUME TypeOK, ActiveListExact, [Next]_vars PROVE ActiveListExact'
  OBVIOUS
<1>t. ListTypeOK
  BY DEF TypeOK
<1>1. ASSUME NEW fd \in Slots, NEW ptr \in Socket \cup {NoSocket},
             NEW sockType \in SockTypes \ {"IS_NOT_SET"},
             Register(fd, sockType, ptr) \/ RegisterFails(fd, sockType, ptr)
      PROVE  ActiveListExact'
  BY <1>t, <1>1, AddExact DEF Register, RegisterFails
<1>2. ASSUME NEW fd \in Slots, Unregister(fd)
      PROVE  ActiveListExact'
  BY <1>t, <1>2, RemoveExact DEF Unregister
<1>3. CASE UNCHANGED listVars
  BY <1>3 DEF listVars, ActiveListExact, Linked
<1> QED
  BY <1>1, <1>2, <1>3 DEF Next, vars, EpollWait, Dispatch, SockTypes

(* The active list is the set of the slots in use, each of them once.      *)
THEOREM ListExact == Spec => []ActiveListExact
<1>1. Init => TypeOK /\ ActiveListExact
  BY TypeInit, ExactInit
<1>2. (TypeOK /\ ActiveListExact) /\ [Next]_vars => (TypeOK /\ ActiveListExact)'
  BY TypeStep, ExactStep
<1> QED
  BY <1>1, <1>2, PTL DEF Spec

=============================================================================
