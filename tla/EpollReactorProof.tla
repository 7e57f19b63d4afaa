------------------------- MODULE EpollReactorProof --------------------------
(***************************************************************************)
(* Proofs about the reactor and its sockets, for any number of sockets and *)
(* descriptors, any nesting of callbacks, and all the rare failures.       *)
(*                                                                         *)
(* The inductive invariant says which objects may still be named, and by   *)
(* what.  Every frame, name lookup and slot names a live object; an object *)
(* that is about to be retired, or waits for the collector, is closed and  *)
(* had a descriptor; one that waits for its address is not closed and has  *)
(* none; and a slot is its socket's own, under the number both know.       *)
(***************************************************************************)
EXTENDS EpollReactor, WellFoundedInduction, FiniteSetTheorems, TLAPS

NatLess == OpToRel(<, Nat)

Frames == {stack[i] : i \in DOMAIN stack}

AllFrames == SocketFrames \cup [pc: {"accept", "closeSlot"}, fd: Fds \cup Slots] \cup [pc: {"timer"}]

(* The members an object always has, whatever their values.                *)
Shaped(r) == r = [status |-> r.status, fd |-> r.fd, rbuf |-> r.rbuf, queue |-> r.queue,
                  len |-> r.len, gen |-> r.gen, events |-> r.events,
                  readPaused |-> r.readPaused, pendingClose |-> r.pendingClose]

Types == /\ list \in [Slots -> SockInfo] /\ genIDCounter \in Gens /\ active \in Seq(Slots)
         /\ owner \in [Fds -> Socket \cup {Free, Foreign, Listener}]
         /\ DOMAIN sock = Socket
         /\ \A o \in Socket : Shaped(sock[o]) /\ sock[o].fd \in Fds \cup {NoFd}
         /\ life \in [Socket -> {"fresh", "live", "freed"}]
         /\ gcList \in Seq(Socket)
         /\ stack \in Seq(AllFrames)
         /\ dns \subseteq Socket

(* A socket without a descriptor has nothing to send and waits for no      *)
(* drain; neither it nor a closed one has a buffer to read into.           *)
MembersFit ==
    \A o \in Socket : /\ sock[o].fd = NoFd => sock[o].queue = << >> /\ sock[o].pendingClose = FALSE
                      /\ sock[o].fd = NoFd \/ sock[o].status = "Closed" => sock[o].rbuf = FALSE

(* Retirement and the answer of a lookup come once for an object.          *)
Once(pc) == pc \in {"retire", "connect"}
FramesOnce == \A i, j \in DOMAIN stack : Once(stack[i].pc) /\ stack[j] = stack[i] => i = j

FramesAreLive == \A o \in Socket : (\E f \in Frames : "o" \in DOMAIN f /\ f.o = o) => life[o] = "live"

WalkIsLive ==
    \A f \in Frames : f.pc = "closeSlot" => /\ f.fd \in Slots
                                            /\ list[f.fd].socketBasePtr \in Socket
                                            /\ life[list[f.fd].socketBasePtr] = "live"

(* An object on its way to deletion.                                       *)
Going(o) == life[o] = "live" /\ sock[o].status = "Closed" /\ sock[o].fd # NoFd

RetiredAreGoing ==
    \A o \in Socket : /\ Frame("retire", o) \in Frames => Going(o) /\ ~InGCList(o)
                      /\ InGCList(o) => Going(o)
CollectedOnce == \A i, j \in DOMAIN gcList : gcList[i] = gcList[j] => i = j

(* An object that waits for its address.                                   *)
Waiting(o) == /\ life[o] = "live" /\ sock[o].status # "Closed" /\ sock[o].fd = NoFd
              /\ \A fd \in Slots : ~HasSlot(o, fd)

LookupsAreWaiting ==
    \A o \in Socket : /\ o \in dns => Waiting(o)
                      /\ Frame("connect", o) \in Frames => Waiting(o) /\ o \notin dns

SlotsFit ==
    \A fd \in Slots :
        list[fd].type = "IS_TCP_SOCKET" =>
            LET o == list[fd].socketBasePtr
            IN  /\ o \in Socket
                /\ life[o] = "live" /\ sock[o].status # "Closed"
                /\ sock[o].fd \in {fd, NoFd}
                /\ fd \in Fds /\ owner[fd] = o

ReactorInv == /\ Types /\ MembersFit
              /\ FramesOnce /\ FramesAreLive /\ WalkIsLive
              /\ RetiredAreGoing /\ CollectedOnce /\ LookupsAreWaiting
              /\ SlotsFit

-----------------------------------------------------------------------------
(* The counter, the active list, and the slots that add() and remove()     *)
(* leave.                                                                  *)
LEMMA CounterStays ==
    ASSUME NEW c \in Gens
    PROVE  Incremented(c) \in Gens /\ AddedGen(c) \in Gens
  BY ListAssumption, SMT DEF Incremented, AddedGen, Gens

LEMMA UnlinkStays ==
    ASSUME active \in Seq(Slots), NEW fd, Unlink(fd)
    PROVE  active' \in Seq(Slots)
<1>1. CASE ~Linked(fd) /\ active' = active
  BY <1>1
<1>2. ASSUME NEW i \in DOMAIN active, active[i] = fd,
             active' = [j \in 1 .. Len(active) - 1 |->
                          IF j < i THEN active[j] ELSE active[j + 1]]
      PROVE  active' \in Seq(Slots)
  <2>1. i \in 1 .. Len(active) /\ Len(active) - 1 \in Nat
    BY <1>2
  <2>2. \A j \in 1 .. Len(active) - 1 :
            (IF j < i THEN active[j] ELSE active[j + 1]) \in Slots
    BY <2>1
  <2> QED
    BY <1>2, <2>1, <2>2 DEF Slots
<1> QED
  BY <1>1, <1>2 DEF Unlink

LEMMA AddLeaves ==
    ASSUME ListTypeOK, NEW fd \in Int, NEW o \in Socket, Add(fd, "IS_TCP_SOCKET", o)
    PROVE  /\ ListTypeOK' /\ fd \in Slots
           /\ list'[fd].type = "IS_TCP_SOCKET" /\ list'[fd].socketBasePtr = o
           /\ \A g \in Slots : g # fd => list'[g] = list[g]
<1>1. fd \in Slots /\ o # NoSocket
  BY ListAssumption, SocketAssumption DEF Add, Addable, Slots
<1>2. genIDCounter' \in Gens /\ AddedGen(genIDCounter) \in Gens
  BY CounterStays DEF ListTypeOK, Add
<1>3. list' = [list EXCEPT ![fd] = [type |-> "IS_TCP_SOCKET", socketBasePtr |-> o,
                                   genID |-> AddedGen(genIDCounter)]]
  BY <1>1 DEF Add
<1>4. list' \in [Slots -> SockInfo]
  BY <1>2, <1>3 DEF ListTypeOK, SockInfo, SockTypes
<1>5. active' \in Seq(Slots)
  BY <1>1 DEF ListTypeOK, Add, PushBack
<1> QED
  BY <1>1, <1>2, <1>3, <1>4, <1>5 DEF ListTypeOK

LEMMA RemoveLeaves ==
    ASSUME ListTypeOK, NEW fd, Remove(fd)
    PROVE  /\ ListTypeOK'
           /\ fd \in Slots => /\ list'[fd].type = "IS_NOT_SET"
                              /\ list'[fd].socketBasePtr = list[fd].socketBasePtr
           /\ \A g \in Slots : g # fd => list'[g] = list[g]
<1>1. CASE fd \notin Slots
  BY <1>1 DEF ListTypeOK, Remove, listVars
<1>2. CASE fd \in Slots
  <2>1. Incremented(genIDCounter) \in Gens /\ Incremented(Incremented(genIDCounter)) \in Gens
    BY CounterStays DEF ListTypeOK
  <2>2. list' = [list EXCEPT ![fd] = [type |-> "IS_NOT_SET",
                                      socketBasePtr |-> list[fd].socketBasePtr,
                                      genID |-> Incremented(genIDCounter)]]
    BY <1>2 DEF Remove
  <2>3. list' \in [Slots -> SockInfo]
    BY <1>2, <2>1, <2>2 DEF ListTypeOK, SockInfo, SockTypes
  <2>4. active' \in Seq(Slots)
    BY <1>2, UnlinkStays DEF ListTypeOK, Remove
  <2> QED
    BY <1>2, <2>1, <2>2, <2>3, <2>4 DEF ListTypeOK, Remove
<1> QED
  BY <1>1, <1>2

(* register_fd: the descriptor's slot becomes the socket's, or stays.      *)
LEMMA RegisteredLeaves ==
    ASSUME ListTypeOK, NEW fd \in Int, NEW o \in Socket, NEW ok, NEW events,
           Registered(fd, o, ok, events)
    PROVE  /\ ListTypeOK'
           /\ \A g \in Slots : g # fd => list'[g] = list[g]
           /\ fd \in Slots => \/ list'[fd] = list[fd]
                              \/ /\ list'[fd].type = "IS_TCP_SOCKET"
                                 /\ list'[fd].socketBasePtr = o
<1>1. CASE Add(fd, "IS_TCP_SOCKET", o)
  BY <1>1, AddLeaves
<1>2. CASE UNCHANGED listVars
  BY <1>2 DEF ListTypeOK, listVars
<1> QED
  BY <1>1, <1>2 DEF Registered

-----------------------------------------------------------------------------
(* The kernel hands out a free number, and frees the one that is closed.   *)
LEMMA LowestFreeIsFree ==
    ASSUME FreeFds # {}
    PROVE  LowestFree \in Fds /\ owner[LowestFree] = Free
<1>1. FreeFds \subseteq Nat
  BY KernelAssumption DEF FreeFds, Fds
<1>2. PICK m \in FreeFds : \A k \in FreeFds : ~(<<k, m>> \in NatLess)
  BY <1>1, NatLessThanWellFounded, WFMin DEF NatLess
<1> DEFINE All == FreeFds
<1>3. All \subseteq Nat /\ m \in All /\ \A k \in All : ~(<<k, m>> \in NatLess)
  BY <1>1, <1>2
<1> HIDE DEF All
<1>4. \A k \in All : ~(k < m)
  BY <1>3 DEF NatLess, OpToRel
<1>5. \A k \in All : m <= k
  BY <1>3, <1>4
<1>6. LowestFree \in FreeFds
  BY <1>3, <1>5 DEF LowestFree, All
<1> QED
  BY <1>6 DEF FreeFds

LEMMA CloseFdLeaves ==
    ASSUME owner \in [Fds -> Socket \cup {Free, Foreign, Listener}], NEW fd, CloseFd(fd)
    PROVE  /\ owner' \in [Fds -> Socket \cup {Free, Foreign, Listener}]
           /\ \A g \in Fds : g # fd => owner'[g] = owner[g]
  BY DEF CloseFd

-----------------------------------------------------------------------------
(* Frames pushed on the stack, or put in the place of the innermost one.   *)
FramesIn(F) == {F[i] : i \in DOMAIN F}
OnTop(F) == \/ stack' = F \o stack
            \/ stack # << >> /\ stack' = F \o Tail(stack)

LEMMA StackGrows ==
    ASSUME stack \in Seq(AllFrames), FramesOnce, NEW F \in Seq(AllFrames), OnTop(F),
           \A i, j \in DOMAIN F : Once(F[i].pc) /\ F[j] = F[i] => i = j,
           \A f \in FramesIn(F) : Once(f.pc) => f \notin Frames
    PROVE  /\ stack' \in Seq(AllFrames)
           /\ Frames' \subseteq Frames \cup FramesIn(F)
           /\ FramesOnce'
<1>1. PICK R \in Seq(AllFrames), d \in {0, 1} :
         /\ Len(R) = Len(stack) - d /\ Len(R) \in Nat
         /\ \A i \in 1 .. Len(R) : i + d \in DOMAIN stack /\ R[i] = stack[i + d]
         /\ stack' = F \o R
  <2>1. CASE stack' = F \o stack
    <3>1. /\ Len(stack) = Len(stack) - 0 /\ Len(stack) \in Nat
          /\ \A i \in 1 .. Len(stack) : i + 0 \in DOMAIN stack /\ stack[i] = stack[i + 0]
      OBVIOUS
    <3> QED
      BY <2>1, <3>1
  <2>2. CASE stack # << >> /\ stack' = F \o Tail(stack)
    <3>1. /\ Tail(stack) \in Seq(AllFrames)
          /\ Len(Tail(stack)) = Len(stack) - 1 /\ Len(Tail(stack)) \in Nat
          /\ \A i \in 1 .. Len(Tail(stack)) : i + 1 \in DOMAIN stack
                                              /\ Tail(stack)[i] = stack[i + 1]
      BY <2>2
    <3>2. Tail(stack) \in Seq(AllFrames) /\ 1 \in {0, 1}
      BY <3>1
    <3> DEFINE T == Tail(stack)
    <3>3. /\ T \in Seq(AllFrames) /\ Len(T) = Len(stack) - 1 /\ Len(T) \in Nat
          /\ \A i \in 1 .. Len(T) : i + 1 \in DOMAIN stack /\ T[i] = stack[i + 1]
          /\ stack' = F \o T
      BY <2>2, <3>1
    <3> HIDE DEF T
    <3> QED
      BY <3>2, <3>3
  <2> QED
    BY <2>1, <2>2 DEF OnTop
<1>2. /\ stack' \in Seq(AllFrames) /\ DOMAIN F = 1 .. Len(F) /\ Len(F) \in Nat
      /\ DOMAIN stack' = 1 .. Len(F) + Len(R)
      /\ \A i \in 1 .. Len(F) : stack'[i] = F[i]
      /\ \A i \in Len(F) + 1 .. Len(F) + Len(R) : stack'[i] = R[i - Len(F)]
  <2>1. stack' = F \o R
    BY <1>1
  <2>2. DOMAIN F = 1 .. Len(F) /\ Len(F) \in Nat /\ Len(R) \in Nat
    OBVIOUS
  <2>3. /\ F \o R \in Seq(AllFrames) /\ Len(F \o R) = Len(F) + Len(R)
        /\ \A i \in 1 .. Len(F) : (F \o R)[i] = F[i]
        /\ \A i \in Len(F) + 1 .. Len(F) + Len(R) : (F \o R)[i] = R[i - Len(F)]
    OBVIOUS
  <2> QED
    BY <2>1, <2>2, <2>3
<1>3. \A i \in DOMAIN stack' :
         \/ i \in DOMAIN F /\ stack'[i] = F[i]
         \/ /\ i \notin DOMAIN F
            /\ i - Len(F) + d \in DOMAIN stack /\ stack'[i] = stack[i - Len(F) + d]
  <2> TAKE i \in DOMAIN stack'
  <2>1. CASE i \in 1 .. Len(F)
    BY <1>2, <2>1
  <2>2. CASE i \notin 1 .. Len(F)
    <3>1. i \in Len(F) + 1 .. Len(F) + Len(R) /\ i - Len(F) \in 1 .. Len(R)
      BY <1>1, <1>2, <2>2
    <3> QED
      BY <1>1, <1>2, <2>2, <3>1
  <2> QED
    BY <2>1, <2>2
<1>4. Frames' \subseteq Frames \cup FramesIn(F)
  BY <1>3 DEF Frames, FramesIn
<1>5. ASSUME NEW i \in DOMAIN stack', NEW j \in DOMAIN stack',
             Once(stack'[i].pc), stack'[j] = stack'[i]
      PROVE  i = j
  <2>1. CASE i \in DOMAIN F /\ j \in DOMAIN F
    BY <1>2, <1>5, <2>1
  <2>2. CASE i \in DOMAIN F /\ j \notin DOMAIN F
    <3>1. stack'[i] = F[i] /\ F[i] \in FramesIn(F)
      BY <1>3, <2>2 DEF FramesIn
    <3>2. stack'[j] \in Frames
      BY <1>3, <2>2 DEF Frames
    <3> QED
      BY <1>5, <3>1, <3>2
  <2>3. CASE i \notin DOMAIN F /\ j \in DOMAIN F
    <3>1. stack'[j] = F[j] /\ F[j] \in FramesIn(F)
      BY <1>3, <2>3 DEF FramesIn
    <3>2. stack'[i] \in Frames
      BY <1>3, <2>3 DEF Frames
    <3> QED
      BY <1>5, <3>1, <3>2
  <2>4. CASE i \notin DOMAIN F /\ j \notin DOMAIN F
    <3>1. PICK k \in DOMAIN stack : k = i - Len(F) + d /\ stack'[i] = stack[k]
      BY <1>3, <2>4
    <3>2. PICK m \in DOMAIN stack : m = j - Len(F) + d /\ stack'[j] = stack[m]
      BY <1>3, <2>4
    <3>3. k = m
      BY <1>5, <3>1, <3>2 DEF FramesOnce
    <3>4. i \in Nat /\ j \in Nat /\ Len(F) \in Nat /\ d \in Nat
      BY <1>1, <1>2
    <3> QED
      BY <3>1, <3>2, <3>3, <3>4
  <2> QED
    BY <2>1, <2>2, <2>3, <2>4
<1> QED
  BY <1>2, <1>4, <1>5 DEF FramesOnce

(* A frame of its kind that is taken off the stack is gone.                *)
LEMMA Popped ==
    ASSUME stack \in Seq(AllFrames), FramesOnce, NEW F \in Seq(AllFrames),
           stack # << >>, stack' = F \o Tail(stack),
           Once(Head(stack).pc), Head(stack) \notin FramesIn(F)
    PROVE  Head(stack) \notin Frames'
<1> SUFFICES ASSUME NEW i \in DOMAIN stack', stack'[i] = Head(stack) PROVE FALSE
  BY DEF Frames
<1>1. /\ Len(stack) \in Nat /\ 1 \in DOMAIN stack /\ Head(stack) = stack[1]
      /\ DOMAIN F = 1 .. Len(F) /\ Len(F) \in Nat
      /\ DOMAIN stack' = 1 .. Len(F) + Len(stack) - 1
      /\ \A j \in 1 .. Len(F) : stack'[j] = F[j]
      /\ \A j \in Len(F) + 1 .. Len(F) + Len(stack) - 1 :
            j - Len(F) + 1 \in DOMAIN stack /\ stack'[j] = stack[j - Len(F) + 1]
  <2>1. /\ Tail(stack) \in Seq(AllFrames) /\ Len(Tail(stack)) = Len(stack) - 1
        /\ Len(stack) \in Nat /\ Len(stack) # 0
        /\ \A k \in 1 .. Len(Tail(stack)) : Tail(stack)[k] = stack[k + 1]
    OBVIOUS
  <2>2. /\ DOMAIN stack' = 1 .. Len(F) + Len(Tail(stack))
        /\ \A j \in 1 .. Len(F) : stack'[j] = F[j]
        /\ \A j \in Len(F) + 1 .. Len(F) + Len(Tail(stack)) : stack'[j] = Tail(stack)[j - Len(F)]
    BY <2>1
  <2>3. Len(F) \in Nat /\ DOMAIN F = 1 .. Len(F)
    OBVIOUS
  <2>4. ASSUME NEW j \in Len(F) + 1 .. Len(F) + Len(stack) - 1
        PROVE  j - Len(F) + 1 \in DOMAIN stack /\ stack'[j] = stack[j - Len(F) + 1]
    <3>1. j - Len(F) \in 1 .. Len(Tail(stack)) /\ j \in Len(F) + 1 .. Len(F) + Len(Tail(stack))
      BY <2>1, <2>3
    <3>2. j - Len(F) + 1 \in 1 .. Len(stack)
      BY <2>1, <3>1
    <3> QED
      BY <2>1, <2>2, <3>1, <3>2
  <2> QED
    BY <2>1, <2>2, <2>3, <2>4
<1>2. i \notin 1 .. Len(F)
  BY <1>1 DEF FramesIn
<1>3. i \in Len(F) + 1 .. Len(F) + Len(stack) - 1
  BY <1>1, <1>2
<1>4. i - Len(F) + 1 \in DOMAIN stack /\ stack[i - Len(F) + 1] = stack[1]
  BY <1>1, <1>3
<1>5. i - Len(F) + 1 = 1
  BY <1>1, <1>4 DEF FramesOnce
<1> QED
  BY <1>1, <1>3, <1>5

-----------------------------------------------------------------------------
(* Frames of live objects that neither retire nor connect anything, nor    *)
(* walk the list.                                                          *)
Harmless(F) == /\ F \in Seq(AllFrames)
               /\ \A f \in FramesIn(F) : /\ ~Once(f.pc) /\ f.pc # "closeSlot"
                                         /\ "o" \in DOMAIN f => life[f.o] = "live"

HarmlessPcs == Callbacks \cup {"halfClose", "read", "dataHandled", "writable", "flush",
                               "drained", "quiet", "close", "forceClose"}

LEMMA HarmlessNone == Harmless(<< >>)
  BY DEF Harmless, FramesIn

LEMMA HarmlessOne ==
    ASSUME NEW o \in Socket, life[o] = "live", NEW pc \in HarmlessPcs
    PROVE  Harmless(<<Frame(pc, o)>>)
<1>1. Frame(pc, o) \in AllFrames
  BY DEF Frame, AllFrames, SocketFrames, HarmlessPcs
<1>2. pc # "closeSlot" /\ ~Once(pc)
  BY DEF HarmlessPcs, Callbacks, Once
<1>3. \A f \in FramesIn(<<Frame(pc, o)>>) : f = Frame(pc, o)
  BY DEF FramesIn
<1> QED
  BY <1>1, <1>2, <1>3 DEF Harmless, Frame

LEMMA HarmlessJoin ==
    ASSUME NEW F, NEW H, Harmless(F), Harmless(H)
    PROVE  Harmless(F \o H)
<1>1. F \in Seq(AllFrames) /\ H \in Seq(AllFrames)
  BY DEF Harmless
<1>2. /\ F \o H \in Seq(AllFrames) /\ Len(F \o H) = Len(F) + Len(H)
      /\ Len(F) \in Nat /\ Len(H) \in Nat
      /\ DOMAIN F = 1 .. Len(F) /\ DOMAIN H = 1 .. Len(H)
      /\ DOMAIN (F \o H) = 1 .. Len(F) + Len(H)
      /\ \A i \in 1 .. Len(F) : (F \o H)[i] = F[i]
      /\ \A i \in Len(F) + 1 .. Len(F) + Len(H) : (F \o H)[i] = H[i - Len(F)]
  BY <1>1
<1>3. ASSUME NEW i \in 1 .. Len(F) + Len(H)
      PROVE  (F \o H)[i] \in FramesIn(F) \cup FramesIn(H)
  <2>1. CASE i \in 1 .. Len(F)
    BY <1>2, <2>1 DEF FramesIn
  <2>2. CASE i \notin 1 .. Len(F)
    <3>1. i \in Len(F) + 1 .. Len(F) + Len(H) /\ i - Len(F) \in 1 .. Len(H)
      BY <1>2, <2>2
    <3> QED
      BY <1>2, <3>1 DEF FramesIn
  <2> QED
    BY <2>1, <2>2
<1>4. FramesIn(F \o H) \subseteq FramesIn(F) \cup FramesIn(H)
  BY <1>2, <1>3 DEF FramesIn
<1> QED
  BY <1>2, <1>4 DEF Harmless

LEMMA HarmlessTwo ==
    ASSUME NEW o \in Socket, life[o] = "live", NEW pc \in HarmlessPcs, NEW next \in HarmlessPcs
    PROVE  Harmless(<<Frame(pc, o), Frame(next, o)>>)
<1>1. <<Frame(pc, o), Frame(next, o)>> = <<Frame(pc, o)>> \o <<Frame(next, o)>>
  OBVIOUS
<1>2. Harmless(<<Frame(pc, o)>> \o <<Frame(next, o)>>)
  BY HarmlessOne, HarmlessJoin
<1> QED
  BY <1>1, <1>2

(* Members that changed, of a socket that kept its descriptor and neither  *)
(* was closed nor got or lost its buffer.                                  *)
Kept(r, s) == /\ Shaped(s) /\ s.fd = r.fd /\ s.rbuf = r.rbuf
              /\ s.status = "Closed" <=> r.status = "Closed"
              /\ s.fd = NoFd => s.queue = << >> /\ s.pendingClose = FALSE

AllKept == DOMAIN sock' = Socket /\ \A x \in Socket : Kept(sock[x], sock'[x])

LEMMA KeptAsItIs ==
    ASSUME ReactorInv
    PROVE  \A x \in Socket : Kept(sock[x], sock[x])
  BY DEF ReactorInv, Types, MembersFit, Kept

LEMMA AllKeptAsTheyAre ==
    ASSUME ReactorInv, UNCHANGED sock
    PROVE  AllKept
  BY KeptAsItIs DEF ReactorInv, Types, AllKept

LEMMA OneKept ==
    ASSUME ReactorInv, NEW o \in Socket, NEW r, Kept(sock[o], r), SetSock(o, r)
    PROVE  AllKept
<1>1. DOMAIN sock' = Socket /\ \A x \in Socket : sock'[x] = IF x = o THEN r ELSE sock[x]
  BY DEF SetSock, ReactorInv, Types
<1> QED
  BY <1>1, KeptAsItIs DEF AllKept

(* Nobody takes a descriptor from a socket.                                *)
OwnersKept == /\ owner' \in [Fds -> Socket \cup {Free, Foreign, Listener}]
              /\ \A fd \in Fds : owner[fd] \in Socket => owner'[fd] = owner[fd]

(* What most steps do: change members of sockets that keep what they are,  *)
(* and start harmless frames.                                              *)
LEMMA HarmlessWithOwners ==
    ASSUME ReactorInv, AllKept, NEW F, Harmless(F), OnTop(F),
           OwnersKept, UNCHANGED <<listVars, life, gcList, dns>>
    PROVE  ReactorInv'
<1> USE DEF ReactorInv
<1>1. stack \in Seq(AllFrames) /\ F \in Seq(AllFrames) /\ \A f \in FramesIn(F) : ~Once(f.pc)
  BY DEF Types, AllFrames, Harmless
<1>2. \A i \in DOMAIN F : ~Once(F[i].pc)
  BY <1>1 DEF FramesIn
<1>3. stack' \in Seq(AllFrames) /\ Frames' \subseteq Frames \cup FramesIn(F) /\ FramesOnce'
  BY <1>1, <1>2, StackGrows
<1>4. \A f \in Frames' : Once(f.pc) \/ f.pc = "closeSlot" => f \in Frames
  BY <1>3 DEF Harmless
<1>5. \A x \in Socket : Kept(sock[x], sock'[x])
  BY DEF AllKept
<1>6. \A x \in Socket : /\ Frame("retire", x) \in Frames' => Frame("retire", x) \in Frames
                        /\ Frame("connect", x) \in Frames' => Frame("connect", x) \in Frames
  BY <1>4 DEF Once, Frame
<1>7. UNCHANGED <<list, life, gcList, dns, genIDCounter, active>>
  BY DEF listVars
<1>8. \A x \in Socket : /\ Going(x) => Going(x)'
                        /\ Waiting(x) => Waiting(x)'
                        /\ InGCList(x)' = InGCList(x)
  BY <1>5, <1>7 DEF Going, Waiting, HasSlot, Kept, InGCList
<1>9. Types'
  BY <1>3, <1>5, <1>7 DEF Types, OwnersKept, Kept, AllKept, AllFrames
<1>10. MembersFit'
  BY <1>5 DEF MembersFit, Kept
<1>11. FramesAreLive'
  BY <1>3, <1>7 DEF FramesAreLive, Harmless
<1>12. WalkIsLive'
  BY <1>4, <1>7 DEF WalkIsLive
<1>13. RetiredAreGoing'
  BY <1>6, <1>8 DEF RetiredAreGoing
<1>14. CollectedOnce'
  BY <1>7 DEF CollectedOnce
<1>15. LookupsAreWaiting'
  BY <1>6, <1>7, <1>8 DEF LookupsAreWaiting
<1>16. SlotsFit'
  BY <1>5, <1>7 DEF SlotsFit, Kept, OwnersKept
<1> QED
  BY <1>3, <1>9, <1>10, <1>11, <1>12, <1>13, <1>14, <1>15, <1>16

LEMMA HarmlessStep ==
    ASSUME ReactorInv, AllKept, NEW F, Harmless(F), OnTop(F),
           UNCHANGED <<listVars, owner, life, gcList, dns>>
    PROVE  ReactorInv'
<1>1. OwnersKept
  BY DEF OwnersKept, ReactorInv, Types
<1> QED
  BY <1>1, HarmlessWithOwners

(* Steps that leave the stack alone.                                       *)
LEMMA StackAlone ==
    ASSUME ReactorInv, UNCHANGED stack
    PROVE  Harmless(<< >>) /\ OnTop(<< >>)
<1>1. << >> \o stack = stack
  BY DEF ReactorInv, Types
<1> QED
  BY <1>1, HarmlessNone DEF OnTop

-----------------------------------------------------------------------------
(* The changes of members that the methods make.                           *)
Fits(r) == Shaped(r) /\ (r.fd = NoFd => r.queue = << >> /\ r.pendingClose = FALSE)

LEMMA AllFit ==
    ASSUME ReactorInv, NEW o \in Socket
    PROVE  Fits(sock[o]) /\ sock[o].fd \in Fds \cup {NoFd}
  BY DEF ReactorInv, Types, MembersFit, Fits

(* One member at a time.                                                   *)
LEMMA MemberKept ==
    ASSUME NEW r, Fits(r), NEW x
    PROVE  /\ Kept(r, [r EXCEPT !.events = x])
           /\ Kept(r, [r EXCEPT !.readPaused = x])
           /\ Kept(r, [r EXCEPT !.len = x])
           /\ r.fd # NoFd => Kept(r, [r EXCEPT !.queue = x])
           /\ r.fd # NoFd => Kept(r, [r EXCEPT !.pendingClose = x])
           /\ x # "Closed" => Kept(r, WithStatus(r, x))
<1>1. Kept(r, [r EXCEPT !.events = x]) /\ Kept(r, [r EXCEPT !.readPaused = x])
  BY DEF Fits, Shaped, Kept
<1>2. Kept(r, [r EXCEPT !.len = x])
  BY DEF Fits, Shaped, Kept
<1>3. r.fd # NoFd => Kept(r, [r EXCEPT !.queue = x]) /\ Kept(r, [r EXCEPT !.pendingClose = x])
  BY DEF Fits, Shaped, Kept
<1>4. ASSUME x # "Closed" PROVE Kept(r, WithStatus(r, x))
  BY <1>4 DEF Fits, Shaped, Kept, WithStatus
<1> QED
  BY <1>1, <1>2, <1>3, <1>4

LEMMA KeptTwice ==
    ASSUME NEW r, NEW s, NEW t, Fits(r), Kept(r, s)
    PROVE  Fits(s) /\ s.fd = r.fd /\ (Kept(s, t) => Kept(r, t))
  BY DEF Kept, Fits

LEMMA PausedKept ==
    ASSUME NEW r, Fits(r)
    PROVE  Kept(r, Paused(r)) /\ Kept(r, Resumed(r))
<1>1. ASSUME NEW x, NEW y PROVE Kept(r, [r EXCEPT !.readPaused = x, !.events = y])
  <2>1. PICK s : s = [r EXCEPT !.readPaused = x]
    OBVIOUS
  <2>2. Kept(r, s)
    BY <2>1, MemberKept
  <2>3. Kept(r, [s EXCEPT !.events = y])
    BY <2>2, KeptTwice, MemberKept
  <2>4. [r EXCEPT !.readPaused = x, !.events = y] = [[r EXCEPT !.readPaused = x] EXCEPT !.events = y]
    BY DEF Fits, Shaped
  <2> QED
    BY <2>1, <2>3, <2>4
<1> QED
  BY <1>1 DEF Paused, Resumed

LEMMA QuietKept ==
    ASSUME NEW r, Fits(r), NEW s, s = [r EXCEPT !.events = @ \ {"OUT"}]
    PROVE  Kept(r, s) /\ Kept(r, Resumed(s))
<1>1. Kept(r, s)
  BY MemberKept
<1> QED
  BY <1>1, KeptTwice, PausedKept

LEMMA ConnectedKept ==
    ASSUME NEW r, Fits(r), NEW ev
    PROVE  Kept(r, [WithStatus(r, "Connected") EXCEPT !.events = ev])
<1>1. PICK s : s = WithStatus(r, "Connected")
  OBVIOUS
<1>2. Kept(r, s) /\ Fits(s)
  BY <1>1, MemberKept, KeptTwice
<1>3. Kept(s, [s EXCEPT !.events = ev])
  BY <1>2, MemberKept
<1> QED
  BY <1>1, <1>2, <1>3, KeptTwice

LEMMA ClosingKept ==
    ASSUME NEW r, Fits(r), r.fd # NoFd, NEW ev
    PROVE  Kept(r, [WithStatus(r, "Closing") EXCEPT !.pendingClose = TRUE, !.events = ev])
<1>1. PICK s : s = WithStatus(r, "Closing")
  OBVIOUS
<1>2. Kept(r, s) /\ Fits(s) /\ s.fd # NoFd
  BY <1>1, MemberKept, KeptTwice
<1>3. PICK t : t = [s EXCEPT !.pendingClose = TRUE]
  OBVIOUS
<1>4. Kept(r, t) /\ Fits(t)
  BY <1>2, <1>3, MemberKept, KeptTwice
<1>5. Kept(r, [t EXCEPT !.events = ev])
  BY <1>4, MemberKept, KeptTwice
<1>6. [s EXCEPT !.pendingClose = TRUE, !.events = ev]
          = [[s EXCEPT !.pendingClose = TRUE] EXCEPT !.events = ev]
  BY <1>2 DEF Fits, Shaped
<1> QED
  BY <1>1, <1>3, <1>5, <1>6

LEMMA ConsumedKept ==
    ASSUME NEW r, Fits(r), r.fd # NoFd, NEW n
    PROVE  Kept(r, Consumed(r, n))
<1>1. PICK len, q : Consumed(r, n) = [r EXCEPT !.len = len, !.queue = q]
  BY DEF Consumed
<1>2. PICK s : s = [r EXCEPT !.len = len]
  OBVIOUS
<1>3. Kept(r, s) /\ Fits(s) /\ s.fd # NoFd
  BY <1>2, MemberKept, KeptTwice
<1>4. Kept(r, [s EXCEPT !.queue = q])
  BY <1>3, MemberKept, KeptTwice
<1>5. [r EXCEPT !.len = len, !.queue = q] = [[r EXCEPT !.len = len] EXCEPT !.queue = q]
  BY DEF Fits, Shaped
<1> QED
  BY <1>1, <1>2, <1>4, <1>5

LEMMA PushedKept ==
    ASSUME NEW r, Fits(r), r.fd # NoFd, NEW n
    PROVE  Kept(r, Pushed(r, n))
<1>1. PICK len, q : Pushed(r, n) = [r EXCEPT !.queue = q, !.len = len]
  BY DEF Pushed
<1>2. PICK s : s = [r EXCEPT !.queue = q]
  OBVIOUS
<1>3. Kept(r, s) /\ Fits(s)
  BY <1>2, MemberKept, KeptTwice
<1>4. Kept(r, [s EXCEPT !.len = len])
  BY <1>3, MemberKept, KeptTwice
<1>5. [r EXCEPT !.queue = q, !.len = len] = [[r EXCEPT !.queue = q] EXCEPT !.len = len]
  BY DEF Fits, Shaped
<1> QED
  BY <1>1, <1>2, <1>4, <1>5

LEMMA QueuedKept ==
    ASSUME NEW r, Fits(r), r.fd # NoFd, NEW n, NEW stored, NEW q,
           q = [(IF stored THEN Pushed(r, n) ELSE r) EXCEPT !.events = @ \cup {"OUT"}]
    PROVE  Kept(r, q) /\ Kept(r, Paused(q))
<1>1. PICK s : s = IF stored THEN Pushed(r, n) ELSE r
  OBVIOUS
<1>2. Kept(r, r)
  BY DEF Fits, Kept
<1>3. Kept(r, s) /\ Fits(s)
  BY <1>1, <1>2, PushedKept, KeptTwice
<1>4. q = [s EXCEPT !.events = s.events \cup {"OUT"}]
  BY <1>1
<1>5. Kept(s, q)
  <2>1. PICK ev : ev = s.events \cup {"OUT"}
    OBVIOUS
  <2>2. Kept(s, [s EXCEPT !.events = ev])
    BY <1>3, MemberKept
  <2> QED
    BY <1>4, <2>1, <2>2
<1>6. Kept(r, q) /\ Fits(q)
  BY <1>3, <1>5, KeptTwice
<1> QED
  BY <1>6, PausedKept, KeptTwice

(* The object whose frame is innermost is live.                            *)
LEMMA RunningIsLive ==
    ASSUME ReactorInv, NEW o \in Socket, NEW pc, Running(pc, o)
    PROVE  stack # << >> /\ Head(stack) = Frame(pc, o) /\ Frame(pc, o) \in Frames /\ life[o] = "live"
<1>1. stack # << >> /\ Head(stack) = Frame(pc, o) /\ stack \in Seq(AllFrames)
  BY DEF Running, Frame, ReactorInv, Types, AllFrames
<1>2. 1 \in DOMAIN stack /\ stack[1] = Head(stack)
  BY <1>1
<1>3. Frame(pc, o) \in Frames
  BY <1>1, <1>2 DEF Frames
<1> QED
  BY <1>1, <1>3 DEF ReactorInv, FramesAreLive, Frame

-----------------------------------------------------------------------------
(* The methods of a socket that change members and start handlers.         *)
LEMMA AwaitDrainKept ==
    ASSUME ReactorInv, NEW o \in Socket, sock[o].queue # << >>, AwaitDrain(o)
    PROVE  AllKept
<1>1. sock[o].fd # NoFd
  BY AllFit DEF Fits
<1>2. PICK r : /\ r = [WithStatus(sock[o], "Closing") EXCEPT !.pendingClose = TRUE,
                                                      !.events = @ \cup {"OUT"}]
               /\ SetSock(o, r)
  BY DEF AwaitDrain, SetMask
<1>3. Kept(sock[o], r)
  BY <1>1, <1>2, AllFit, ClosingKept
<1> QED
  BY <1>2, <1>3, OneKept

LEMMA HandleHalfCloseKeeps ==
    ASSUME ReactorInv, NEW o \in Socket, HandleHalfClose(o), UNCHANGED dns
    PROVE  ReactorInv'
<1>1. stack # << >> /\ life[o] = "live"
  BY RunningIsLive DEF HandleHalfClose
<1>2. Harmless(<< >>) /\ Harmless(<<Frame("forceClose", o)>>)
  BY <1>1, HarmlessNone, HarmlessOne DEF HarmlessPcs
<1>3. \E F : Harmless(F) /\ OnTop(F)
  BY <1>1, <1>2 DEF HandleHalfClose, Continue, OnTop
<1>4. ASSUME UNCHANGED sock PROVE AllKept
  BY <1>4, AllKeptAsTheyAre
<1>5. ASSUME sock[o].queue # << >>, AwaitDrain(o) PROVE AllKept
  BY <1>5, AwaitDrainKept
<1>6. AllKept
  BY <1>4, <1>5 DEF HandleHalfClose
<1> QED
  BY <1>3, <1>6, HarmlessStep DEF HandleHalfClose

LEMMA OnReadableKeeps ==
    ASSUME ReactorInv, NEW o \in Socket, OnReadable(o), UNCHANGED dns
    PROVE  ReactorInv'
<1>1. stack # << >> /\ life[o] = "live"
  BY RunningIsLive DEF OnReadable
<1>2. /\ Harmless(<< >>) /\ Harmless(<<Frame("forceClose", o)>>)
      /\ Harmless(<<Frame("onData", o), Frame("dataHandled", o)>>)
  BY <1>1, HarmlessNone, HarmlessOne, HarmlessTwo DEF HarmlessPcs, Callbacks
<1>3. \E F : Harmless(F) /\ OnTop(F)
  BY <1>1, <1>2 DEF OnReadable, Continue, OnTop
<1>4. ASSUME UNCHANGED sock PROVE AllKept
  BY <1>4, AllKeptAsTheyAre
<1>5. ASSUME sock[o].queue # << >>, AwaitDrain(o) PROVE AllKept
  BY <1>5, AwaitDrainKept
<1>6. AllKept
  BY <1>4, <1>5 DEF OnReadable
<1> QED
  BY <1>3, <1>6, HarmlessStep DEF OnReadable

LEMMA DataHandledKeeps ==
    ASSUME ReactorInv, NEW o \in Socket, DataHandled(o), UNCHANGED dns
    PROVE  ReactorInv'
<1>1. stack # << >> /\ life[o] = "live"
  BY RunningIsLive DEF DataHandled
<1>2. Harmless(<< >>) /\ Harmless(<<Frame("read", o)>>)
  BY <1>1, HarmlessNone, HarmlessOne DEF HarmlessPcs
<1>3. \E F : Harmless(F) /\ OnTop(F)
  BY <1>1, <1>2 DEF DataHandled, Continue, OnTop
<1> QED
  BY <1>3, AllKeptAsTheyAre, HarmlessStep DEF DataHandled, kernelVars, objectVars

LEMMA OnWritableKeeps ==
    ASSUME ReactorInv, NEW o \in Socket, OnWritable(o), UNCHANGED dns
    PROVE  ReactorInv'
<1>1. stack # << >> /\ life[o] = "live"
  BY RunningIsLive DEF OnWritable
<1>2. /\ Harmless(<<Frame("onConnectFailed", o)>> \o <<Frame("forceClose", o)>>)
      /\ Harmless(<< >> \o <<Frame("forceClose", o)>>)
      /\ Harmless(<<Frame("onConnected", o)>>) /\ Harmless(<<Frame("flush", o)>>)
  BY <1>1, HarmlessNone, HarmlessOne, HarmlessJoin DEF HarmlessPcs, Callbacks
<1>3. \E F : Harmless(F) /\ OnTop(F)
  BY <1>1, <1>2 DEF OnWritable, Continue, OnTop
<1>4. ASSUME UNCHANGED sock PROVE AllKept
  BY <1>4, AllKeptAsTheyAre
<1>5. ASSUME SetMask(o, [WithStatus(sock[o], "Connected") EXCEPT !.events = @ \ {"OUT"}])
      PROVE  AllKept
  BY <1>5, AllFit, ConnectedKept, OneKept DEF SetMask
<1>6. AllKept
  BY <1>4, <1>5 DEF OnWritable
<1> QED
  BY <1>3, <1>6, HarmlessStep DEF OnWritable

LEMMA FlushKeeps ==
    ASSUME ReactorInv, NEW o \in Socket, Flush(o), UNCHANGED dns
    PROVE  ReactorInv'
<1>1. stack # << >> /\ life[o] = "live" /\ Head(stack) = Frame("flush", o)
  BY RunningIsLive DEF Flush
<1>2. /\ Harmless(<<Frame("drained", o)>>) /\ Harmless(<<Frame("forceClose", o)>>)
      /\ Harmless(<< >>)
  BY <1>1, HarmlessNone, HarmlessOne DEF HarmlessPcs
<1>3. \E F : Harmless(F) /\ OnTop(F)
  <2>1. CASE UNCHANGED stack
    <3>1. << >> \o stack = stack
      BY DEF ReactorInv, Types
    <3> QED
      BY <1>2, <2>1, <3>1 DEF OnTop
  <2>2. CASE Continue(<<Frame("drained", o)>>) \/ Continue(<<Frame("forceClose", o)>>)
    BY <1>1, <1>2, <2>2 DEF Continue, OnTop
  <2> QED
    BY <2>1, <2>2 DEF Flush
<1>4. ASSUME UNCHANGED sock PROVE AllKept
  BY <1>4, AllKeptAsTheyAre
<1>5. ASSUME sock[o].queue # << >>, NEW n, SetSock(o, Consumed(sock[o], n))
      PROVE  AllKept
  BY <1>5, AllFit, ConsumedKept, OneKept DEF Fits
<1>6. AllKept
  BY <1>4, <1>5 DEF Flush
<1> QED
  BY <1>3, <1>6, HarmlessStep DEF Flush

LEMMA QuietKeeps ==
    ASSUME ReactorInv, NEW o \in Socket, Quiet(o), UNCHANGED dns
    PROVE  ReactorInv'
<1>1. stack # << >> /\ life[o] = "live"
  BY RunningIsLive DEF Quiet
<1>2. Harmless(<< >>) /\ Harmless(<<Frame("onResume", o)>>)
  BY <1>1, HarmlessNone, HarmlessOne DEF HarmlessPcs, Callbacks
<1>3. \E F : Harmless(F) /\ OnTop(F)
  BY <1>1, <1>2 DEF Quiet, Continue, OnTop
<1>4. PICK r : r = [sock[o] EXCEPT !.events = @ \ {"OUT"}]
  OBVIOUS
<1>5. Kept(sock[o], r) /\ Kept(sock[o], Resumed(r))
  BY <1>4, AllFit, QuietKept
<1>6. UNCHANGED sock \/ SetSock(o, r) \/ SetSock(o, Resumed(r))
  BY <1>4 DEF Quiet, SetMask
<1>7. AllKept
  BY <1>5, <1>6, AllKeptAsTheyAre, OneKept
<1> QED
  BY <1>3, <1>7, HarmlessStep DEF Quiet

-----------------------------------------------------------------------------
(* The calls of the application.                                           *)
LEMMA CallOnTop ==
    ASSUME NEW F, Call(F)
    PROVE  OnTop(F)
  BY DEF Call, OnTop

LEMMA AppSendsKeeps ==
    ASSUME ReactorInv, NEW o \in Socket, NEW n, AppSends(o, n)
    PROVE  ReactorInv'
<1>1. life[o] = "live" /\ Send(o, n) /\ UNCHANGED dns
  BY DEF AppSends, MayCall
<1>2. Harmless(<< >>) /\ Harmless(<<Frame("onPause", o)>>) /\ Harmless(<<Frame("forceClose", o)>>)
  BY <1>1, HarmlessNone, HarmlessOne DEF HarmlessPcs, Callbacks
<1>3. Call(<< >>) \/ Call(<<Frame("onPause", o)>>) \/ Call(<<Frame("forceClose", o)>>)
  BY <1>1 DEF Send
<1>4. \E F : Harmless(F) /\ OnTop(F)
  BY <1>2, <1>3, CallOnTop
<1>5. \/ UNCHANGED sock
      \/ /\ sock[o].queue # << >> \/ SendResults(sock[o].fd) # {"error"}
         /\ \E k, stored, q :
               /\ q = [(IF stored THEN Pushed(sock[o], k) ELSE sock[o]) EXCEPT !.events = @ \cup {"OUT"}]
               /\ SetSock(o, q) \/ SetSock(o, Paused(q))
  BY <1>1 DEF Send, SetMask
<1>6. CASE UNCHANGED sock
  BY <1>1, <1>4, <1>6, AllKeptAsTheyAre, HarmlessStep DEF Send
<1>7. ASSUME sock[o].queue # << >> \/ SendResults(sock[o].fd) # {"error"},
             NEW k, NEW stored, NEW q,
             q = [(IF stored THEN Pushed(sock[o], k) ELSE sock[o]) EXCEPT !.events = @ \cup {"OUT"}],
             SetSock(o, q) \/ SetSock(o, Paused(q))
      PROVE  ReactorInv'
  <2>1. NoFd \notin Fds
    BY DEF NoFd, Fds
  <2>2. sock[o].fd # NoFd /\ Fits(sock[o])
    BY <1>7, <2>1, AllFit DEF Fits, SendResults
  <2>3. Kept(sock[o], q) /\ Kept(sock[o], Paused(q))
    BY <1>7, <2>2, QueuedKept
  <2>4. AllKept
    BY <1>7, <2>3, OneKept
  <2> QED
    BY <1>1, <1>4, <2>4, HarmlessStep DEF Send
<1> QED
  BY <1>5, <1>6, <1>7

LEMMA AppClosesKeeps ==
    ASSUME ReactorInv, NEW o \in Socket, NEW force \in BOOLEAN, AppCloses(o, force)
    PROVE  ReactorInv'
<1>1. life[o] = "live" /\ CallClose(o, force) /\ UNCHANGED dns
  BY DEF AppCloses, MayCall
<1>2. Harmless(<<Frame(IF force THEN "forceClose" ELSE "close", o)>>)
  BY <1>1, HarmlessOne DEF HarmlessPcs
<1> QED
  BY <1>1, <1>2, CallOnTop, AllKeptAsTheyAre, HarmlessStep DEF CallClose, kernelVars, objectVars

LEMMA AppPausesKeeps ==
    ASSUME ReactorInv, NEW o \in Socket, AppPauses(o) \/ AppResumes(o)
    PROVE  ReactorInv'
<1>1. life[o] = "live" /\ (PauseReading(o) \/ ResumeReading(o)) /\ UNCHANGED dns
  BY DEF AppPauses, AppResumes, MayCall
<1>2. Harmless(<<Frame("onPause", o)>>) /\ Harmless(<<Frame("onResume", o)>>)
  BY <1>1, HarmlessOne DEF HarmlessPcs, Callbacks
<1>3. \E F : Harmless(F) /\ OnTop(F)
  BY <1>1, <1>2, CallOnTop DEF PauseReading, ResumeReading
<1>4. SetSock(o, Paused(sock[o])) \/ SetSock(o, Resumed(sock[o]))
  BY <1>1 DEF PauseReading, ResumeReading, SetMask
<1>5. AllKept
  BY <1>4, AllFit, PausedKept, OneKept
<1> QED
  BY <1>1, <1>3, <1>5, HarmlessStep DEF PauseReading, ResumeReading

LEMMA AppReturnsKeeps ==
    ASSUME ReactorInv, AppReturns
    PROVE  ReactorInv'
<1>1. OnTop(<< >>)
  BY DEF AppReturns, InApplication, Continue, OnTop
<1> QED
  BY <1>1, HarmlessNone, AllKeptAsTheyAre, HarmlessStep DEF AppReturns, kernelVars, objectVars

LEMMA AppTimerKeeps ==
    ASSUME ReactorInv, AppTimer
    PROVE  ReactorInv'
<1>1. Harmless(<<[pc |-> "timer"]>>)
  BY DEF Harmless, AllFrames, FramesIn, Once
<1> QED
  BY <1>1, CallOnTop, AllKeptAsTheyAre, HarmlessStep DEF AppTimer, kernelVars, objectVars

-----------------------------------------------------------------------------
(* The loop, and what happens outside the reactor.                         *)
LEMMA EpollWaitKeeps ==
    ASSUME ReactorInv, EpollWait
    PROVE  ReactorInv'
  BY StackAlone, AllKeptAsTheyAre, HarmlessStep DEF EpollWait, objectVars

LEMMA TCPEventFramesHarmless ==
    ASSUME NEW o \in Socket, life[o] = "live", NEW flags
    PROVE  Harmless(TCPEventFrames(o, flags))
<1>1. \A pc \in {"forceClose", "close", "halfClose", "read", "writable"} : Harmless(<<Frame(pc, o)>>)
  BY HarmlessOne DEF HarmlessPcs
<1>2. Harmless(<< >>)
  BY HarmlessNone
<1> DEFINE A == IF "RDHUP" \in flags THEN <<Frame("halfClose", o)>> ELSE << >>
           B == IF "IN" \in flags THEN <<Frame("read", o)>> ELSE << >>
           C == IF "OUT" \in flags THEN <<Frame("writable", o)>> ELSE << >>
<1>3. Harmless(A) /\ Harmless(B) /\ Harmless(C)
  BY <1>1, <1>2
<1>4. \/ TCPEventFrames(o, flags) \in {<<Frame("forceClose", o)>>, <<Frame("close", o)>>,
                                       <<Frame("halfClose", o)>>}
      \/ TCPEventFrames(o, flags) = (A \o B) \o C
      \/ TCPEventFrames(o, flags) = A \o (B \o C)
  BY DEF TCPEventFrames
<1> HIDE DEF A, B, C
<1>5. Harmless((A \o B) \o C) /\ Harmless(A \o (B \o C))
  BY <1>3, HarmlessJoin
<1> QED
  BY <1>1, <1>4, <1>5

LEMMA DispatchKeeps ==
    ASSUME ReactorInv, NEW e, Dispatch(e)
    PROVE  ReactorInv'
<1>1. \E F : Harmless(F) /\ OnTop(F)
  <2>1. CASE UNCHANGED stack
    BY <2>1, StackAlone
  <2>2. CASE e.fd \in Slots /\ Call(<<[pc |-> "accept", fd |-> e.fd]>>)
    <3>1. Harmless(<<[pc |-> "accept", fd |-> e.fd]>>)
      BY <2>2 DEF Harmless, AllFrames, FramesIn, Once
    <3> QED
      BY <2>2, <3>1, CallOnTop
  <2>3. CASE /\ e.fd \in Slots /\ list[e.fd].type = "IS_TCP_SOCKET"
             /\ Call(TCPEventFrames(list[e.fd].socketBasePtr, e.flags))
    BY <2>3, TCPEventFramesHarmless, CallOnTop DEF ReactorInv, SlotsFit
  <2> QED
    BY <2>1, <2>2, <2>3 DEF Dispatch, Get
<1> QED
  BY <1>1, AllKeptAsTheyAre, HarmlessStep DEF Dispatch, objectVars

LEMMA CloseSlotKeeps ==
    ASSUME ReactorInv, NEW fd, CloseSlot(fd)
    PROVE  ReactorInv'
<1>1. stack # << >> /\ Head(stack) = [pc |-> "closeSlot", fd |-> fd] /\ stack \in Seq(AllFrames)
  BY DEF CloseSlot, ReactorInv, Types
<1>2. 1 \in DOMAIN stack /\ stack[1] = Head(stack)
  BY <1>1
<1>3. [pc |-> "closeSlot", fd |-> fd] \in Frames
  BY <1>1, <1>2 DEF Frames
<1>4. list[fd].socketBasePtr \in Socket /\ life[list[fd].socketBasePtr] = "live"
  BY <1>3 DEF ReactorInv, WalkIsLive
<1>5. Harmless(<< >>) /\ Harmless(<<Frame("forceClose", list[fd].socketBasePtr)>>)
  BY <1>4, HarmlessNone, HarmlessOne DEF HarmlessPcs
<1>6. \E F : Harmless(F) /\ OnTop(F)
  BY <1>1, <1>5 DEF CloseSlot, Continue, OnTop
<1> QED
  BY <1>6, AllKeptAsTheyAre, HarmlessStep DEF CloseSlot, kernelVars, objectVars

LEMMA EnvironmentKeeps ==
    ASSUME ReactorInv, Environment
    PROVE  ReactorInv'
<1>1. owner \in [Fds -> Socket \cup {Free, Foreign, Listener}]
  BY DEF ReactorInv, Types
<1>2. ASSUME ForeignOpens PROVE OwnersKept
  <2>1. LowestFree \in Fds /\ owner[LowestFree] = Free
    BY <1>2, LowestFreeIsFree DEF ForeignOpens
  <2> QED
    BY <1>1, <1>2, <2>1, KernelAssumption DEF ForeignOpens, OwnersKept, Free
<1>3. ASSUME NEW fd \in Fds, ForeignCloses(fd) PROVE OwnersKept
  BY <1>1, <1>3, KernelAssumption DEF ForeignCloses, OwnersKept, Foreign
<1>4. ASSUME UNCHANGED owner PROVE OwnersKept
  BY <1>1, <1>4 DEF OwnersKept
<1>5. ASSUME NEW o \in Socket, \/ ConnectCompletes(o) \/ PeerResets(o) \/ DataArrives(o)
                               \/ PeerFinishes(o) \/ PeerAcks(o)
      PROVE  UNCHANGED owner
  BY <1>5 DEF ConnectCompletes, PeerResets, DataArrives, PeerFinishes, PeerAcks, NetStep
<1>6. ClientConnects => UNCHANGED owner
  BY DEF ClientConnects
<1>7. OwnersKept
  BY <1>2, <1>3, <1>4, <1>5, <1>6 DEF Environment
<1>8. UNCHANGED <<listVars, objectVars, stack, dns>>
  BY DEF Environment
<1> QED
  BY <1>7, <1>8, StackAlone, AllKeptAsTheyAre, HarmlessWithOwners DEF objectVars

-----------------------------------------------------------------------------
(* close(): the socket is closed, and the slot and the descriptor under    *)
(* its number are given up.  Nothing but close() itself retires it, and    *)
(* only when it was not closed before.                                     *)
ClosesAs(o, r) == /\ sock[o].fd # NoFd
                  /\ Shaped(r) /\ r.fd = sock[o].fd /\ r.status = "Closed" /\ r.rbuf = FALSE
                  /\ SetSock(o, r)
                  /\ Remove(r.fd) /\ CloseFd(r.fd)
                  /\ UNCHANGED <<life, gcList, dns>>

ClosingFrames(F, o) ==
    \/ F = <<Frame("onClose", o)>>
    \/ F = <<Frame("onClose", o), Frame("retire", o)>> /\ sock[o].status # "Closed"

LEMMA ClosingStack ==
    ASSUME ReactorInv, NEW o \in Socket, life[o] = "live", NEW F, ClosingFrames(F, o), OnTop(F)
    PROVE  /\ stack' \in Seq(AllFrames) /\ FramesOnce'
           /\ \A f \in Frames' : \/ f \in Frames
                                 \/ f = Frame("onClose", o)
                                 \/ f = Frame("retire", o) /\ sock[o].status # "Closed"
<1>1. /\ Frame("onClose", o) \in AllFrames /\ Frame("retire", o) \in AllFrames
      /\ Frame("onClose", o) # Frame("retire", o) /\ ~Once("onClose")
      /\ Frame("onClose", o).pc = "onClose"
  BY DEF Frame, AllFrames, SocketFrames, Callbacks, Once
<1>2. stack \in Seq(AllFrames) /\ FramesOnce
  BY DEF ReactorInv, Types
<1>3. CASE F = <<Frame("onClose", o)>>
  <2>1. /\ F \in Seq(AllFrames) /\ FramesIn(F) = {Frame("onClose", o)}
        /\ \A i \in DOMAIN F : ~Once(F[i].pc)
    BY <1>1, <1>3 DEF FramesIn
  <2>2. \A f \in FramesIn(F) : ~Once(f.pc)
    BY <1>1, <2>1
  <2> QED
    BY <1>2, <2>1, <2>2, StackGrows
<1>4. CASE F = <<Frame("onClose", o), Frame("retire", o)>> /\ sock[o].status # "Closed"
  <2>1. /\ F \in Seq(AllFrames) /\ FramesIn(F) = {Frame("onClose", o), Frame("retire", o)}
        /\ \A i, j \in DOMAIN F : F[j] = F[i] => i = j
    BY <1>1, <1>4 DEF FramesIn
  <2>2. Frame("retire", o) \notin Frames
    BY <1>4 DEF ReactorInv, RetiredAreGoing, Going
  <2>3. \A f \in FramesIn(F) : Once(f.pc) => f \notin Frames
    BY <1>1, <2>1, <2>2
  <2> QED
    BY <1>2, <1>4, <2>1, <2>3, StackGrows
<1> QED
  BY <1>3, <1>4 DEF ClosingFrames

LEMMA ClosingKeeps ==
    ASSUME ReactorInv, NEW o \in Socket, life[o] = "live", NEW r, ClosesAs(o, r),
           NEW F, ClosingFrames(F, o), OnTop(F)
    PROVE  ReactorInv'
<1> USE DEF ReactorInv
<1>1. /\ stack' \in Seq(AllFrames) /\ FramesOnce'
      /\ \A f \in Frames' : \/ f \in Frames
                            \/ f = Frame("onClose", o)
                            \/ f = Frame("retire", o) /\ sock[o].status # "Closed"
  BY ClosingStack
<1>2. PICK fd : fd = sock[o].fd
  OBVIOUS
<1>3. /\ fd # NoFd /\ r.fd = fd /\ Shaped(r) /\ r.status = "Closed" /\ r.rbuf = FALSE
      /\ UNCHANGED <<life, gcList, dns>>
  BY <1>2 DEF ClosesAs
<1>4. DOMAIN sock' = Socket /\ \A x \in Socket : sock'[x] = IF x = o THEN r ELSE sock[x]
  BY DEF ClosesAs, SetSock, Types
<1>5. /\ ListTypeOK'
      /\ fd \in Slots => /\ list'[fd].type = "IS_NOT_SET"
                         /\ list'[fd].socketBasePtr = list[fd].socketBasePtr
      /\ \A g \in Slots : g # fd => list'[g] = list[g]
  BY <1>3, RemoveLeaves DEF ClosesAs, Types, ListTypeOK
<1>6. /\ owner' \in [Fds -> Socket \cup {Free, Foreign, Listener}]
      /\ \A g \in Fds : g # fd => owner'[g] = owner[g]
  BY <1>3, CloseFdLeaves DEF ClosesAs, Types
<1>7. \A x \in Socket, g \in Slots : HasSlot(x, g)' => HasSlot(x, g) /\ g # fd
  BY <1>5 DEF HasSlot
<1>8. \A x \in Socket : /\ Going(x) => Going(x)'
                        /\ Waiting(x) => Waiting(x)'
                        /\ InGCList(x)' = InGCList(x)
  <2>1. \A x \in Socket : Going(x) => Going(x)'
    BY <1>3, <1>4 DEF Going
  <2>2. ~Waiting(o)
    BY <1>2, <1>3 DEF Waiting
  <2>3. \A x \in Socket : Waiting(x) => Waiting(x)'
    BY <1>3, <1>4, <1>7, <2>2 DEF Waiting
  <2>4. \A x \in Socket : InGCList(x)' = InGCList(x)
    BY <1>3 DEF InGCList
  <2> QED
    BY <2>1, <2>3, <2>4
<1>9. Going(o)'
  BY <1>3, <1>4 DEF Going
<1>10. Types'
  BY <1>1, <1>2, <1>3, <1>4, <1>5, <1>6 DEF Types, ListTypeOK
<1>11. MembersFit'
  BY <1>3, <1>4 DEF MembersFit
<1>12. FramesAreLive'
  BY <1>1, <1>3 DEF FramesAreLive, Frame
<1>13. WalkIsLive'
  <2>1. \A f \in Frames' : f.pc = "closeSlot" => f \in Frames
    BY <1>1 DEF Frame
  <2>2. \A g \in Slots : list'[g].socketBasePtr = list[g].socketBasePtr
    BY <1>5
  <2> QED
    BY <1>3, <2>1, <2>2 DEF WalkIsLive
<1>14. RetiredAreGoing'
  <2>1. \A x \in Socket : InGCList(x)' => Going(x)'
    BY <1>8 DEF RetiredAreGoing
  <2>2. ASSUME NEW x \in Socket, Frame("retire", x) \in Frames'
        PROVE  Going(x)' /\ ~InGCList(x)'
    <3>1. CASE Frame("retire", x) \in Frames
      BY <1>8, <3>1 DEF RetiredAreGoing
    <3>2. CASE Frame("retire", x) \notin Frames
      <4>1. x = o /\ sock[o].status # "Closed"
        BY <1>1, <2>2, <3>2 DEF Frame
      <4> QED
        BY <1>8, <1>9, <4>1 DEF RetiredAreGoing, Going
    <3> QED
      BY <3>1, <3>2
  <2> QED
    BY <2>1, <2>2 DEF RetiredAreGoing
<1>15. CollectedOnce'
  BY <1>3 DEF CollectedOnce
<1>16. LookupsAreWaiting'
  <2>1. \A x \in Socket : Frame("connect", x) \in Frames' => Frame("connect", x) \in Frames
    BY <1>1 DEF Frame
  <2> QED
    BY <1>3, <1>8, <2>1 DEF LookupsAreWaiting
<1>17. SlotsFit'
  <2> SUFFICES ASSUME NEW g \in Slots, list'[g].type = "IS_TCP_SOCKET"
               PROVE  /\ list'[g].socketBasePtr \in Socket
                      /\ life'[list'[g].socketBasePtr] = "live"
                      /\ sock'[list'[g].socketBasePtr].status # "Closed"
                      /\ sock'[list'[g].socketBasePtr].fd \in {g, NoFd}
                      /\ g \in Fds /\ owner'[g] = list'[g].socketBasePtr
    BY DEF SlotsFit
  <2>1. g # fd /\ list'[g] = list[g]
    BY <1>5
  <2>2. list[g].socketBasePtr # o
    BY <1>2, <1>3, <2>1 DEF SlotsFit
  <2> QED
    BY <1>3, <1>4, <1>6, <2>1, <2>2 DEF SlotsFit
<1> QED
  BY <1>1, <1>10, <1>11, <1>12, <1>13, <1>14, <1>15, <1>16, <1>17

(* The members close() leaves, whatever becomes of the queue.              *)
ClosedWith(r, q, len) == [r EXCEPT !.status = "Closed", !.rbuf = FALSE,
                                   !.queue = q, !.len = len]

LEMMA ClosedMembers ==
    ASSUME NEW r, Shaped(r), NEW q, NEW len
    PROVE  LET s == ClosedWith(r, q, len)
           IN  Shaped(s) /\ s.fd = r.fd /\ s.status = "Closed" /\ s.rbuf = FALSE
<1>1. \A u : Shaped(u) => Shaped([u EXCEPT !.status = "Closed"])
  BY DEF Shaped
<1>0. ASSUME NEW u, Shaped(u), NEW v, v = [u EXCEPT !.rbuf = FALSE] PROVE Shaped(v)
  BY <1>0 DEF Shaped
<1>2. \A u : Shaped(u) => Shaped([u EXCEPT !.queue = q])
  BY DEF Shaped
<1>3. \A u : Shaped(u) => Shaped([u EXCEPT !.len = len])
  BY DEF Shaped
<1>4. PICK a : a = [r EXCEPT !.status = "Closed"]
  OBVIOUS
<1>5. Shaped(a) /\ a.fd = r.fd /\ a.status = "Closed"
  BY <1>1, <1>4 DEF Shaped
<1>6. PICK b : b = [a EXCEPT !.rbuf = FALSE]
  OBVIOUS
<1>7. Shaped(b) /\ b.fd = r.fd /\ b.status = "Closed" /\ b.rbuf = FALSE
  <2>1. Shaped(b)
    BY <1>0, <1>5, <1>6
  <2>2. b.fd = a.fd /\ b.status = a.status /\ b.rbuf = FALSE
    BY <1>5, <1>6 DEF Shaped
  <2> QED
    BY <1>5, <2>1, <2>2
<1>8. PICK c : c = [b EXCEPT !.queue = q]
  OBVIOUS
<1>9. Shaped(c) /\ c.fd = r.fd /\ c.status = "Closed" /\ c.rbuf = FALSE
  <2>1. Shaped(c)
    BY <1>2, <1>7, <1>8
  <2>2. c.fd = b.fd /\ c.status = b.status /\ c.rbuf = b.rbuf
    BY <1>7, <1>8 DEF Shaped
  <2> QED
    BY <1>7, <2>1, <2>2
<1>10. PICK d : d = [c EXCEPT !.len = len]
  OBVIOUS
<1>11. Shaped(d) /\ d.fd = r.fd /\ d.status = "Closed" /\ d.rbuf = FALSE
  <2>1. Shaped(d)
    BY <1>3, <1>9, <1>10
  <2>2. d.fd = c.fd /\ d.status = c.status /\ d.rbuf = c.rbuf
    BY <1>9, <1>10 DEF Shaped
  <2> QED
    BY <1>9, <2>1, <2>2
<1>12. d = ClosedWith(r, q, len)
  BY <1>4, <1>6, <1>8, <1>10 DEF Shaped, ClosedWith
<1> QED
  BY <1>11, <1>12

LEMMA FinishedMembers ==
    ASSUME NEW r, Shaped(r), NEW s, s = [WithStatus(r, "Closed") EXCEPT !.rbuf = FALSE]
    PROVE  Shaped(s) /\ s.fd = r.fd /\ s.status = "Closed" /\ s.rbuf = FALSE
<1>1. PICK a : a = WithStatus(r, "Closed")
  OBVIOUS
<1>2. Shaped(a) /\ a.fd = r.fd /\ a.status = "Closed"
  BY <1>1 DEF Shaped, WithStatus
<1>3. s = [a EXCEPT !.rbuf = FALSE]
  BY <1>1
<1>4. Shaped(s)
  BY <1>2, <1>3 DEF Shaped
<1>5. s.fd = a.fd /\ s.status = a.status /\ s.rbuf = FALSE
  BY <1>2, <1>3 DEF Shaped
<1> QED
  BY <1>2, <1>4, <1>5

LEMMA CloseKeeps ==
    ASSUME ReactorInv, NEW o \in Socket, Close(o), UNCHANGED dns
    PROVE  ReactorInv'
<1>1. stack # << >> /\ life[o] = "live"
  BY RunningIsLive DEF Close
<1>2. CASE CloseIgnored(o) /\ Continue(<< >>) /\ UNCHANGED <<listVars, kernelVars, objectVars>>
  BY <1>1, <1>2, HarmlessNone, AllKeptAsTheyAre, HarmlessStep
     DEF Continue, OnTop, kernelVars, objectVars
<1>3. ASSUME ~CloseIgnored(o), NEW force \in BOOLEAN, CloseNow(o, force) PROVE ReactorInv'
  <2>1. PICK q, len, r : r = ClosedWith(sock[o], q, len) /\ SetSock(o, r)
    BY <1>3 DEF CloseNow, ClosedWith
  <2>2. Shaped(r) /\ r.fd = sock[o].fd /\ r.status = "Closed" /\ r.rbuf = FALSE
    <3>1. PICK x : x = sock[o]
      OBVIOUS
    <3>2. Shaped(x) /\ r = ClosedWith(x, q, len)
      BY <2>1, <3>1, AllFit DEF Fits
    <3>3. Shaped(ClosedWith(x, q, len))
      BY <3>2, ClosedMembers
    <3>4. ClosedWith(x, q, len).fd = x.fd
      BY <3>2, ClosedMembers
    <3>5. ClosedWith(x, q, len).status = "Closed"
      BY <3>2, ClosedMembers
    <3>6. ClosedWith(x, q, len).rbuf = FALSE
      BY <3>2, ClosedMembers
    <3> QED
      BY <3>1, <3>2, <3>3, <3>4, <3>5, <3>6
  <2>3. ClosesAs(o, r) /\ sock[o].status # "Closed"
    BY <1>3, <2>1, <2>2 DEF ClosesAs, CloseNow, CloseIgnored
  <2>4. PICK F : F = <<Frame("onClose", o), Frame("retire", o)>>
    OBVIOUS
  <2>5. ClosingFrames(F, o) /\ OnTop(F)
    BY <1>1, <1>3, <2>3, <2>4 DEF ClosingFrames, OnTop, CloseNow, Continue
  <2> QED
    BY <1>1, <2>3, <2>5, ClosingKeeps
<1>4. ASSUME ~CloseIgnored(o), CloseGracefully(o) PROVE ReactorInv'
  <2>1. PICK r : /\ r = [WithStatus(sock[o], "Closing") EXCEPT !.pendingClose = TRUE,
                                                        !.events = @ \cup {"OUT"}]
                 /\ SetSock(o, r)
    BY <1>4 DEF CloseGracefully
  <2>2. Kept(sock[o], r)
    BY <1>4, <2>1, AllFit, ClosingKept DEF CloseIgnored
  <2> QED
    BY <1>1, <1>4, <2>1, <2>2, OneKept, HarmlessNone, HarmlessStep DEF CloseGracefully, Continue, OnTop
<1> QED
  BY <1>2, <1>3, <1>4 DEF Close

LEMMA DrainedKeeps ==
    ASSUME ReactorInv, NEW o \in Socket, Drained(o), UNCHANGED dns
    PROVE  ReactorInv'
<1>1. stack # << >> /\ life[o] = "live"
  BY RunningIsLive DEF Drained
<1>2. CASE sock[o].pendingClose /\ FinishPendingClose(o)
  <2>1. PICK r : r = [WithStatus(sock[o], "Closed") EXCEPT !.rbuf = FALSE] /\ SetSock(o, r)
    BY <1>2 DEF FinishPendingClose
  <2>2. Shaped(r) /\ r.fd = sock[o].fd /\ r.status = "Closed" /\ r.rbuf = FALSE
    <3>1. PICK s : s = sock[o]
      OBVIOUS
    <3>2. Shaped(s) /\ r = [WithStatus(s, "Closed") EXCEPT !.rbuf = FALSE]
      BY <2>1, <3>1, AllFit DEF Fits
    <3> QED
      BY <3>1, <3>2, FinishedMembers
  <2>3. sock[o].fd # NoFd
    BY <1>2, AllFit DEF Fits
  <2>4. ClosesAs(o, r)
    BY <1>2, <2>1, <2>2, <2>3 DEF ClosesAs, FinishPendingClose
  <2>5. PICK F : F = <<Frame("onClose", o)>>
    OBVIOUS
  <2>6. ClosingFrames(F, o) /\ OnTop(F)
    BY <1>1, <1>2, <2>5 DEF ClosingFrames, OnTop, FinishPendingClose, Continue
  <2> QED
    BY <1>1, <2>4, <2>6, ClosingKeeps
<1>3. CASE ~(sock[o].pendingClose /\ FinishPendingClose(o))
  <2>1. Harmless(<<Frame("onResume", o), Frame("quiet", o)>>) /\ Harmless(<<Frame("quiet", o)>>)
    BY <1>1, HarmlessOne, HarmlessTwo DEF HarmlessPcs, Callbacks
  <2>2. \E F : Harmless(F) /\ OnTop(F)
    BY <1>1, <1>3, <2>1 DEF Drained, Continue, OnTop
  <2>3. UNCHANGED sock \/ SetSock(o, Resumed(sock[o]))
    BY <1>3 DEF Drained, SetMask
  <2>4. AllKept
    BY <2>3, AllFit, PausedKept, AllKeptAsTheyAre, OneKept
  <2> QED
    BY <1>3, <2>2, <2>4, HarmlessStep DEF Drained
<1> QED
  BY <1>2, <1>3

LEMMA RetireKeeps ==
    ASSUME ReactorInv, NEW o \in Socket, Retire(o), UNCHANGED dns
    PROVE  ReactorInv'
<1> USE DEF ReactorInv
<1>1. stack # << >> /\ Head(stack) = Frame("retire", o) /\ Frame("retire", o) \in Frames
  BY RunningIsLive DEF Retire
<1>2. Going(o) /\ ~InGCList(o)
  BY <1>1 DEF RetiredAreGoing
<1> PICK F : F = << >>
  OBVIOUS
<1>3. /\ F \in Seq(AllFrames) /\ FramesIn(F) = {} /\ DOMAIN F = {}
      /\ stack \in Seq(AllFrames) /\ FramesOnce
  BY DEF FramesIn, Types
<1>4. stack' = F \o Tail(stack) /\ OnTop(F)
  BY <1>1 DEF Retire, Continue, OnTop
<1>5. stack' \in Seq(AllFrames) /\ Frames' \subseteq Frames /\ FramesOnce'
  BY <1>3, <1>4, StackGrows
<1>6. Frame("retire", o) \notin Frames'
  <2>1. Once(Head(stack).pc) /\ Head(stack) \notin FramesIn(F)
    BY <1>1, <1>3 DEF Frame, Once
  <2> QED
    BY <1>1, <1>3, <1>4, <2>1, Popped
<1>7. gcList' = Append(gcList, o) /\ UNCHANGED <<list, genIDCounter, active, owner, sock, life, dns>>
  BY DEF Retire, listVars, kernelVars
<1>8. /\ gcList' \in Seq(Socket) /\ DOMAIN gcList' = 1 .. Len(gcList) + 1 /\ Len(gcList) \in Nat
      /\ DOMAIN gcList = 1 .. Len(gcList)
      /\ \A i \in 1 .. Len(gcList) : gcList'[i] = gcList[i]
      /\ gcList'[Len(gcList) + 1] = o
  BY <1>7 DEF Types
<1>9. \A x \in Socket : InGCList(x)' <=> InGCList(x) \/ x = o
  BY <1>8 DEF InGCList
<1>10. \A x \in Socket : (Going(x)' <=> Going(x)) /\ (Waiting(x)' <=> Waiting(x))
  BY <1>7 DEF Going, Waiting, HasSlot
<1>11. Types'
  BY <1>5, <1>7, <1>8 DEF Types
<1>12. MembersFit' /\ SlotsFit'
  BY <1>7 DEF MembersFit, SlotsFit
<1>13. FramesAreLive' /\ WalkIsLive'
  BY <1>5, <1>7 DEF FramesAreLive, WalkIsLive
<1>14. RetiredAreGoing'
  BY <1>2, <1>5, <1>6, <1>9, <1>10 DEF RetiredAreGoing
<1>15. CollectedOnce'
  BY <1>2, <1>8 DEF CollectedOnce, InGCList
<1>16. LookupsAreWaiting'
  BY <1>5, <1>7, <1>10 DEF LookupsAreWaiting
<1> QED
  BY <1>5, <1>11, <1>12, <1>13, <1>14, <1>15, <1>16

-----------------------------------------------------------------------------
(* Steps in the life of one object before it is closed: it is made, looks  *)
(* its name up, gets a descriptor and a slot.  Slots change only in its    *)
(* favour.                                                                 *)
SlotsKeptFor(o) ==
    \A g \in Slots :
        \/ /\ list'[g] = list[g]
           /\ list[g].type = "IS_TCP_SOCKET" => owner'[g] = owner[g]
        \/ /\ list'[g].type = "IS_TCP_SOCKET" /\ list'[g].socketBasePtr = o
           /\ g \in Fds /\ owner'[g] = o
           /\ sock'[o].status # "Closed" /\ sock'[o].fd \in {g, NoFd}

OnlyMembersOf(o) ==
    /\ DOMAIN sock' = Socket
    /\ \A x \in Socket \ {o} : sock'[x] = sock[x] /\ life'[x] = life[x]
    /\ life' \in [Socket -> {"fresh", "live", "freed"}] /\ life'[o] = "live"
    /\ Shaped(sock'[o]) /\ sock'[o].fd \in Fds \cup {NoFd}
    /\ sock'[o].fd = NoFd => sock'[o].queue = << >> /\ sock'[o].pendingClose = FALSE
    /\ sock'[o].fd = NoFd \/ sock'[o].status = "Closed" => sock'[o].rbuf = FALSE

OnlyFramesOf(o) ==
    /\ stack' \in Seq(AllFrames) /\ FramesOnce'
    /\ \A f \in Frames' : \/ f \in Frames
                          \/ /\ f.pc \notin {"retire", "closeSlot"}
                             /\ "o" \in DOMAIN f => f.o = o

LEMMA YoungObjectKeeps ==
    ASSUME ReactorInv, NEW o \in Socket, ~Going(o), \A g \in Slots : ~HasSlot(o, g),
           SlotsKeptFor(o), ListTypeOK', owner' \in [Fds -> Socket \cup {Free, Foreign, Listener}],
           OnlyMembersOf(o), OnlyFramesOf(o), UNCHANGED gcList,
           dns' \subseteq Socket, \A x \in Socket \ {o} : x \in dns' => x \in dns,
           ~(o \in dns' /\ Frame("connect", o) \in Frames'),
           o \in dns' \/ Frame("connect", o) \in Frames' => Waiting(o)'
    PROVE  ReactorInv'
<1> USE DEF ReactorInv
<1>1. \A x \in Socket, g \in Slots : x # o => (HasSlot(x, g)' => HasSlot(x, g))
  BY DEF HasSlot, SlotsKeptFor
<1>2. \A x \in Socket \ {o} : /\ Going(x) => Going(x)'
                              /\ Waiting(x) => Waiting(x)'
  BY <1>1 DEF Going, Waiting, OnlyMembersOf
<1>3. \A x \in Socket : InGCList(x)' <=> InGCList(x)
  BY DEF InGCList
<1>4. \A x \in Socket : life[x] = "live" => life'[x] = "live"
  BY DEF OnlyMembersOf
<1>5. Types'
  <2>1. /\ DOMAIN sock' = Socket
        /\ \A x \in Socket : Shaped(sock'[x]) /\ sock'[x].fd \in Fds \cup {NoFd}
    BY DEF OnlyMembersOf, Types
  <2> QED
    BY <2>1 DEF Types, ListTypeOK, OnlyMembersOf, OnlyFramesOf
<1>6. MembersFit'
  BY DEF MembersFit, OnlyMembersOf
<1>7. FramesAreLive'
  <2> SUFFICES ASSUME NEW x \in Socket, NEW f \in Frames', "o" \in DOMAIN f, f.o = x
               PROVE  life'[x] = "live"
    BY DEF FramesAreLive
  <2>1. CASE f \in Frames
    BY <1>4, <2>1 DEF FramesAreLive
  <2>2. CASE f.o = o
    BY <2>2 DEF OnlyMembersOf
  <2> QED
    BY <2>1, <2>2 DEF OnlyFramesOf
<1>8. WalkIsLive'
  <2> SUFFICES ASSUME NEW f \in Frames', f.pc = "closeSlot"
               PROVE  /\ f.fd \in Slots /\ list'[f.fd].socketBasePtr \in Socket
                      /\ life'[list'[f.fd].socketBasePtr] = "live"
    BY DEF WalkIsLive
  <2>1. f \in Frames
    BY DEF OnlyFramesOf
  <2>2. /\ f.fd \in Slots /\ list[f.fd].socketBasePtr \in Socket
        /\ life[list[f.fd].socketBasePtr] = "live"
    BY <2>1 DEF WalkIsLive
  <2>3. list'[f.fd].socketBasePtr \in {list[f.fd].socketBasePtr, o}
    BY <2>2 DEF SlotsKeptFor
  <2>4. life'[o] = "live"
    BY DEF OnlyMembersOf
  <2> QED
    BY <1>4, <2>2, <2>3, <2>4
<1>9. RetiredAreGoing'
  <2>1. \A x \in Socket : Frame("retire", x) \in Frames' => Frame("retire", x) \in Frames
    BY DEF OnlyFramesOf, Frame
  <2>2. Frame("retire", o) \notin Frames /\ ~InGCList(o)
    BY DEF RetiredAreGoing
  <2> QED
    BY <1>2, <1>3, <2>1, <2>2 DEF RetiredAreGoing
<1>10. CollectedOnce'
  BY DEF CollectedOnce
<1>11. LookupsAreWaiting'
  <2>1. ASSUME NEW x \in Socket, x # o
        PROVE  Frame("connect", x) \in Frames' => Frame("connect", x) \in Frames
    BY <2>1 DEF OnlyFramesOf, Frame
  <2> QED
    BY <1>2, <2>1 DEF LookupsAreWaiting
<1>12. SlotsFit'
  <2> SUFFICES ASSUME NEW g \in Slots, list'[g].type = "IS_TCP_SOCKET"
               PROVE  /\ list'[g].socketBasePtr \in Socket
                      /\ life'[list'[g].socketBasePtr] = "live"
                      /\ sock'[list'[g].socketBasePtr].status # "Closed"
                      /\ sock'[list'[g].socketBasePtr].fd \in {g, NoFd}
                      /\ g \in Fds /\ owner'[g] = list'[g].socketBasePtr
    BY DEF SlotsFit
  <2>1. CASE list'[g] = list[g] /\ owner'[g] = owner[g]
    <3>1. PICK x \in Socket : x = list[g].socketBasePtr /\ x # o
      BY <2>1 DEF SlotsFit, HasSlot
    <3> QED
      BY <2>1, <3>1 DEF SlotsFit, OnlyMembersOf
  <2>2. CASE /\ list'[g].socketBasePtr = o /\ g \in Fds /\ owner'[g] = o
             /\ sock'[o].status # "Closed" /\ sock'[o].fd \in {g, NoFd}
    BY <2>2 DEF OnlyMembersOf
  <2> QED
    BY <2>1, <2>2 DEF SlotsKeptFor
<1> QED
  BY <1>5, <1>6, <1>7, <1>8, <1>9, <1>10, <1>11, <1>12 DEF OnlyFramesOf

LEMMA FramesOfOne ==
    ASSUME ReactorInv, NEW o \in Socket, NEW F \in Seq(AllFrames), OnTop(F),
           \A f \in FramesIn(F) : ~Once(f.pc) /\ f.pc # "closeSlot" /\ f.o = o
    PROVE  OnlyFramesOf(o) /\ (Frame("connect", o) \in Frames' => Frame("connect", o) \in Frames)
<1>1. stack \in Seq(AllFrames) /\ FramesOnce
  BY DEF ReactorInv, Types
<1>2. \A i \in DOMAIN F : ~Once(F[i].pc)
  BY DEF FramesIn
<1>3. stack' \in Seq(AllFrames) /\ Frames' \subseteq Frames \cup FramesIn(F) /\ FramesOnce'
  BY <1>1, <1>2, StackGrows
<1> QED
  BY <1>3 DEF OnlyFramesOf, Once, Frame

LEMMA ConnectOnTop ==
    ASSUME ReactorInv, NEW o \in Socket, Frame("connect", o) \notin Frames,
           Call(<<Frame("connect", o)>>)
    PROVE  OnlyFramesOf(o)
<1> PICK F : F = <<Frame("connect", o)>>
  OBVIOUS
<1>1. stack \in Seq(AllFrames) /\ FramesOnce
  BY DEF ReactorInv, Types
<1>2. Frame("connect", o) \in AllFrames
  BY DEF Frame, AllFrames, SocketFrames
<1>3. /\ F \in Seq(AllFrames) /\ FramesIn(F) = {Frame("connect", o)}
      /\ \A i, j \in DOMAIN F : i = j
  BY <1>2 DEF FramesIn
<1>4. OnTop(F)
  BY CallOnTop
<1>5. stack' \in Seq(AllFrames) /\ Frames' \subseteq Frames \cup FramesIn(F) /\ FramesOnce'
  BY <1>1, <1>3, <1>4, StackGrows
<1> QED
  BY <1>3, <1>5 DEF OnlyFramesOf, Frame

(* AppConnects: a new object asks for the address of its peer.             *)
LEMMA AppConnectsKeeps ==
    ASSUME ReactorInv, NEW o \in Socket, AppConnects(o)
    PROVE  ReactorInv'
<1>1. /\ life[o] = "fresh" /\ life' = [life EXCEPT ![o] = "live"]
      /\ SetSock(o, [Constructed EXCEPT !.status = "Connecting"])
      /\ UNCHANGED <<list, genIDCounter, active, owner, gcList>>
      /\ \/ Call(<<Frame("connect", o)>>) /\ UNCHANGED dns
         \/ dns' \in {dns, dns \cup {o}} /\ UNCHANGED stack
  BY DEF AppConnects, listVars, kernelVars
<1>2. /\ ~Going(o) /\ (\A g \in Slots : ~HasSlot(o, g)) /\ o \notin dns
      /\ Frame("connect", o) \notin Frames
  BY <1>1 DEF ReactorInv, SlotsFit, HasSlot, LookupsAreWaiting, Waiting, Going
<1>3. SlotsKeptFor(o)
  BY <1>1 DEF SlotsKeptFor
<1>4. OnlyMembersOf(o) /\ sock'[o].fd = NoFd /\ sock'[o].status # "Closed"
  BY <1>1 DEF OnlyMembersOf, SetSock, Constructed, Shaped, ReactorInv, Types
<1>5. OnlyFramesOf(o) /\ (UNCHANGED stack => Frame("connect", o) \notin Frames')
  <2>1. CASE UNCHANGED stack
    <3>1. << >> \in Seq(AllFrames) /\ \A f \in FramesIn(<< >>) : FALSE
      BY DEF FramesIn
    <3> QED
      BY <1>2, <2>1, <3>1, StackAlone, FramesOfOne
  <2>2. CASE ~UNCHANGED stack
    BY <1>1, <1>2, <2>2, ConnectOnTop
  <2> QED
    BY <2>1, <2>2
<1>6. ~(o \in dns' /\ Frame("connect", o) \in Frames')
  BY <1>1, <1>2, <1>5
<1>7. Waiting(o)'
  BY <1>1, <1>2, <1>4 DEF Waiting, HasSlot, OnlyMembersOf
<1>8. dns' \subseteq Socket /\ \A x \in Socket \ {o} : x \in dns' => x \in dns
  BY <1>1 DEF ReactorInv, Types
<1>9. ListTypeOK' /\ owner' \in [Fds -> Socket \cup {Free, Foreign, Listener}]
  BY <1>1 DEF ListTypeOK, ReactorInv, Types
<1> QED
  BY <1>1, <1>2, <1>3, <1>4, <1>5, <1>6, <1>7, <1>8, <1>9, YoungObjectKeeps

LEMMA DnsAnswersKeeps ==
    ASSUME ReactorInv, NEW o \in Socket, DnsAnswers(o)
    PROVE  ReactorInv'
<1>1. /\ o \in dns /\ dns' = dns \ {o} /\ Call(<<Frame("connect", o)>>)
      /\ UNCHANGED <<list, genIDCounter, active, owner, sock, life, gcList>>
  BY DEF DnsAnswers, listVars, kernelVars, objectVars
<1>2. Waiting(o) /\ Frame("connect", o) \notin Frames
  BY <1>1 DEF ReactorInv, LookupsAreWaiting
<1>3. ~Going(o) /\ \A g \in Slots : ~HasSlot(o, g)
  BY <1>2 DEF Waiting, Going
<1>4. SlotsKeptFor(o)
  BY <1>1 DEF SlotsKeptFor
<1>5. OnlyMembersOf(o)
  BY <1>1, <1>2 DEF OnlyMembersOf, ReactorInv, Types, MembersFit, Waiting
<1>6. OnlyFramesOf(o)
  BY <1>1, <1>2, ConnectOnTop
<1>7. Waiting(o)'
  BY <1>1, <1>2 DEF Waiting, HasSlot
<1>8. ListTypeOK' /\ owner' \in [Fds -> Socket \cup {Free, Foreign, Listener}] /\ dns' \subseteq Socket
  BY <1>1 DEF ListTypeOK, ReactorInv, Types
<1> QED
  BY <1>1, <1>3, <1>4, <1>5, <1>6, <1>7, <1>8, YoungObjectKeeps

(* The members of a socket that adopts a descriptor.                       *)
WithFd(r, fd, gen, ev) ==
    {[r EXCEPT !.fd = fd], [r EXCEPT !.fd = fd, !.rbuf = TRUE],
     [r EXCEPT !.fd = fd, !.rbuf = TRUE, !.gen = gen, !.events = ev]}

LEMMA AdoptedMembers ==
    ASSUME NEW r, Shaped(r), NEW fd, NEW gen, NEW ev, NEW s \in WithFd(r, fd, gen, ev)
    PROVE  Shaped(s) /\ s.fd = fd /\ s.status = r.status
<1> PICK a, b, c, d : /\ a = [r EXCEPT !.fd = fd] /\ b = [a EXCEPT !.rbuf = TRUE]
                      /\ c = [b EXCEPT !.gen = gen] /\ d = [c EXCEPT !.events = ev]
  OBVIOUS
<1>1. Shaped(a) /\ a.fd = fd /\ a.status = r.status
  <2>1. Shaped(a)
    BY DEF Shaped
  <2> QED
    BY <2>1 DEF Shaped
<1>2. Shaped(b) /\ b.fd = fd /\ b.status = r.status
  <2>1. Shaped(b)
    BY <1>1 DEF Shaped
  <2> QED
    BY <1>1, <2>1 DEF Shaped
<1>3. Shaped(c) /\ c.fd = fd /\ c.status = r.status
  <2>1. Shaped(c)
    BY <1>2 DEF Shaped
  <2> QED
    BY <1>2, <2>1 DEF Shaped
<1>4. Shaped(d) /\ d.fd = fd /\ d.status = r.status
  <2>1. Shaped(d)
    BY <1>3 DEF Shaped
  <2> QED
    BY <1>3, <2>1 DEF Shaped
<1>5. b = [r EXCEPT !.fd = fd, !.rbuf = TRUE]
  BY DEF Shaped
<1>6. d = [r EXCEPT !.fd = fd, !.rbuf = TRUE, !.gen = gen, !.events = ev]
  BY DEF Shaped
<1> QED
  BY <1>1, <1>2, <1>4, <1>5, <1>6 DEF WithFd

(* A free descriptor becomes the object's, with its slot or without.       *)
LEMMA AdoptedSlots ==
    ASSUME ReactorInv, NEW o \in Socket, NEW fd \in Fds, owner[fd] = Free,
           owner' = [owner EXCEPT ![fd] = o],
           \/ UNCHANGED listVars
           \/ \E ok \in BOOLEAN, ev \in SUBSET Flags : Registered(fd, o, ok, ev),
           sock'[o].status # "Closed", sock'[o].fd \in {fd, NoFd}
    PROVE  /\ SlotsKeptFor(o) /\ ListTypeOK'
           /\ owner' \in [Fds -> Socket \cup {Free, Foreign, Listener}]
<1>1. ListTypeOK /\ owner \in [Fds -> Socket \cup {Free, Foreign, Listener}] /\ fd \in Int
  BY KernelAssumption DEF ReactorInv, Types, ListTypeOK, Fds
<1>2. /\ ListTypeOK' /\ \A g \in Slots : g # fd => list'[g] = list[g]
      /\ fd \in Slots => \/ list'[fd] = list[fd]
                         \/ list'[fd].type = "IS_TCP_SOCKET" /\ list'[fd].socketBasePtr = o
  <2>1. CASE UNCHANGED listVars
    BY <1>1, <2>1 DEF ListTypeOK, listVars
  <2>2. CASE \E ok \in BOOLEAN, ev \in SUBSET Flags : Registered(fd, o, ok, ev)
    BY <1>1, <2>2, RegisteredLeaves
  <2> QED
    BY <2>1, <2>2
<1>3. \A g \in Slots : list[g].type = "IS_TCP_SOCKET" => g # fd
  <2>1. \A g \in Slots : list[g].type = "IS_TCP_SOCKET" => owner[g] \in Socket
    BY DEF ReactorInv, SlotsFit
  <2>2. Free \notin Socket
    BY KernelAssumption DEF Free
  <2> QED
    BY <2>1, <2>2
<1>4. \A g \in Fds : owner'[g] = IF g = fd THEN o ELSE owner[g]
  BY <1>1
<1>5. SlotsKeptFor(o)
  <2> SUFFICES ASSUME NEW g \in Slots
               PROVE  \/ /\ list'[g] = list[g]
                         /\ list[g].type = "IS_TCP_SOCKET" => owner'[g] = owner[g]
                      \/ /\ list'[g].type = "IS_TCP_SOCKET" /\ list'[g].socketBasePtr = o
                         /\ g \in Fds /\ owner'[g] = o
                         /\ sock'[o].status # "Closed" /\ sock'[o].fd \in {g, NoFd}
    BY DEF SlotsKeptFor
  <2>1. CASE g # fd
    <3>1. list[g].type = "IS_TCP_SOCKET" => g \in Fds
      BY DEF ReactorInv, SlotsFit
    <3> QED
      BY <1>2, <1>4, <2>1, <3>1
  <2>2. CASE g = fd
    BY <1>2, <1>3, <1>4, <2>2
  <2> QED
    BY <2>1, <2>2
<1> QED
  BY <1>1, <1>2, <1>5

(* _connect: the frame that answers the lookup is replaced.                *)
LEMMA ConnectFrames ==
    ASSUME ReactorInv, NEW o \in Socket, Running("connect", o), NEW F,
           \/ F = <<Frame("onConnectFailed", o)>> \/ F = <<Frame("onConnecting", o)>>
           \/ F = <<Frame("onConnected", o)>>
           \/ F = <<Frame("onConnectFailed", o), Frame("forceClose", o)>>,
           Continue(F)
    PROVE  /\ Waiting(o) /\ o \notin dns /\ OnlyFramesOf(o)
           /\ Frame("connect", o) \notin Frames'
<1>1. /\ stack # << >> /\ Head(stack) = Frame("connect", o) /\ Frame("connect", o) \in Frames
      /\ life[o] = "live"
  BY RunningIsLive
<1>2. Waiting(o) /\ o \notin dns
  BY <1>1 DEF ReactorInv, LookupsAreWaiting
<1>3. Harmless(F)
  BY <1>1, HarmlessOne, HarmlessTwo DEF HarmlessPcs, Callbacks
<1>4. \A f \in FramesIn(F) : f.o = o
  BY DEF FramesIn, Frame
<1>5. stack' = F \o Tail(stack) /\ OnTop(F)
  BY <1>1 DEF Continue, OnTop
<1>6. OnlyFramesOf(o)
  BY <1>3, <1>4, <1>5, FramesOfOne DEF Harmless
<1>7. /\ stack \in Seq(AllFrames) /\ FramesOnce /\ F \in Seq(AllFrames)
      /\ Once(Head(stack).pc) /\ Head(stack) \notin FramesIn(F)
  BY <1>1, <1>3 DEF ReactorInv, Types, Harmless, Once, Frame
<1>8. Head(stack) \notin Frames'
  BY <1>1, <1>5, <1>7, Popped
<1> QED
  BY <1>1, <1>2, <1>6, <1>8

LEMMA ConnectGivesUpKeeps ==
    ASSUME ReactorInv, NEW o \in Socket, Running("connect", o), ConnectGivesUp(o),
           UNCHANGED <<life, gcList, dns>>
    PROVE  ReactorInv'
<1>1. /\ Continue(<<Frame("onConnectFailed", o)>>) /\ SetSock(o, WithStatus(sock[o], "Closed"))
      /\ UNCHANGED <<list, genIDCounter, active, owner>>
  BY DEF ConnectGivesUp, listVars
<1>2. Waiting(o) /\ o \notin dns /\ OnlyFramesOf(o) /\ Frame("connect", o) \notin Frames'
  BY <1>1, ConnectFrames
<1>3. ~Going(o) /\ \A g \in Slots : ~HasSlot(o, g)
  BY <1>2 DEF Waiting, Going
<1>4. SlotsKeptFor(o)
  BY <1>1 DEF SlotsKeptFor
<1>5. PICK r : r = WithStatus(sock[o], "Closed")
  OBVIOUS
<1>6. /\ Shaped(r) /\ r.fd = sock[o].fd /\ r.queue = sock[o].queue /\ r.rbuf = sock[o].rbuf
      /\ r.pendingClose = sock[o].pendingClose
  <2>1. PICK x : x = sock[o]
    OBVIOUS
  <2>2. Shaped(x) /\ r = WithStatus(x, "Closed")
    BY <1>5, <2>1, AllFit DEF Fits
  <2>3. Shaped(r)
    BY <2>2 DEF Shaped, WithStatus
  <2>4. r.fd = x.fd /\ r.queue = x.queue /\ r.rbuf = x.rbuf /\ r.pendingClose = x.pendingClose
    BY <2>2 DEF Shaped, WithStatus
  <2> QED
    BY <2>1, <2>3, <2>4
<1>7. OnlyMembersOf(o)
  <2>1. DOMAIN sock' = Socket /\ \A x \in Socket : sock'[x] = IF x = o THEN r ELSE sock[x]
    BY <1>1, <1>5 DEF SetSock, ReactorInv, Types
  <2>2. sock[o].fd = NoFd /\ life[o] = "live"
    BY <1>2 DEF Waiting
  <2>3. sock[o].queue = << >> /\ sock[o].pendingClose = FALSE /\ sock[o].rbuf = FALSE
    BY <2>2 DEF ReactorInv, MembersFit
  <2> QED
    BY <1>6, <2>1, <2>2, <2>3 DEF OnlyMembersOf, ReactorInv, Types
<1>8. ListTypeOK' /\ owner' \in [Fds -> Socket \cup {Free, Foreign, Listener}] /\ dns' \subseteq Socket
  BY <1>1 DEF ListTypeOK, ReactorInv, Types
<1> QED
  BY <1>2, <1>3, <1>4, <1>7, <1>8, YoungObjectKeeps

(* Every way on with a descriptor.                                         *)
LEMMA ConnectAdoptsKeeps ==
    ASSUME ReactorInv, NEW o \in Socket, Running("connect", o), FreeFds # {},
           NEW fd, fd = LowestFree,
           ConnectStarts(o, fd) \/ ConnectsAtOnce(o, fd) \/ ConnectFails(o, fd),
           UNCHANGED <<life, gcList, dns>>
    PROVE  ReactorInv'
<1>1. fd \in Fds /\ owner[fd] = Free /\ fd # NoFd
  BY LowestFreeIsFree DEF Fds, NoFd
<1>2. /\ owner' = [owner EXCEPT ![fd] = o]
      /\ \/ UNCHANGED listVars
         \/ \E ok \in BOOLEAN, ev \in SUBSET Flags : Registered(fd, o, ok, ev)
  BY DEF ConnectStarts, ConnectsAtOnce, ConnectFails
<1>3. PICK F : /\ \/ F = <<Frame("onConnecting", o)>> \/ F = <<Frame("onConnected", o)>>
                  \/ F = <<Frame("onConnectFailed", o), Frame("forceClose", o)>>
               /\ Continue(F)
  BY DEF ConnectStarts, ConnectsAtOnce, ConnectFails
<1>4. Waiting(o) /\ o \notin dns /\ OnlyFramesOf(o) /\ Frame("connect", o) \notin Frames'
  BY <1>3, ConnectFrames
<1>5. ~Going(o) /\ life[o] = "live" /\ sock[o].status # "Closed" /\ \A g \in Slots : ~HasSlot(o, g)
  BY <1>4 DEF Waiting, Going
<1>6. PICK r : /\ r = sock[o] \/ r = WithStatus(sock[o], "Connected") \/ r = WithStatus(sock[o], "Closing")
               /\ \E gen, ev : \E s \in WithFd(r, fd, gen, ev) : SetSock(o, s)
  BY DEF WithFd, ConnectStarts, ConnectsAtOnce, ConnectFails
<1>7. Shaped(r) /\ r.status # "Closed"
  <2>1. Kept(sock[o], sock[o]) /\ Kept(sock[o], WithStatus(sock[o], "Connected"))
        /\ Kept(sock[o], WithStatus(sock[o], "Closing"))
    BY KeptAsItIs, AllFit, MemberKept
  <2> QED
    BY <1>5, <1>6, <2>1 DEF Kept
<1>8. PICK s : SetSock(o, s) /\ Shaped(s) /\ s.fd = fd /\ s.status = r.status
  <2>1. PICK gen, ev : \E s \in WithFd(r, fd, gen, ev) : SetSock(o, s)
    BY <1>6
  <2>2. PICK s \in WithFd(r, fd, gen, ev) : SetSock(o, s)
    BY <2>1
  <2>3. Shaped(s) /\ s.fd = fd /\ s.status = r.status
    BY <1>7, AdoptedMembers
  <2> QED
    BY <2>2, <2>3
<1>9. DOMAIN sock' = Socket /\ \A x \in Socket : sock'[x] = IF x = o THEN s ELSE sock[x]
  BY <1>8 DEF SetSock, ReactorInv, Types
<1>10. OnlyMembersOf(o)
  BY <1>1, <1>5, <1>7, <1>8, <1>9 DEF OnlyMembersOf, ReactorInv, Types
<1>11. /\ SlotsKeptFor(o) /\ ListTypeOK'
       /\ owner' \in [Fds -> Socket \cup {Free, Foreign, Listener}]
  BY <1>1, <1>2, <1>7, <1>8, <1>9, AdoptedSlots
<1>12. dns' \subseteq Socket
  BY DEF ReactorInv, Types
<1> QED
  BY <1>4, <1>5, <1>10, <1>11, <1>12, YoungObjectKeeps

LEMMA ConnectKeeps ==
    ASSUME ReactorInv, NEW o \in Socket, Connect(o), UNCHANGED dns
    PROVE  ReactorInv'
  BY ConnectGivesUpKeeps, ConnectAdoptsKeeps DEF Connect

(* _accepted: a new object for a client, with a slot or without.           *)
LEMMA AcceptedKeeps ==
    ASSUME ReactorInv, NEW o \in Socket, FreeFds # {}, NEW fd, fd = LowestFree,
           life[o] = "fresh", life' = [life EXCEPT ![o] = "live"],
           Accepted(o, fd), UNCHANGED <<gcList, dns>>
    PROVE  ReactorInv'
<1>1. fd \in Fds /\ owner[fd] = Free /\ fd # NoFd
  BY LowestFreeIsFree DEF Fds, NoFd
<1>2. /\ owner' = [owner EXCEPT ![fd] = o]
      /\ \E ok \in BOOLEAN, ev \in SUBSET Flags : Registered(fd, o, ok, ev)
  BY DEF Accepted, Flags
<1>3. /\ ~Going(o) /\ (\A g \in Slots : ~HasSlot(o, g)) /\ o \notin dns
      /\ Frame("connect", o) \notin Frames
  BY DEF ReactorInv, SlotsFit, HasSlot, LookupsAreWaiting, Waiting, Going
<1>4. PICK pc \in {"onAccepted", "forceClose"} : stack' = <<Frame(pc, o)>> \o stack
  BY DEF Accepted
<1>5. OnlyFramesOf(o) /\ Frame("connect", o) \notin Frames'
  <2>1. Frame(pc, o) \in AllFrames /\ Frame(pc, o).pc = pc /\ Frame(pc, o).o = o
    BY DEF Frame, AllFrames, SocketFrames, Callbacks
  <2>2. <<Frame(pc, o)>> \in Seq(AllFrames) /\ FramesIn(<<Frame(pc, o)>>) = {Frame(pc, o)}
    BY <2>1 DEF FramesIn
  <2>3. ~Once(pc) /\ pc # "closeSlot"
    BY DEF Once
  <2>4. OnTop(<<Frame(pc, o)>>)
    BY <1>4 DEF OnTop
  <2> QED
    BY <1>3, <2>1, <2>2, <2>3, <2>4, FramesOfOne
<1>6. PICK s : /\ SetSock(o, s) /\ Shaped(s) /\ s.status # "Closed" /\ s.fd \in {fd, NoFd}
               /\ s.queue = << >> /\ s.pendingClose = FALSE
               /\ s.fd = NoFd => s.rbuf = FALSE
  <2>1. CASE \E adopted \in BOOLEAN :
                SetSock(o, [Constructed EXCEPT
                              !.status = IF adopted THEN "Connected" ELSE @,
                              !.fd = fd, !.rbuf = adopted,
                              !.gen = KeyGen(fd), !.events = {"IN"}])
    <3>0. PICK adopted \in BOOLEAN :
             SetSock(o, [Constructed EXCEPT !.status = IF adopted THEN "Connected" ELSE @,
                                            !.fd = fd, !.rbuf = adopted,
                                            !.gen = KeyGen(fd), !.events = {"IN"}])
      BY <2>1
    <3>1. PICK r :
             /\ r = [Constructed EXCEPT !.status = IF adopted THEN "Connected" ELSE @,
                                        !.fd = fd, !.rbuf = adopted,
                                        !.gen = KeyGen(fd), !.events = {"IN"}]
             /\ SetSock(o, r)
      BY <3>0
    <3>2. r = [status |-> IF adopted THEN "Connected" ELSE "Ready", fd |-> fd, rbuf |-> adopted,
               queue |-> << >>, len |-> 0, gen |-> KeyGen(fd), events |-> {"IN"},
               readPaused |-> FALSE, pendingClose |-> FALSE]
      BY <3>1 DEF Constructed
    <3>3. /\ Shaped(r) /\ r.status # "Closed" /\ r.fd = fd /\ r.queue = << >>
          /\ r.pendingClose = FALSE
      BY <3>2 DEF Shaped
    <3> QED
      BY <1>1, <3>1, <3>3
  <2>2. CASE SetSock(o, [Constructed EXCEPT !.gen = KeyGen(fd),
                             !.events = IF Addable(fd) THEN {"IN"} ELSE {}])
    <3>1. PICK r : /\ r = [Constructed EXCEPT !.gen = KeyGen(fd),
                              !.events = IF Addable(fd) THEN {"IN"} ELSE {}]
                   /\ SetSock(o, r)
      BY <2>2
    <3>2. r = [status |-> "Ready", fd |-> NoFd, rbuf |-> FALSE,
               queue |-> << >>, len |-> 0, gen |-> KeyGen(fd),
               events |-> IF Addable(fd) THEN {"IN"} ELSE {},
               readPaused |-> FALSE, pendingClose |-> FALSE]
      BY <3>1 DEF Constructed
    <3>3. /\ Shaped(r) /\ r.status # "Closed" /\ r.fd = NoFd /\ r.queue = << >>
          /\ r.pendingClose = FALSE /\ r.rbuf = FALSE
      BY <3>2 DEF Shaped
    <3> QED
      BY <3>1, <3>3
  <2> QED
    BY <2>1, <2>2 DEF Accepted, Allocated
<1>7. DOMAIN sock' = Socket /\ \A x \in Socket : sock'[x] = IF x = o THEN s ELSE sock[x]
  BY <1>6 DEF SetSock, ReactorInv, Types
<1>8. OnlyMembersOf(o)
  BY <1>1, <1>6, <1>7 DEF OnlyMembersOf, ReactorInv, Types
<1>9. /\ SlotsKeptFor(o) /\ ListTypeOK'
      /\ owner' \in [Fds -> Socket \cup {Free, Foreign, Listener}]
  BY <1>1, <1>2, <1>6, <1>7, AdoptedSlots
<1>10. dns' \subseteq Socket
  BY DEF ReactorInv, Types
<1> QED
  BY <1>3, <1>5, <1>8, <1>9, <1>10, YoungObjectKeeps

LEMMA AdoptAcceptedKeeps ==
    ASSUME ReactorInv, NEW fd, AdoptAccepted(fd)
    PROVE  ReactorInv'
<1>1. CASE Continue(<< >>) /\ UNCHANGED <<listVars, kernelVars, objectVars>>
  <2>1. OnTop(<< >>)
    BY <1>1 DEF AdoptAccepted, Continue, OnTop
  <2> QED
    BY <1>1, <2>1, HarmlessNone, AllKeptAsTheyAre, HarmlessStep
       DEF AdoptAccepted, kernelVars, objectVars
<1>2. CASE UNCHANGED <<listVars, owner, interest, armed, net, objectVars, stack>>
  BY <1>2, StackAlone, AllKeptAsTheyAre, HarmlessStep DEF AdoptAccepted, objectVars
<1>3. CASE FreeFds # {} /\ \E o \in Socket : /\ life[o] = "fresh"
                                             /\ life' = [life EXCEPT ![o] = "live"]
                                             /\ Accepted(o, LowestFree)
                                             /\ UNCHANGED gcList
  BY <1>3, AcceptedKeeps DEF AdoptAccepted
<1> QED
  BY <1>1, <1>2, <1>3 DEF AdoptAccepted

-----------------------------------------------------------------------------
(* The timers.                                                             *)
(* The collector deletes objects that nothing but its own list leads to.   *)
LEMMA CollectedKeeps ==
    ASSUME ReactorInv, Idle, NEW n \in 0 .. Len(gcList), NEW dead,
           dead = {gcList[i] : i \in 1 .. n},
           life' = [o \in Socket |-> IF o \in dead THEN "freed" ELSE life[o]],
           sock' = [o \in Socket |-> IF o \in dead THEN Constructed ELSE sock[o]],
           gcList' = SubSeq(gcList, n + 1, Len(gcList)),
           UNCHANGED <<listVars, kernelVars, stack, dns>>
    PROVE  ReactorInv'
<1> USE DEF ReactorInv
<1>1. /\ gcList \in Seq(Socket) /\ Len(gcList) \in Nat /\ DOMAIN gcList = 1 .. Len(gcList)
      /\ n \in Nat /\ n <= Len(gcList)
  BY DEF Types
<1>2. \A o \in dead : o \in Socket /\ InGCList(o) /\ Going(o)
  <2> TAKE o \in dead
  <2>1. PICK i \in 1 .. n : gcList[i] = o
    OBVIOUS
  <2>2. i \in DOMAIN gcList
    BY <1>1
  <2>3. o \in Socket /\ InGCList(o)
    BY <1>1, <2>1, <2>2, SMTT(30) DEF InGCList
  <2> QED
    BY <2>3 DEF RetiredAreGoing
<1>3. \A o \in dead, fd \in Slots : ~HasSlot(o, fd)
  BY <1>2 DEF HasSlot, SlotsFit, Going
<1>4. /\ gcList' \in Seq(Socket) /\ DOMAIN gcList' = 1 .. Len(gcList) - n
      /\ \A i \in 1 .. Len(gcList) - n : i + n \in DOMAIN gcList /\ gcList'[i] = gcList[i + n]
  BY <1>1
<1>5. \A o \in Socket : InGCList(o)' => InGCList(o) /\ o \notin dead
  <2> SUFFICES ASSUME NEW o \in Socket, NEW i \in DOMAIN gcList', gcList'[i] = o
               PROVE  InGCList(o) /\ o \notin dead
    BY DEF InGCList
  <2>1. i \in Nat /\ i > 0 /\ i + n \in DOMAIN gcList /\ gcList[i + n] = o
    BY <1>4
  <2>2. ASSUME o \in dead PROVE FALSE
    <3>1. PICK j \in 1 .. n : gcList[j] = o
      BY <2>2
    <3>2. j \in DOMAIN gcList /\ j # i + n
      BY <1>1, <2>1
    <3> QED
      BY <2>1, <3>1, <3>2 DEF CollectedOnce
  <2> QED
    BY <2>1, <2>2 DEF InGCList
<1>6. UNCHANGED <<list, genIDCounter, active, owner, stack, dns>>
  BY DEF listVars, kernelVars
<1>7. Frames' = {}
  BY <1>6 DEF Idle, Frames
<1>8. \A o \in Socket : o \notin dead => /\ life'[o] = life[o] /\ sock'[o] = sock[o]
                                         /\ Going(o)' = Going(o) /\ Waiting(o)' = Waiting(o)
  BY <1>6 DEF Going, Waiting, HasSlot
<1>9. Types'
  <2>1. life' \in [Socket -> {"fresh", "live", "freed"}]
    BY DEF Types
  <2>2. Shaped(Constructed) /\ Constructed.fd = NoFd
    BY DEF Shaped, Constructed
  <2>3. DOMAIN sock' = Socket /\ \A o \in Socket : Shaped(sock'[o]) /\ sock'[o].fd \in Fds \cup {NoFd}
    BY <2>2 DEF Types
  <2> QED
    BY <1>4, <1>6, <2>1, <2>3 DEF Types
<1>10. MembersFit'
  BY DEF MembersFit, Constructed
<1>11. FramesOnce' /\ FramesAreLive' /\ WalkIsLive'
  BY <1>6, <1>7 DEF FramesOnce, FramesAreLive, WalkIsLive, Idle
<1>12. RetiredAreGoing'
  BY <1>5, <1>7, <1>8 DEF RetiredAreGoing
<1>13. CollectedOnce'
  <2> SUFFICES ASSUME NEW i \in DOMAIN gcList', NEW j \in DOMAIN gcList',
                      gcList'[i] = gcList'[j]
               PROVE  i = j
    BY DEF CollectedOnce
  <2>1. i \in Nat /\ j \in Nat /\ i + n \in DOMAIN gcList /\ j + n \in DOMAIN gcList
        /\ gcList[i + n] = gcList[j + n]
    BY <1>4
  <2>2. i + n = j + n
    BY <2>1 DEF CollectedOnce
  <2> QED
    BY <2>1, <2>2
<1>14. LookupsAreWaiting'
  BY <1>2, <1>6, <1>7, <1>8 DEF LookupsAreWaiting, Waiting, Going
<1>15. SlotsFit'
  BY <1>3, <1>6, <1>8 DEF SlotsFit, HasSlot
<1> QED
  BY <1>9, <1>10, <1>11, <1>12, <1>13, <1>14, <1>15

LEMMA RunGarbageCollectorKeeps ==
    ASSUME ReactorInv, RunGarbageCollector
    PROVE  ReactorInv'
<1>1. PICK n : n = IF UseGC THEN GCThreshold ELSE Len(gcList)
  OBVIOUS
<1>2. n \in 0 .. Len(gcList)
  <2>1. Len(gcList) \in Nat /\ GCThreshold \in Nat
    BY ReactorAssumption DEF ReactorInv, Types
  <2> QED
    BY <1>1, <2>1 DEF RunGarbageCollector
<1>3. PICK dead : dead = {gcList[i] : i \in 1 .. n}
  OBVIOUS
<1>4. /\ life' = [o \in Socket |-> IF o \in dead THEN "freed" ELSE life[o]]
      /\ sock' = [o \in Socket |-> IF o \in dead THEN Constructed ELSE sock[o]]
      /\ gcList' = SubSeq(gcList, n + 1, Len(gcList))
  BY <1>1, <1>3 DEF RunGarbageCollector
<1>5. Idle /\ UNCHANGED <<listVars, kernelVars, stack, dns>>
  BY DEF RunGarbageCollector
<1> QED
  BY <1>2, <1>3, <1>4, <1>5, CollectedKeeps

(* maintenance() walks over slots of live sockets.                         *)
LEMMA WalkKeeps ==
    ASSUME ReactorInv, Idle, stack' \in Seq(AllFrames),
           \A f \in Frames' : f.pc = "closeSlot" /\ f.fd \in Slots /\ "o" \notin DOMAIN f
                              /\ list[f.fd].type = "IS_TCP_SOCKET",
           UNCHANGED <<listVars, kernelVars, objectVars, dns>>
    PROVE  ReactorInv'
<1> USE DEF ReactorInv
<1>1. UNCHANGED <<list, genIDCounter, active, owner, sock, life, gcList, dns>>
  BY DEF listVars, kernelVars, objectVars
<1>2. Types'
  BY <1>1 DEF Types
<1>3. MembersFit' /\ SlotsFit' /\ CollectedOnce'
  BY <1>1 DEF MembersFit, SlotsFit, CollectedOnce
<1>4. FramesOnce'
  BY DEF FramesOnce, Frames, Once
<1>5. FramesAreLive'
  BY DEF FramesAreLive
<1>6. WalkIsLive'
  BY <1>1 DEF WalkIsLive, SlotsFit
<1>7. \A o \in Socket : Frame("retire", o) \notin Frames' /\ Frame("connect", o) \notin Frames'
  BY DEF Frame
<1>8. RetiredAreGoing' /\ LookupsAreWaiting'
  BY <1>1, <1>7 DEF RetiredAreGoing, LookupsAreWaiting, InGCList, Going, Waiting, HasSlot
<1> QED
  BY <1>2, <1>3, <1>4, <1>5, <1>6, <1>8

LEMMA MaintenanceKeeps ==
    ASSUME ReactorInv, NEW timedOut \in SUBSET Fds, Maintenance(timedOut)
    PROVE  ReactorInv'
<1>1. Cardinality(timedOut) \in Nat
  <2>1. IsFiniteSet(Fds)
    BY KernelAssumption, FS_Interval DEF Fds
  <2> QED
    BY <2>1, FS_Subset, FS_CardinalityType
<1>2. PICK slots \in InListOrder(timedOut) :
         stack' = [i \in DOMAIN slots |-> [pc |-> "closeSlot", fd |-> slots[i]]]
  BY DEF Maintenance
<1>3. slots \in [1 .. Cardinality(timedOut) -> timedOut]
  BY DEF InListOrder
<1>4. \A fd \in timedOut : fd \in Slots /\ list[fd].type = "IS_TCP_SOCKET"
  BY DEF Maintenance, Stalled, Linked, ReactorInv, Types
<1>5. PICK c \in Nat : c = Cardinality(timedOut)
  BY <1>1
<1>6. \A fd \in timedOut : [pc |-> "closeSlot", fd |-> fd] \in AllFrames
  BY <1>4 DEF AllFrames
<1>7. stack' \in [1 .. c -> AllFrames]
  BY <1>2, <1>3, <1>5, <1>6
<1>8. stack' \in Seq(AllFrames)
  BY <1>7
<1>9. \A f \in Frames' : \E fd \in timedOut : f = [pc |-> "closeSlot", fd |-> fd]
  BY <1>2, <1>3 DEF Frames
<1>10. \A f \in Frames' : f.pc = "closeSlot" /\ f.fd \in Slots /\ "o" \notin DOMAIN f
                          /\ list[f.fd].type = "IS_TCP_SOCKET"
  BY <1>4, <1>9
<1> QED
  BY <1>8, <1>10, WalkKeeps DEF Maintenance

-----------------------------------------------------------------------------
(* The whole.                                                              *)
LEMMA InitReactorInv == Init => ReactorInv
<1> SUFFICES ASSUME Init PROVE ReactorInv
  OBVIOUS
<1>1. PICK none : none = << >>
  OBVIOUS
<1>2. /\ stack = none /\ gcList = none /\ none \in Seq(AllFrames) /\ none \in Seq(Socket)
      /\ DOMAIN none = {} /\ dns = {}
  BY <1>1 DEF Init
<1>3. /\ list \in [Slots -> SockInfo] /\ \A fd \in Slots : list[fd].type # "IS_TCP_SOCKET"
      /\ genIDCounter \in Gens /\ active \in Seq(Slots)
  BY ListAssumption, ReactorAssumption DEF Init, SockInfo, SockTypes, Gens
<1>4. owner \in [Fds -> Socket \cup {Free, Foreign, Listener}]
  BY DEF Init
<1>5. /\ DOMAIN sock = Socket /\ \A o \in Socket : sock[o] = Constructed
      /\ life \in [Socket -> {"fresh", "live", "freed"}]
  BY DEF Init
<1>6. /\ Shaped(Constructed) /\ Constructed.fd = NoFd /\ Constructed.rbuf = FALSE
      /\ Constructed.queue = << >> /\ Constructed.pendingClose = FALSE
  BY DEF Shaped, Constructed
<1>7. Types
  BY <1>2, <1>3, <1>4, <1>5, <1>6 DEF Types
<1>8. MembersFit
  BY <1>5, <1>6 DEF MembersFit
<1>9. Frames = {}
  BY <1>2 DEF Frames
<1>10. FramesOnce /\ FramesAreLive /\ WalkIsLive /\ CollectedOnce
  BY <1>2, <1>9 DEF FramesOnce, FramesAreLive, WalkIsLive, CollectedOnce
<1>11. RetiredAreGoing /\ LookupsAreWaiting
  BY <1>2, <1>9 DEF RetiredAreGoing, LookupsAreWaiting, InGCList
<1>12. SlotsFit
  BY <1>3 DEF SlotsFit
<1> QED
  BY <1>7, <1>8, <1>10, <1>11, <1>12 DEF ReactorInv

LEMMA SocketStepKeeps ==
    ASSUME ReactorInv, NEW o \in Socket, SocketStep(o)
    PROVE  ReactorInv'
<1>1. UNCHANGED dns
  BY DEF SocketStep
<1>2. CASE Close(o)
  BY <1>1, <1>2, CloseKeeps
<1>3. CASE Retire(o)
  BY <1>1, <1>3, RetireKeeps
<1>4. CASE HandleHalfClose(o)
  BY <1>1, <1>4, HandleHalfCloseKeeps
<1>5. CASE OnReadable(o)
  BY <1>1, <1>5, OnReadableKeeps
<1>6. CASE DataHandled(o)
  BY <1>1, <1>6, DataHandledKeeps
<1>7. CASE OnWritable(o)
  BY <1>1, <1>7, OnWritableKeeps
<1>8. CASE Flush(o)
  BY <1>1, <1>8, FlushKeeps
<1>9. CASE Drained(o)
  BY <1>1, <1>9, DrainedKeeps
<1>10. CASE Quiet(o)
  BY <1>1, <1>10, QuietKeeps
<1>11. CASE Connect(o)
  BY <1>1, <1>11, ConnectKeeps
<1> QED
  BY <1>2, <1>3, <1>4, <1>5, <1>6, <1>7, <1>8, <1>9, <1>10, <1>11 DEF SocketStep

LEMMA NextKeeps == ReactorInv /\ [Next]_vars => ReactorInv'
<1> SUFFICES ASSUME ReactorInv, [Next]_vars PROVE ReactorInv'
  OBVIOUS
<1>1. CASE ReactorStep
  BY <1>1, EpollWaitKeeps, DispatchKeeps, AdoptAcceptedKeeps, CloseSlotKeeps, SocketStepKeeps
     DEF ReactorStep
<1>2. CASE Timers
  BY <1>2, MaintenanceKeeps, RunGarbageCollectorKeeps DEF Timers
<1>3. CASE Application
  BY <1>3, AppTimerKeeps, AppReturnsKeeps, AppSendsKeeps, AppClosesKeeps, AppPausesKeeps,
     AppConnectsKeeps DEF Application
<1>4. CASE \E o \in Socket : DnsAnswers(o)
  BY <1>4, DnsAnswersKeeps
<1>5. CASE Environment
  BY <1>5, EnvironmentKeeps
<1>6. CASE UNCHANGED vars
  BY <1>6, StackAlone, AllKeptAsTheyAre, HarmlessStep DEF vars, kernelVars, objectVars
<1> QED
  BY <1>1, <1>2, <1>3, <1>4, <1>5, <1>6 DEF Next

(* The inductive invariant holds from the registration of the listener on, *)
(* whatever the application calls from its callbacks, the network does,    *)
(* and the rest of the process opens and closes.                           *)
THEOREM ReactorInvariant == Spec => []ReactorInv
<1>1. Init => ReactorInv
  BY InitReactorInv
<1>2. ReactorInv /\ [Next]_vars => ReactorInv'
  BY NextKeeps
<1> QED
  BY <1>1, <1>2, PTL DEF Spec

(* The slots of the connection list are sound for any sockets, descriptor  *)
(* numbers and order of events: what run() dispatches to, and what         *)
(* maintenance() walks over, is a live socket that owns its number.        *)
THEOREM SlotsStaySound == Spec => []SlotsSound
<1>1. ReactorInv => SlotsSound
  BY DEF ReactorInv, SlotsFit, SlotsSound, HasSlot, RetiredAreGoing, Going
<1> QED
  BY <1>1, ReactorInvariant, PTL

(* A deleted object is not reached again, however deep callbacks call      *)
(* methods that call back.                                                 *)
THEOREM NothingDangles == Spec => []NoDanglingReference
<1>1. ReactorInv => NoDanglingReference
  <2> SUFFICES ASSUME ReactorInv, NEW o \in Socket, life[o] = "freed"
               PROVE  /\ \A fd \in Fds \cap Slots : ~HasSlot(o, fd)
                      /\ o \notin dns /\ ~OnStack(o) /\ ~InGCList(o)
    BY DEF NoDanglingReference
  <2>1. \A fd \in Fds \cap Slots : ~HasSlot(o, fd)
    BY DEF HasSlot, ReactorInv, SlotsFit
  <2>2. o \notin dns
    BY DEF ReactorInv, LookupsAreWaiting, Waiting
  <2>3. ~OnStack(o)
    BY DEF OnStack, Frames, ReactorInv, FramesAreLive
  <2>4. ~InGCList(o)
    BY DEF ReactorInv, RetiredAreGoing, Going
  <2> QED
    BY <2>1, <2>2, <2>3, <2>4
<1> QED
  BY <1>1, ReactorInvariant, PTL

(* However often a socket is closed, by itself, its peer or callbacks, the *)
(* collector gets it once.                                                 *)
THEOREM RetiredAtMostOnce == Spec => []RetiredOnce
<1>1. ReactorInv => RetiredOnce
  BY DEF ReactorInv, RetiredOnce, CollectedOnce, FramesOnce, Once, Frames, RetiredAreGoing, Going
<1> QED
  BY <1>1, ReactorInvariant, PTL

-----------------------------------------------------------------------------
(* A closed socket reads without a buffer, so it reads no data.            *)
LEMMA ClosedReadsNothing ==
    ASSUME ReactorInv, NEW o \in Socket, sock[o].status = "Closed", OnReadable(o)
    PROVE  Len(stack') <= Len(stack)
<1>1. sock[o].rbuf = FALSE
  BY DEF ReactorInv, MembersFit
<1>2. "data" \notin RecvResults(sock[o].fd, FALSE)
  BY DEF RecvResults
<1>3. Continue(<< >>) \/ Continue(<<Frame("forceClose", o)>>)
  BY <1>1, <1>2 DEF OnReadable
<1>4. /\ stack \in Seq(AllFrames) /\ stack # << >> /\ Frame("forceClose", o) \in AllFrames
  BY DEF OnReadable, Running, ReactorInv, Types, Frame, AllFrames, SocketFrames
<1>5. /\ Tail(stack) \in Seq(AllFrames) /\ Len(Tail(stack)) = Len(stack) - 1 /\ Len(stack) \in Nat
  BY <1>4
<1>6. Len(<< >> \o Tail(stack)) = Len(stack) - 1
  BY <1>5
<1>7. Len(<<Frame("forceClose", o)>> \o Tail(stack)) = Len(stack)
  BY <1>4, <1>5
<1> QED
  BY <1>3, <1>5, <1>6, <1>7 DEF Continue

LEMMA ReadingOnly ==
    ASSUME ReactorInv, NEW o \in Socket, Running("read", o), Next
    PROVE  OnReadable(o) \/ UNCHANGED stack
<1>1. stack # << >> /\ Head(stack) = [pc |-> "read", o |-> o] /\ ~Idle
  BY DEF Running, Idle
<1>2. \A pc, x : Running(pc, x) => pc = "read" /\ x = o
  BY <1>1 DEF Running
<1>3. ASSUME ReactorStep PROVE OnReadable(o)
  <2>1. ~EpollWait /\ ~\E e \in batch : Dispatch(e)
    BY <1>1 DEF EpollWait, Dispatch
  <2>2. ~\E fd \in Fds : AdoptAccepted(fd) \/ CloseSlot(fd)
    <3>1. \A fd : /\ Head(stack) # [pc |-> "accept", fd |-> fd]
                  /\ Head(stack) # [pc |-> "closeSlot", fd |-> fd]
      <4> PICK f : f = Head(stack)
        OBVIOUS
      <4>1. f.pc = "read"
        BY <1>1
      <4> QED
        BY <4>1
    <3> QED
      BY <3>1 DEF AdoptAccepted, CloseSlot
  <2>3. PICK x \in Socket : SocketStep(x)
    BY <1>3, <2>1, <2>2 DEF ReactorStep
  <2>4. ~Close(x) /\ ~Retire(x) /\ ~HandleHalfClose(x) /\ ~DataHandled(x) /\ ~Connect(x)
    <3>1. ~Close(x)
      BY <1>2 DEF Close
    <3>2. ~HandleHalfClose(x)
      <4>1. HandleHalfClose(x) => Running("halfClose", x)
        BY DEF HandleHalfClose
      <4> QED
        BY <1>2, <4>1
    <3> QED
      BY <1>2, <3>1, <3>2 DEF Retire, DataHandled, Connect
  <2>5. ~OnWritable(x) /\ ~Flush(x) /\ ~Drained(x) /\ ~Quiet(x)
    BY <1>2 DEF OnWritable, Flush, Drained, Quiet
  <2>6. OnReadable(x)
    BY <2>3, <2>4, <2>5 DEF SocketStep
  <2>7. x = o
    BY <1>2, <2>6 DEF OnReadable
  <2> QED
    BY <2>6, <2>7
<1>4. ~Timers
  BY <1>1 DEF Timers, Maintenance, RunGarbageCollector
<1>5. ~Application
  <2>1. ~InApplication
    BY <1>1 DEF InApplication, Callbacks
  <2> QED
    BY <1>1, <2>1 DEF Application, AppTimer, AppReturns, AppSends, AppCloses, AppPauses,
       AppResumes, AppConnects, MayCall, InCallback
<1>6. ~\E x \in Socket : DnsAnswers(x)
  BY <1>1 DEF DnsAnswers
<1>7. Environment => UNCHANGED stack
  BY DEF Environment
<1> QED
  BY <1>3, <1>4, <1>5, <1>6, <1>7 DEF Next

(* onData is not called on a socket that a callback closed while it was    *)
(* reading, whoever has its descriptor number by then.                     *)
THEOREM ClosedGetsNoData == Spec => NoDataAfterClose
<1>1. ReactorInv /\ [Next]_vars =>
          [\A o \in Socket : Running("read", o) /\ sock[o].status = "Closed"
                                => Len(stack') <= Len(stack)]_vars
  <2> SUFFICES ASSUME ReactorInv, Next, NEW o \in Socket,
                      Running("read", o), sock[o].status = "Closed"
               PROVE  Len(stack') <= Len(stack)
    OBVIOUS
  <2>1. CASE OnReadable(o)
    BY <2>1, ClosedReadsNothing
  <2>2. CASE UNCHANGED stack
    <3>1. Len(stack) \in Nat
      BY DEF ReactorInv, Types
    <3> QED
      BY <2>2, <3>1
  <2> QED
    BY <2>1, <2>2, ReadingOnly
<1> QED
  BY <1>1, ReactorInvariant, PTL DEF Spec, NoDataAfterClose

-----------------------------------------------------------------------------
(* Generations.  As long as the counter of the connection list has not     *)
(* gone round, no key in the kernel, member of a socket or event carries a *)
(* generation the counter has not had, and an event whose generation a     *)
(* slot has is about the socket of that slot.                              *)
NotRoundYet == genIDCounter + 2 <= MaxGen

Given == 0 .. genIDCounter

StampsKnown ==
    /\ DOMAIN interest = Fds /\ \A fd \in Fds : interest[fd].gen \in Given
    /\ \A o \in Socket : sock[o].gen \in Given
    /\ \A e \in batch : e.fd \in Fds => e.gen \in Given

AboutSubject ==
    \A e \in batch :
        Get(e.fd, e.gen) /\ list[e.fd].type = "IS_TCP_SOCKET" => list[e.fd].socketBasePtr = e.about

(* What a step may do to generations: hand out new ones to slots, copy     *)
(* them from there to a socket, and from a socket to the kernel.           *)
SlotsStamped ==
    /\ genIDCounter' \in Nat /\ genIDCounter <= genIDCounter'
    /\ \A fd \in Slots : \/ list'[fd] = list[fd]
                         \/ list'[fd].type # "IS_TCP_SOCKET"
                         \/ list'[fd].genID > genIDCounter
MembersStamped ==
    \A o \in Socket : sock'[o].gen = sock[o].gen \/ sock'[o].gen \in Given'
KeysStamped ==
    /\ DOMAIN interest' = DOMAIN interest
    /\ \A fd \in DOMAIN interest : \/ interest'[fd] = interest[fd] \/ interest'[fd].gen = 0
                                   \/ \E o \in Socket : interest'[fd].gen = sock'[o].gen
Stamped == SlotsStamped /\ MembersStamped /\ KeysStamped

LEMMA CounterClimbs ==
    ASSUME ReactorInv, NotRoundYet
    PROVE  /\ genIDCounter \in Nat /\ AddedGen(genIDCounter) = genIDCounter + 1
           /\ Incremented(Incremented(genIDCounter)) = genIDCounter + 2
<1>1. genIDCounter \in Nat /\ MaxGen \in Nat /\ genIDCounter + 2 <= MaxGen
  BY ListAssumption DEF ReactorInv, Types, Gens, NotRoundYet
<1>2. Incremented(genIDCounter) = genIDCounter + 1
  BY <1>1 DEF Incremented
<1>3. Incremented(genIDCounter + 1) = genIDCounter + 2 /\ genIDCounter + 1 # 0
  BY <1>1 DEF Incremented
<1> QED
  BY <1>1, <1>2, <1>3 DEF AddedGen

LEMMA ListLeftAlone ==
    ASSUME ReactorInv, UNCHANGED listVars
    PROVE  SlotsStamped
<1>1. genIDCounter \in Nat
  BY ListAssumption DEF ReactorInv, Types, Gens
<1> QED
  BY <1>1 DEF SlotsStamped, listVars

LEMMA RemoveStamps ==
    ASSUME ReactorInv, NotRoundYet, NEW fd, Remove(fd)
    PROVE  SlotsStamped
<1>1. CASE fd \notin Slots
  BY <1>1, ListLeftAlone DEF Remove
<1>2. CASE fd \in Slots
  <2>1. \A g \in Slots : list'[g] = list[g] \/ list'[g].type # "IS_TCP_SOCKET"
    BY <1>2, RemoveLeaves DEF ReactorInv, Types, ListTypeOK
  <2>2. genIDCounter' = genIDCounter + 2 /\ genIDCounter \in Nat
    BY <1>2, CounterClimbs DEF Remove
  <2> QED
    BY <2>1, <2>2 DEF SlotsStamped
<1> QED
  BY <1>1, <1>2

LEMMA AddStamps ==
    ASSUME ReactorInv, NotRoundYet, NEW fd \in Fds, NEW o \in Socket,
           Add(fd, "IS_TCP_SOCKET", o)
    PROVE  SlotsStamped /\ KeyGen(fd) = genIDCounter'
<1>1. genIDCounter' = genIDCounter + 1 /\ genIDCounter \in Nat
      /\ AddedGen(genIDCounter) = genIDCounter + 1
  BY CounterClimbs DEF Add
<1>2. fd \in Int
  BY KernelAssumption DEF Fds
<1>3. fd \in Slots /\ \A g \in Slots : g # fd => list'[g] = list[g]
  BY <1>2, AddLeaves DEF ReactorInv, Types, ListTypeOK
<1>4. list'[fd].genID = genIDCounter + 1
  BY <1>1, <1>3 DEF Add, ReactorInv, Types
<1>5. KeyGen(fd) = genIDCounter'
  BY <1>1 DEF KeyGen, Add
<1> QED
  BY <1>1, <1>3, <1>4, <1>5 DEF SlotsStamped

LEMMA MemberStamps ==
    ASSUME ReactorInv, NEW o \in Socket, NEW r, SetSock(o, r),
           r.gen = sock[o].gen \/ r.gen \in Given'
    PROVE  sock'[o] = r /\ MembersStamped
<1>1. DOMAIN sock' = Socket /\ \A x \in Socket : sock'[x] = IF x = o THEN r ELSE sock[x]
  BY DEF SetSock, ReactorInv, Types
<1> QED
  BY <1>1 DEF MembersStamped

LEMMA CtlStamps ==
    ASSUME NEW o \in Socket, NEW fd, NEW ev, CtlMod(fd, sock'[o].gen, ev)
    PROVE  KeysStamped
<1>1. CASE UNCHANGED interest
  BY <1>1 DEF KeysStamped
<1>2. CASE interest' = [interest EXCEPT ![fd] = [gen |-> sock'[o].gen, events |-> ev]]
  BY <1>2 DEF KeysStamped
<1> QED
  BY <1>1, <1>2 DEF CtlMod

LEMMA CloseFdStamps ==
    ASSUME NEW fd, CloseFd(fd)
    PROVE  KeysStamped
<1>1. CASE UNCHANGED interest
  BY <1>1 DEF KeysStamped
<1>2. CASE interest' = [interest EXCEPT ![fd] = Unwatched]
  BY <1>2 DEF KeysStamped, Unwatched
<1> QED
  BY <1>1, <1>2 DEF CloseFd

LEMMA NothingStamped ==
    ASSUME ReactorInv, UNCHANGED <<listVars, sock, interest>>
    PROVE  Stamped
  BY ListLeftAlone DEF Stamped, MembersStamped, KeysStamped

(* A socket keeps its generation, and tells the kernel no other.           *)
LEMMA MaskStamps ==
    ASSUME ReactorInv, UNCHANGED listVars, NEW o \in Socket, NEW r, r.gen = sock[o].gen,
           \/ SetMask(o, r)
           \/ SetSock(o, r) /\ (UNCHANGED interest \/ \E fd, ev : CtlMod(fd, r.gen, ev))
    PROVE  Stamped
<1>1. SetSock(o, r)
  BY DEF SetMask
<1>2. sock'[o] = r /\ MembersStamped
  BY <1>1, MemberStamps
<1>3. UNCHANGED interest \/ \E fd, ev : CtlMod(fd, r.gen, ev)
  BY DEF SetMask
<1>4. KeysStamped
  <2>1. CASE UNCHANGED interest
    BY <2>1 DEF KeysStamped
  <2>2. ASSUME NEW fd, NEW ev, CtlMod(fd, r.gen, ev) PROVE KeysStamped
    BY <1>2, <2>2, CtlStamps
  <2> QED
    BY <1>3, <2>1, <2>2
<1> QED
  BY <1>2, <1>4, ListLeftAlone DEF Stamped

(* The methods of a socket leave its generation as it is.                  *)
LEMMA MembersShaped ==
    ASSUME ReactorInv, NEW o \in Socket
    PROVE  Shaped(sock[o])
  BY DEF ReactorInv, Types

LEMMA WaitingStamps ==
    ASSUME ReactorInv, NEW o \in Socket, UNCHANGED listVars,
           UNCHANGED <<sock, interest>> \/ AwaitDrain(o)
    PROVE  Stamped
<1>1. CASE UNCHANGED <<sock, interest>>
  BY <1>1, NothingStamped
<1>2. CASE AwaitDrain(o)
  <2>1. PICK r : /\ r = [WithStatus(sock[o], "Closing") EXCEPT !.pendingClose = TRUE,
                                                        !.events = @ \cup {"OUT"}]
                 /\ SetMask(o, r)
    BY <1>2 DEF AwaitDrain
  <2>2. r.gen = sock[o].gen
    BY <2>1, MembersShaped DEF Shaped, WithStatus
  <2> QED
    BY <2>1, <2>2, MaskStamps
<1> QED
  BY <1>1, <1>2

LEMMA HandlersStamp ==
    ASSUME ReactorInv, NEW o \in Socket, HandleHalfClose(o) \/ OnReadable(o) \/ DataHandled(o)
    PROVE  Stamped
<1>1. CASE HandleHalfClose(o)
  <2>1. UNCHANGED listVars /\ (UNCHANGED <<sock, interest>> \/ AwaitDrain(o))
    BY <1>1 DEF HandleHalfClose
  <2> QED
    BY <2>1, WaitingStamps
<1>2. CASE OnReadable(o)
  <2>1. UNCHANGED listVars /\ (UNCHANGED <<sock, interest>> \/ AwaitDrain(o))
    BY <1>2 DEF OnReadable
  <2> QED
    BY <2>1, WaitingStamps
<1>3. CASE DataHandled(o)
  BY <1>3, NothingStamped DEF DataHandled, kernelVars, objectVars
<1> QED
  BY <1>1, <1>2, <1>3

LEMMA WritingStamps ==
    ASSUME ReactorInv, NEW o \in Socket, OnWritable(o) \/ Flush(o) \/ Quiet(o)
    PROVE  Stamped
<1> PICK x : x = sock[o]
  OBVIOUS
<1>1. Shaped(x)
  BY MembersShaped
<1>2. CASE OnWritable(o)
  <2>1. CASE UNCHANGED <<sock, interest>>
    BY <1>2, <2>1, NothingStamped DEF OnWritable
  <2>2. ASSUME SetMask(o, [WithStatus(sock[o], "Connected") EXCEPT !.events = @ \ {"OUT"}])
        PROVE  Stamped
    <3>1. PICK r : /\ r = [WithStatus(x, "Connected") EXCEPT !.events = @ \ {"OUT"}]
                   /\ SetMask(o, r)
      BY <2>2
    <3>2. r.gen = x.gen
      BY <1>1, <3>1 DEF Shaped, WithStatus
    <3> QED
      BY <1>2, <3>1, <3>2, MaskStamps DEF OnWritable
  <2> QED
    BY <1>2, <2>1, <2>2 DEF OnWritable
<1>3. CASE Flush(o)
  <2>1. CASE UNCHANGED sock
    BY <1>3, <2>1, NothingStamped DEF Flush
  <2>2. ASSUME NEW n, SetSock(o, Consumed(sock[o], n)) PROVE Stamped
    <3>1. PICK r : r = Consumed(x, n) /\ SetSock(o, r)
      BY <2>2
    <3>2. r.gen = x.gen
      BY <1>1, <3>1 DEF Shaped, Consumed
    <3> QED
      BY <1>3, <3>1, <3>2, MaskStamps DEF Flush
  <2> QED
    BY <1>3, <2>1, <2>2 DEF Flush
<1>4. CASE Quiet(o)
  <2>1. CASE UNCHANGED <<sock, interest>>
    BY <1>4, <2>1, NothingStamped DEF Quiet
  <2>2. ASSUME NEW r, r = [sock[o] EXCEPT !.events = @ \ {"OUT"}],
               SetMask(o, IF r.readPaused THEN Resumed(r) ELSE r)
        PROVE  Stamped
    <3>1. PICK s : s = (IF r.readPaused THEN Resumed(r) ELSE r) /\ SetMask(o, s)
      BY <2>2
    <3>2. s.gen = x.gen
      BY <1>1, <2>2, <3>1 DEF Shaped, Resumed
    <3> QED
      BY <1>4, <3>1, <3>2, MaskStamps DEF Quiet
  <2> QED
    BY <1>4, <2>1, <2>2 DEF Quiet
<1> QED
  BY <1>2, <1>3, <1>4

LEMMA ClosingStamps ==
    ASSUME ReactorInv, NotRoundYet, NEW o \in Socket, Close(o) \/ Drained(o)
    PROVE  Stamped
<1> PICK x : x = sock[o]
  OBVIOUS
<1>1. Shaped(x)
  BY MembersShaped
<1>2. ASSUME NEW r, r.gen = x.gen, SetSock(o, r), NEW fd, Remove(fd), CloseFd(fd)
      PROVE  Stamped
  BY <1>2, RemoveStamps, CloseFdStamps, MemberStamps DEF Stamped
<1>3. ASSUME NEW force, CloseNow(o, force) PROVE Stamped
  <2>1. PICK q, len, r : r = ClosedWith(x, q, len) /\ SetSock(o, r)
    BY <1>3 DEF CloseNow, ClosedWith
  <2>2. r.gen = x.gen
    BY <1>1, <2>1 DEF Shaped, ClosedWith
  <2> QED
    BY <1>2, <1>3, <2>1, <2>2 DEF CloseNow
<1>4. ASSUME CloseGracefully(o) PROVE Stamped
  <2>1. PICK r : /\ r = [WithStatus(x, "Closing") EXCEPT !.pendingClose = TRUE,
                                                  !.events = @ \cup {"OUT"}]
                 /\ SetSock(o, r) /\ CtlMod(x.fd, r.gen, r.events)
    BY <1>4 DEF CloseGracefully
  <2>2. r.gen = x.gen
    BY <1>1, <2>1 DEF Shaped, WithStatus
  <2>3. UNCHANGED listVars
    BY <1>4 DEF CloseGracefully
  <2> QED
    BY <2>1, <2>2, <2>3, MaskStamps
<1>5. CASE Close(o)
  <2>1. CASE UNCHANGED <<listVars, kernelVars, objectVars>>
    BY <2>1, NothingStamped DEF kernelVars, objectVars
  <2> QED
    BY <1>3, <1>4, <1>5, <2>1 DEF Close
<1>6. CASE Drained(o)
  <2>1. CASE FinishPendingClose(o)
    <3>1. PICK r : r = [WithStatus(x, "Closed") EXCEPT !.rbuf = FALSE] /\ SetSock(o, r)
      BY <2>1 DEF FinishPendingClose
    <3>2. r.gen = x.gen
      BY <1>1, <3>1 DEF Shaped, WithStatus
    <3> QED
      BY <1>2, <2>1, <3>1, <3>2 DEF FinishPendingClose
  <2>2. CASE UNCHANGED <<listVars, sock, interest>>
    BY <2>2, NothingStamped
  <2>3. CASE UNCHANGED listVars /\ SetMask(o, Resumed(sock[o]))
    <3>1. PICK r : r = Resumed(x) /\ SetMask(o, r)
      BY <2>3
    <3>2. r.gen = x.gen
      BY <1>1, <3>1 DEF Shaped, Resumed
    <3> QED
      BY <2>3, <3>1, <3>2, MaskStamps
  <2> QED
    BY <1>6, <2>1, <2>2, <2>3 DEF Drained
<1> QED
  BY <1>5, <1>6

(* register_fd stamps the slot, the socket and the key alike.              *)
LEMMA RegisterStamps ==
    ASSUME ReactorInv, NotRoundYet, NEW fd \in Fds, NEW o \in Socket, NEW ok, NEW ev,
           Registered(fd, o, ok, ev), NEW r, SetSock(o, r), r.gen = KeyGen(fd)
    PROVE  Stamped
<1>1. genIDCounter \in Nat
  BY CounterClimbs
<1>2. CASE Addable(fd)
  <2>1. Add(fd, "IS_TCP_SOCKET", o)
    BY <1>2 DEF Registered
  <2>2. SlotsStamped /\ KeyGen(fd) = genIDCounter'
    BY <2>1, AddStamps
  <2>3. r.gen \in Given'
    BY <2>2 DEF Given, SlotsStamped
  <2>4. sock'[o] = r /\ MembersStamped
    BY <2>3, MemberStamps
  <2>5. \/ UNCHANGED interest
        \/ interest' = [interest EXCEPT ![fd] = [gen |-> sock'[o].gen, events |-> ev]]
    BY <1>2, <2>4 DEF Registered, KeyGen
  <2>6. KeysStamped
    BY <2>5 DEF KeysStamped
  <2> QED
    BY <2>2, <2>4, <2>6 DEF Stamped
<1>3. CASE ~Addable(fd)
  <2>1. UNCHANGED listVars /\ UNCHANGED interest
    BY <1>3 DEF Registered, Add
  <2>2. r.gen \in Given'
    BY <1>1, <1>3, <2>1 DEF KeyGen, Given, listVars
  <2>3. MembersStamped
    BY <2>2, MemberStamps
  <2> QED
    BY <2>1, <2>3, ListLeftAlone DEF Stamped, KeysStamped
<1> QED
  BY <1>2, <1>3

LEMMA ConnectStamps ==
    ASSUME ReactorInv, NotRoundYet, NEW o \in Socket, Connect(o)
    PROVE  Stamped
<1> PICK x : x = sock[o]
  OBVIOUS
<1>1. Shaped(x)
  BY MembersShaped
<1>2. CASE ConnectGivesUp(o)
  <2>1. PICK r : r = WithStatus(x, "Closed") /\ SetSock(o, r)
    BY <1>2 DEF ConnectGivesUp
  <2>2. r.gen = x.gen
    BY <1>1, <2>1 DEF Shaped, WithStatus
  <2> QED
    BY <1>2, <2>1, <2>2, MaskStamps DEF ConnectGivesUp
<1>3. ASSUME FreeFds # {}, NEW fd, fd = LowestFree, ConnectStarts(o, fd)
      PROVE  Stamped
  <2>1. PICK r : /\ r = [x EXCEPT !.fd = fd, !.rbuf = TRUE, !.gen = KeyGen(fd), !.events = Flags]
                 /\ SetSock(o, r) /\ Registered(fd, o, TRUE, Flags)
    BY <1>3 DEF ConnectStarts
  <2>2. r.gen = KeyGen(fd)
    BY <1>1, <2>1 DEF Shaped
  <2> QED
    BY <1>3, <2>1, <2>2, LowestFreeIsFree, RegisterStamps
<1>4. ASSUME NEW fd, ConnectsAtOnce(o, fd) PROVE Stamped
  <2>1. PICK r : /\ r = [WithStatus(x, "Connected") EXCEPT !.fd = fd, !.rbuf = TRUE]
                 /\ SetSock(o, r)
    BY <1>4 DEF ConnectsAtOnce
  <2>2. r.gen = x.gen
    BY <1>1, <2>1 DEF Shaped, WithStatus
  <2> QED
    BY <1>4, <2>1, <2>2, MaskStamps DEF ConnectsAtOnce
<1>5. ASSUME FreeFds # {}, NEW fd, fd = LowestFree, ConnectFails(o, fd)
      PROVE  Stamped
  <2>1. CASE /\ Registered(fd, o, FALSE, Flags)
             /\ SetSock(o, [WithStatus(sock[o], "Closing") EXCEPT
                              !.fd = fd, !.rbuf = TRUE, !.gen = KeyGen(fd), !.events = Flags])
    <3>1. PICK r : /\ r = [WithStatus(x, "Closing") EXCEPT
                             !.fd = fd, !.rbuf = TRUE, !.gen = KeyGen(fd), !.events = Flags]
                   /\ SetSock(o, r)
      BY <2>1
    <3>2. r.gen = KeyGen(fd)
      BY <1>1, <3>1 DEF Shaped, WithStatus
    <3> QED
      BY <1>5, <2>1, <3>1, <3>2, LowestFreeIsFree, RegisterStamps
  <2>2. CASE /\ SetSock(o, [WithStatus(sock[o], "Closing") EXCEPT !.fd = fd])
             /\ UNCHANGED <<listVars, interest, armed>>
    <3>1. PICK r : r = [WithStatus(x, "Closing") EXCEPT !.fd = fd] /\ SetSock(o, r)
      BY <2>2
    <3>2. r.gen = x.gen
      BY <1>1, <3>1 DEF Shaped, WithStatus
    <3> QED
      BY <2>2, <3>1, <3>2, MaskStamps
  <2> QED
    BY <1>5, <2>1, <2>2 DEF ConnectFails
<1> QED
  BY <1>2, <1>3, <1>4, <1>5 DEF Connect

LEMMA SocketStepStamps ==
    ASSUME ReactorInv, NotRoundYet, NEW o \in Socket, SocketStep(o)
    PROVE  Stamped
<1>1. CASE Retire(o)
  BY <1>1, NothingStamped DEF Retire, kernelVars
<1> QED
  BY <1>1, ClosingStamps, HandlersStamp, WritingStamps, ConnectStamps DEF SocketStep

LEMMA AdoptAcceptedStamps ==
    ASSUME ReactorInv, NotRoundYet, NEW fd \in Fds, AdoptAccepted(fd)
    PROVE  Stamped
<1>1. CASE UNCHANGED <<listVars, sock, interest>>
  BY <1>1, NothingStamped
<1>2. ASSUME NEW o \in Socket, FreeFds # {}, NEW g, g = LowestFree, Accepted(o, g)
      PROVE  Stamped
  <2>1. PICK r, ok : SetSock(o, r) /\ Registered(g, o, ok, {"IN"}) /\ r.gen = KeyGen(g)
    <3>1. CASE /\ Registered(g, o, TRUE, {"IN"})
               /\ \E adopted \in Allocated :
                     SetSock(o, [Constructed EXCEPT
                                   !.status = IF adopted THEN "Connected" ELSE @,
                                   !.fd = g, !.rbuf = adopted,
                                   !.gen = KeyGen(g), !.events = {"IN"}])
      <4>1. PICK adopted, r : /\ r = [Constructed EXCEPT
                                       !.status = IF adopted THEN "Connected" ELSE @,
                                       !.fd = g, !.rbuf = adopted,
                                       !.gen = KeyGen(g), !.events = {"IN"}]
                              /\ SetSock(o, r)
        BY <3>1
      <4>2. r.gen = KeyGen(g)
        BY <4>1 DEF Constructed
      <4> QED
        BY <3>1, <4>1, <4>2
    <3>2. CASE /\ Registered(g, o, FALSE, {"IN"})
               /\ SetSock(o, [Constructed EXCEPT !.gen = KeyGen(g),
                                !.events = IF Addable(g) THEN {"IN"} ELSE {}])
      <4>1. PICK r : /\ r = [Constructed EXCEPT !.gen = KeyGen(g),
                               !.events = IF Addable(g) THEN {"IN"} ELSE {}]
                     /\ SetSock(o, r)
        BY <3>2
      <4>2. r.gen = KeyGen(g)
        BY <4>1 DEF Constructed
      <4> QED
        BY <3>2, <4>1, <4>2
    <3> QED
      BY <1>2, <3>1, <3>2 DEF Accepted
  <2> QED
    BY <1>2, <2>1, LowestFreeIsFree, RegisterStamps
<1> QED
  BY <1>1, <1>2 DEF AdoptAccepted, kernelVars, objectVars

(* The application's methods.                                              *)
LEMMA SendStamps ==
    ASSUME ReactorInv, NEW o \in Socket, NEW n, Send(o, n)
    PROVE  Stamped
<1> PICK x : x = sock[o]
  OBVIOUS
<1>1. Shaped(x)
  BY MembersShaped
<1>2. CASE UNCHANGED <<sock, interest>>
  BY <1>2, NothingStamped DEF Send
<1>3. ASSUME NEW k, NEW stored, NEW q,
             q = [(IF stored THEN Pushed(x, k) ELSE x) EXCEPT !.events = @ \cup {"OUT"}],
             SetMask(o, q) \/ SetMask(o, Paused(q)), UNCHANGED listVars
      PROVE  Stamped
  <2>1. q.gen = x.gen /\ Shaped(q)
    <3>1. PICK p : p = IF stored THEN Pushed(x, k) ELSE x
      OBVIOUS
    <3>2. Shaped(p) /\ p.gen = x.gen
      BY <1>1, <3>1 DEF Shaped, Pushed
    <3>3. q = [p EXCEPT !.events = @ \cup {"OUT"}]
      BY <1>3, <3>1
    <3> QED
      BY <3>2, <3>3 DEF Shaped
  <2>2. PICK r : (r = q \/ r = Paused(q)) /\ SetMask(o, r)
    BY <1>3
  <2>3. r.gen = x.gen
    BY <2>1, <2>2 DEF Shaped, Paused
  <2> QED
    BY <1>3, <2>2, <2>3, MaskStamps
<1> QED
  BY <1>2, <1>3 DEF Send

LEMMA ApplicationStamps ==
    ASSUME ReactorInv, NotRoundYet, Application
    PROVE  Stamped
<1>1. ASSUME NEW o \in Socket, AppPauses(o) \/ AppResumes(o) PROVE Stamped
  <2> PICK x : x = sock[o]
    OBVIOUS
  <2>1. PICK r : (r = Paused(x) \/ r = Resumed(x)) /\ SetMask(o, r)
    BY <1>1 DEF AppPauses, AppResumes, PauseReading, ResumeReading
  <2>2. r.gen = x.gen
    BY <2>1, MembersShaped DEF Shaped, Paused, Resumed
  <2>3. UNCHANGED listVars
    BY <1>1 DEF AppPauses, AppResumes, PauseReading, ResumeReading
  <2> QED
    BY <2>1, <2>2, <2>3, MaskStamps
<1>2. ASSUME NEW o \in Socket, AppConnects(o) PROVE Stamped
  <2>1. PICK r : r = [Constructed EXCEPT !.status = "Connecting"] /\ SetSock(o, r)
    BY <1>2 DEF AppConnects
  <2>2. UNCHANGED listVars /\ UNCHANGED interest
    BY <1>2 DEF AppConnects, kernelVars
  <2>3. r.gen \in Given'
    BY <2>1, <2>2, CounterClimbs DEF Constructed, Given, listVars
  <2>4. MembersStamped
    BY <2>1, <2>3, MemberStamps
  <2> QED
    BY <2>2, <2>4, ListLeftAlone DEF Stamped, KeysStamped
<1>3. ASSUME NEW o \in Socket, NEW force, AppCloses(o, force) PROVE Stamped
  BY <1>3, NothingStamped DEF AppCloses, CallClose, kernelVars, objectVars
<1>4. CASE AppTimer \/ AppReturns
  BY <1>4, NothingStamped DEF AppTimer, AppReturns, kernelVars, objectVars
<1> QED
  BY <1>1, <1>2, <1>3, <1>4, SendStamps DEF Application, AppSends

LEMMA TimersStamp ==
    ASSUME ReactorInv, NotRoundYet, Timers
    PROVE  Stamped
<1>1. ASSUME NEW timedOut, Maintenance(timedOut) PROVE Stamped
  BY <1>1, NothingStamped DEF Maintenance, kernelVars, objectVars
<1>2. CASE RunGarbageCollector
  <2>1. UNCHANGED listVars /\ UNCHANGED interest
    BY <1>2 DEF RunGarbageCollector, kernelVars
  <2>2. \A o \in Socket : sock'[o] = sock[o] \/ sock'[o] = Constructed
    BY <1>2 DEF RunGarbageCollector
  <2>3. Constructed.gen \in Given'
    BY <2>1, CounterClimbs DEF Constructed, Given, listVars
  <2>4. MembersStamped
    BY <2>2, <2>3 DEF MembersStamped
  <2> QED
    BY <2>1, <2>4, ListLeftAlone DEF Stamped, KeysStamped
<1> QED
  BY <1>1, <1>2 DEF Timers

LEMMA NextStamps ==
    ASSUME ReactorInv, NotRoundYet, Next
    PROVE  Stamped
<1>1. CASE ReactorStep
  <2>1. CASE EpollWait
    BY <2>1, NothingStamped DEF EpollWait, objectVars
  <2>2. ASSUME NEW e, Dispatch(e) PROVE Stamped
    BY <2>2, NothingStamped DEF Dispatch, objectVars
  <2>3. ASSUME NEW fd, CloseSlot(fd) PROVE Stamped
    BY <2>3, NothingStamped DEF CloseSlot, kernelVars, objectVars
  <2> QED
    BY <1>1, <2>1, <2>2, <2>3, AdoptAcceptedStamps, SocketStepStamps DEF ReactorStep
<1>2. CASE \E o \in Socket : DnsAnswers(o)
  BY <1>2, NothingStamped DEF DnsAnswers, kernelVars, objectVars
<1>3. CASE Environment
  <2>1. UNCHANGED interest
    BY <1>3 DEF Environment, ConnectCompletes, PeerResets, DataArrives, PeerFinishes, PeerAcks,
       NetStep, ClientConnects, ForeignOpens, ForeignCloses
  <2> QED
    BY <1>3, <2>1, NothingStamped DEF Environment, objectVars
<1> QED
  BY <1>1, <1>2, <1>3, TimersStamp, ApplicationStamps DEF Next

(* The events that wait stay about the sockets they were about.            *)
LEMMA EventsKeep ==
    ASSUME ReactorInv, ReactorInv', StampsKnown, AboutSubject, Stamped, batch' \subseteq batch
    PROVE  StampsKnown' /\ AboutSubject'
<1>1. genIDCounter \in Nat /\ Given \subseteq Given'
  <2>1. genIDCounter \in Nat
    BY ListAssumption DEF ReactorInv, Types, Gens
  <2> QED
    BY <2>1 DEF Stamped, SlotsStamped, Given
<1>2. \A o \in Socket : sock'[o].gen \in Given'
  BY <1>1 DEF Stamped, MembersStamped, StampsKnown
<1>3. DOMAIN interest' = Fds /\ \A fd \in Fds : interest'[fd].gen \in Given'
  <2>1. 0 \in Given'
    BY <1>1 DEF Stamped, SlotsStamped, Given
  <2> QED
    BY <1>1, <1>2, <2>1 DEF Stamped, KeysStamped, StampsKnown
<1>4. StampsKnown'
  <2>1. \A e \in batch' : e.fd \in Fds => e.gen \in Given'
    BY <1>1 DEF StampsKnown
  <2> QED
    BY <1>2, <1>3, <2>1 DEF StampsKnown, Fds
<1>5. ASSUME NEW e \in batch', Get(e.fd, e.gen)', list'[e.fd].type = "IS_TCP_SOCKET"
      PROVE  list'[e.fd].socketBasePtr = e.about
  <2>1. e \in batch /\ e.fd \in Slots /\ list'[e.fd].genID = e.gen
    BY <1>5 DEF Get, Slots
  <2>2. e.fd \in Fds
    BY <1>5, <2>1 DEF ReactorInv, SlotsFit, Slots, Fds
  <2>3. e.gen \in Given
    BY <2>1, <2>2 DEF StampsKnown
  <2>4. ~(list'[e.fd].genID > genIDCounter)
    BY <1>1, <2>1, <2>3 DEF Given
  <2>5. list'[e.fd] = list[e.fd]
    BY <1>5, <2>1, <2>4 DEF Stamped, SlotsStamped
  <2> QED
    BY <1>5, <2>1, <2>5 DEF AboutSubject, Get
<1>6. AboutSubject'
  BY <1>5 DEF AboutSubject
<1> QED
  BY <1>4, <1>6

(* Those epoll_wait reports are about the sockets of their slots.          *)
LEMMA EpollWaitKnows ==
    ASSUME ReactorInv, StampsKnown, EpollWait
    PROVE  StampsKnown' /\ AboutSubject'
<1>1. UNCHANGED <<list, genIDCounter, active, owner, interest, sock>>
  BY DEF EpollWait, listVars, objectVars
<1>2. \A e \in batch' : e.gen = interest[e.fd].gen /\ e.about = owner[e.fd]
  BY DEF EpollWait
<1>3. StampsKnown'
  BY <1>1, <1>2 DEF StampsKnown, Given
<1>4. ASSUME NEW e \in batch', Get(e.fd, e.gen), list[e.fd].type = "IS_TCP_SOCKET"
      PROVE  list[e.fd].socketBasePtr = e.about
  BY <1>2, <1>4 DEF Get, ReactorInv, SlotsFit
<1> QED
  BY <1>1, <1>3, <1>4 DEF AboutSubject, Get

(* Apart from epoll_wait and the dispatch of an event, nothing touches the *)
(* events that wait.                                                       *)
LEMMA BatchLeftAlone ==
    ASSUME Next
    PROVE  EpollWait \/ (\E e \in batch : Dispatch(e)) \/ UNCHANGED batch
<1>1. CASE ReactorStep
  BY <1>1 DEF ReactorStep, AdoptAccepted, CloseSlot, SocketStep
<1>2. CASE Timers
  BY <1>2 DEF Timers, Maintenance, RunGarbageCollector
<1>3. CASE Application
  BY <1>3 DEF Application, AppTimer, AppReturns, AppSends, AppCloses, AppPauses, AppResumes,
     AppConnects
<1>4. CASE \E o \in Socket : DnsAnswers(o)
  BY <1>4 DEF DnsAnswers
<1>5. CASE Environment
  BY <1>5 DEF Environment
<1> QED
  BY <1>1, <1>2, <1>3, <1>4, <1>5 DEF Next

Tracked == ReactorInv /\ StampsKnown /\ AboutSubject

LEMMA TrackedAtFirst == Init => StampsKnown /\ AboutSubject
<1> SUFFICES ASSUME Init PROVE StampsKnown /\ AboutSubject
  OBVIOUS
<1>1. 0 \in Given /\ 1 \in Given
  BY DEF Init, Given
<1>2. DOMAIN interest = Fds /\ \A fd \in Fds : interest[fd].gen \in {0, 1}
  BY DEF Init, Unwatched
<1>3. \A o \in Socket : sock[o].gen = 0
  BY DEF Init, Constructed
<1>4. batch = {}
  BY DEF Init
<1> QED
  BY <1>1, <1>2, <1>3, <1>4 DEF StampsKnown, AboutSubject

LEMMA TrackedOn ==
    ASSUME Tracked, ReactorInv', NotRoundYet, [Next]_vars
    PROVE  Tracked'
<1>1. CASE UNCHANGED vars
  BY <1>1, NothingStamped, EventsKeep DEF Tracked, vars, kernelVars, objectVars
<1>2. CASE Next
  <2>1. CASE EpollWait
    BY <2>1, EpollWaitKnows DEF Tracked
  <2>2. CASE batch' \subseteq batch
    BY <1>2, <2>2, NextStamps, EventsKeep DEF Tracked
  <2> QED
    BY <1>2, <2>1, <2>2, BatchLeftAlone DEF Dispatch
<1> QED
  BY <1>1, <1>2

LEMMA EventFramesOfOne ==
    ASSUME NEW o, NEW flags
    PROVE  \A i \in DOMAIN TCPEventFrames(o, flags) : TCPEventFrames(o, flags)[i].o = o
<1> DEFINE OfOne == {Frame(pc, o) : pc \in {"forceClose", "close", "halfClose", "read", "writable"}}
           A == IF "RDHUP" \in flags THEN <<Frame("halfClose", o)>> ELSE << >>
           B == IF "IN" \in flags THEN <<Frame("read", o)>> ELSE << >>
           C == IF "OUT" \in flags THEN <<Frame("writable", o)>> ELSE << >>
<1>1. \A pc \in {"forceClose", "close", "halfClose", "read", "writable"} :
          <<Frame(pc, o)>> \in Seq(OfOne)
  OBVIOUS
<1>2. A \in Seq(OfOne) /\ B \in Seq(OfOne) /\ C \in Seq(OfOne)
  <2>1. << >> \in Seq(OfOne)
    OBVIOUS
  <2>2. A \in Seq(OfOne)
    BY <1>1, <2>1
  <2>3. B \in Seq(OfOne)
    BY <1>1, <2>1
  <2>4. C \in Seq(OfOne)
    BY <1>1, <2>1
  <2> QED
    BY <2>2, <2>3, <2>4
<1>3. \/ TCPEventFrames(o, flags) \in {<<Frame("forceClose", o)>>, <<Frame("close", o)>>,
                                       <<Frame("halfClose", o)>>}
      \/ TCPEventFrames(o, flags) = (A \o B) \o C
      \/ TCPEventFrames(o, flags) = A \o (B \o C)
  BY DEF TCPEventFrames
<1>4. \A f \in OfOne : f.o = o
  BY DEF Frame
<1> HIDE DEF OfOne, A, B, C
<1>5. (A \o B) \o C \in Seq(OfOne) /\ A \o (B \o C) \in Seq(OfOne)
  BY <1>2
<1>6. TCPEventFrames(o, flags) \in Seq(OfOne)
  BY <1>1, <1>3, <1>5
<1> QED
  BY <1>4, <1>6

LEMMA DispatchedToSubject ==
    ASSUME AboutSubject, NEW e \in batch, Dispatch(e)
    PROVE  \A i \in DOMAIN stack' : "o" \in DOMAIN stack'[i] => stack'[i].o = e.about
<1>1. stack = << >>
  BY DEF Dispatch, Idle
<1>2. CASE UNCHANGED stack
  BY <1>1, <1>2
<1>3. CASE Call(<<[pc |-> "accept", fd |-> e.fd]>>)
  <2>1. stack' = <<[pc |-> "accept", fd |-> e.fd]>>
    BY <1>1, <1>3 DEF Call
  <2> QED
    BY <2>1
<1>4. CASE /\ Get(e.fd, e.gen) /\ list[e.fd].type = "IS_TCP_SOCKET"
           /\ Call(TCPEventFrames(list[e.fd].socketBasePtr, e.flags))
  <2>1. PICK F : F = TCPEventFrames(e.about, e.flags) /\ stack' = F \o << >>
    BY <1>1, <1>4 DEF AboutSubject, Call
  <2>2. \A i \in DOMAIN F : F[i].o = e.about
    BY <2>1, EventFramesOfOne
  <2>3. stack' = F
    BY <2>1
  <2> QED
    BY <2>2, <2>3
<1> QED
  BY <1>2, <1>3, <1>4 DEF Dispatch

(* The handlers an event starts are those of the socket the kernel meant,  *)
(* whatever was closed and reopened under its number while it waited, as   *)
(* long as the 32-bit counter has not gone round.                          *)
THEOREM EventsReachTheirSubject == Spec /\ []NotRoundYet => DeliveredToSubject
<1>1. Tracked /\ [Next]_vars =>
          [\A e \in batch \ batch' : \A i \in DOMAIN stack' :
              "o" \in DOMAIN stack'[i] => stack'[i].o = e.about]_vars
  <2> SUFFICES ASSUME Tracked, Next, NEW e \in batch \ batch'
               PROVE  \A i \in DOMAIN stack' : "o" \in DOMAIN stack'[i] => stack'[i].o = e.about
    OBVIOUS
  <2>1. ~EpollWait
    BY DEF EpollWait
  <2>2. PICK d \in batch : Dispatch(d)
    BY <2>1, BatchLeftAlone
  <2>3. d = e
    BY <2>2 DEF Dispatch
  <2> QED
    BY <2>2, <2>3, DispatchedToSubject DEF Tracked
<1>2. Init => Tracked
  BY TrackedAtFirst, InitReactorInv DEF Tracked
<1>3. Tracked /\ NotRoundYet /\ [Next]_vars => Tracked'
  BY TrackedOn, NextKeeps DEF Tracked
<1> QED
  BY <1>1, <1>2, <1>3, PTL DEF Spec, DeliveredToSubject
=============================================================================
