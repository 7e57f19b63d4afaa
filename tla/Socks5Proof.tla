---------------------------- MODULE Socks5Proof -----------------------------
(***************************************************************************)
(* Theorems about Socks5, for any size of the send buffers and any         *)
(* watermarks.  First the sockets: what a method does to one.  Then the    *)
(* two programs, whose invariants say how far the handshake is and what    *)
(* each connection knows of the other.                                     *)
(***************************************************************************)
EXTENDS Socks5, WellFoundedInduction, SequenceTheorems, TLAPS

-----------------------------------------------------------------------------
(* Induction.  The library states it for a predicate that is a parameter;  *)
(* here a set takes its place, the set of the values the claim holds for.  *)
NatLess == OpToRel(<, Nat)

(* From a to b, one by one.                                                *)
LEMMA Climb ==
    ASSUME NEW a \in Nat, NEW b \in Nat, NEW G, a \in G,
           \A k \in a .. b - 1 : k \in G => k + 1 \in G
    PROVE  a .. b \subseteq G
<1> DEFINE Missing == (a .. b) \ G
<1> SUFFICES ASSUME Missing # {} PROVE FALSE
  OBVIOUS
<1>1. Missing \subseteq Nat
  OBVIOUS
<1>2. PICK m \in Missing : \A k \in Missing : ~(<<k, m>> \in NatLess)
  BY <1>1, NatLessThanWellFounded, WFMin DEF NatLess
<1> HIDE DEF Missing
<1>3. \A k \in Missing : ~(k < m)
  BY <1>1, <1>2 DEF NatLess, OpToRel
<1>4. m \in a .. b /\ m \notin G /\ m # a
  BY <1>2 DEF Missing
<1>5. m - 1 \in a .. b - 1 /\ m - 1 < m
  BY <1>4
<1>6. m - 1 \in G
  BY <1>3, <1>5 DEF Missing
<1> QED
  BY <1>4, <1>5, <1>6

(* Over the length of a sequence, one more element at a time.              *)
LEMMA ClimbSeq ==
    ASSUME NEW S, NEW G, << >> \in G,
           \A s \in Seq(S), e \in S : s \in G => Append(s, e) \in G
    PROVE  Seq(S) \subseteq G
<1> SUFFICES ASSUME NEW s \in Seq(S) PROVE s \in G
  OBVIOUS
<1> DEFINE Upto(n) == [i \in 1 .. n |-> s[i]]
           H == {n \in 0 .. Len(s) : Upto(n) \in G}
<1>1. Len(s) \in Nat /\ s \in [1 .. Len(s) -> S]
  OBVIOUS
<1>2. 0 \in H
  <2>1. Upto(0) = << >>
    OBVIOUS
  <2> QED
    BY <1>1, <2>1
<1>3. ASSUME NEW k \in 0 .. Len(s) - 1, k \in H PROVE k + 1 \in H
  <2>1. k \in Nat /\ k + 1 \in 1 .. Len(s) /\ \A i \in 1 .. k + 1 : i \in 1 .. Len(s)
    BY <1>1
  <2>2. Upto(k) \in Seq(S) /\ s[k + 1] \in S /\ Len(Upto(k)) = k
    BY <1>1, <2>1
  <2>3. Upto(k + 1) = Append(Upto(k), s[k + 1])
    BY <1>1, <2>1
  <2>4. Upto(k) \in G
    BY <1>3
  <2> HIDE DEF Upto
  <2>5. Append(Upto(k), s[k + 1]) \in G
    BY <2>2, <2>4
  <2>6. Upto(k + 1) \in G
    BY <2>3, <2>5, Zenon
  <2>7. k + 1 \in 0 .. Len(s)
    BY <1>1, <2>1
  <2> QED
    BY <2>6, <2>7, Zenon
<1>4. 0 .. Len(s) \subseteq H
  <2> HIDE DEF H
  <2>1. 0 \in Nat /\ \A k \in 0 .. Len(s) - 1 : k \in H => k + 1 \in H
    BY <1>3
  <2> QED
    BY <1>1, <1>2, <2>1, Climb, Zenon
<1>5. Len(s) \in 0 .. Len(s) /\ Upto(Len(s)) = s
  BY <1>1
<1> QED
  BY <1>4, <1>5

-----------------------------------------------------------------------------
Unit == {"greeting", "methods", "request", "address", "a", "b", "c", "x", "y",
         "method", "noMethod", "success", "error"}
Buffers == Seq(Seq(Unit))
Statuses == {"Ready", "Connecting", "Connected", "Closing", "Closed"}
Socket == [status : Statuses, fd : {"none", "open", "closed"}, writeQueue : Buffers,
           m_len : Int, pendingClose : BOOLEAN, readPaused : BOOLEAN, inbox : Seq(Unit),
           fin : BOOLEAN, reset : BOOLEAN, room : Nat, shut : BOOLEAN, got : Seq(Unit)]

Full(s) == s.writeQueue # << >>
Untouched(s) == /\ ~Full(s) /\ s.room = SendRoom /\ ~s.pendingClose
                /\ ~s.shut /\ s.inbox = << >> /\ ~s.fin /\ s.got = << >>

(* A socket between two calls: what its descriptor, its status and its     *)
(* queue tell of each other.                                               *)
SockOK(s) ==
    /\ s \in Socket /\ s.room <= SendRoom
    /\ s.fd = "none" => s.status \in {"Ready", "Connecting", "Closed"} /\ ~s.reset
    /\ s.fd = "closed" => s.status = "Closed" /\ ~Full(s)
    /\ s.fd = "open" => /\ s.status \in {"Connecting", "Connected", "Closing"}
                        /\ s.shut => Full(s)
                        /\ s.pendingClose <=> s.status = "Closing"
                        /\ s.pendingClose => Full(s)
    /\ s.fd = "none" \/ s.status = "Connecting" => Untouched(s)

(* What a call or an event may do to a socket, as far as the other one is  *)
(* concerned.                                                              *)
Op(was, s) ==
    /\ SockOK(s)
    /\ ~IsOpen(was) => s = was
    /\ IsOpen(was) => IsOpen(s) \/ s.fd = "closed"
    /\ IsOpen(s) => /\ s.status \in {was.status, "Closing"} /\ s.reset = was.reset
                    /\ s.readPaused => Full(s) \/ (was.readPaused /\ ~Full(was))

-----------------------------------------------------------------------------
LEMMA Fields ==
    ASSUME NEW s, SockOK(s)
    PROVE  /\ s.status \in Statuses /\ s.fd \in {"none", "open", "closed"}
           /\ s.writeQueue \in Buffers /\ s.m_len \in Int /\ s.pendingClose \in BOOLEAN
           /\ s.readPaused \in BOOLEAN /\ s.inbox \in Seq(Unit) /\ s.fin \in BOOLEAN
           /\ s.reset \in BOOLEAN /\ s.room \in Nat /\ s.shut \in BOOLEAN
           /\ s.got \in Seq(Unit)
  BY DEF SockOK, Socket

(* A socket is made of its fields, ...                                     *)
LEMMA SocketMade ==
    ASSUME NEW s \in Socket, NEW status \in Statuses, NEW fd \in {"none", "open", "closed"},
           NEW queue \in Buffers, NEW len \in Int, NEW pending \in BOOLEAN,
           NEW paused \in BOOLEAN, NEW shut \in BOOLEAN, NEW room \in Nat, NEW got \in Seq(Unit)
    PROVE  [s EXCEPT !.status = status, !.fd = fd, !.writeQueue = queue, !.m_len = len,
                     !.pendingClose = pending, !.readPaused = paused, !.shut = shut,
                     !.room = room, !.got = got] \in Socket
  BY DEF Socket

LEMMA RestIn ==
    ASSUME NEW S, NEW q \in Seq(S), NEW n \in Nat
    PROVE  Rest(q, n) \in Seq(S)
  BY DEF Rest

LEMMA CloseOp ==
    ASSUME NEW s, SockOK(s), NEW force \in BOOLEAN
    PROVE  LET r == Close(s, force)
           IN  /\ Op(s, r)
               /\ ~IsOpen(s) => r = s
               /\ IsOpen(s) /\ (force \/ ~Full(s)) => r.fd = "closed"
               /\ IsOpen(r) => r.status = "Closing"
               /\ r.got = s.got /\ r.inbox = s.inbox /\ r.readPaused = s.readPaused
               /\ r.room = s.room /\ r.reset = s.reset
               /\ IsOpen(r) => r.writeQueue = s.writeQueue
<1>1. PICK r : r = Close(s, force)
  OBVIOUS
<1>2. CASE ~IsOpen(s)
  BY <1>1, <1>2 DEF Close, Op, IsOpen
<1>3. CASE IsOpen(s) /\ (s.writeQueue = << >> \/ force)
  <2>1. r = [s EXCEPT !.status = "Closed", !.fd = "closed", !.writeQueue = << >>]
    BY <1>1, <1>3 DEF Close
  <2>2. << >> \in Buffers
    BY DEF Buffers
  <2>3. /\ r \in Socket /\ r.status = "Closed" /\ r.fd = "closed" /\ r.writeQueue = << >>
        /\ r.room = s.room /\ r.got = s.got /\ r.inbox = s.inbox /\ r.reset = s.reset
        /\ r.readPaused = s.readPaused
    BY <2>1, <2>2, Zenon DEF SockOK, Socket, Statuses
  <2> QED
    BY <1>1, <1>3, <2>3 DEF SockOK, Op, IsOpen, Full
<1>4. CASE IsOpen(s) /\ ~(s.writeQueue = << >> \/ force)
  <2>1. r = [s EXCEPT !.status = "Closing", !.pendingClose = TRUE, !.shut = TRUE]
    BY <1>1, <1>4 DEF Close
  <2>2. /\ r \in Socket /\ r.status = "Closing" /\ r.fd = s.fd /\ r.pendingClose = TRUE
        /\ r.writeQueue = s.writeQueue
        /\ r.room = s.room /\ r.got = s.got /\ r.inbox = s.inbox /\ r.reset = s.reset
        /\ r.readPaused = s.readPaused
    BY <2>1 DEF SockOK, Socket, Statuses
  <2> QED
    BY <1>1, <1>4, <2>2 DEF SockOK, Op, IsOpen, Full
<1> QED
  BY <1>1, <1>2, <1>3, <1>4

-----------------------------------------------------------------------------
(* What a queue of buffers holds, and what is left of it when units go.    *)
Upto(q) == LET upto[i \in 0 .. Len(q)] == IF i = 0 THEN 0 ELSE upto[i - 1] + Len(q[i])
           IN  upto
Whole(q, n) == CHOOSE i \in 0 .. Len(q) : Upto(q)[i] <= n /\ (i = Len(q) \/ n < Upto(q)[i + 1])
Remaining(q, n) ==
    IF Rest(q, Whole(q, n)) = << >> THEN Rest(q, Whole(q, n))
    ELSE <<Rest(Rest(q, Whole(q, n))[1], n - Upto(q)[Whole(q, n)])>> \o Tail(Rest(q, Whole(q, n)))

LEMMA ConsumedIs ==
    ASSUME NEW s, NEW n
    PROVE  Consumed(s, n) = [s EXCEPT !.m_len = @ - Upto(s.writeQueue)[Whole(s.writeQueue, n)],
                                      !.writeQueue = Remaining(s.writeQueue, n)]
  BY DEF Consumed, Upto, Whole, Remaining

LEMMA UptoUnfolds ==
    ASSUME NEW q \in Buffers
    PROVE  Upto(q) = [i \in 0 .. Len(q) |-> IF i = 0 THEN 0 ELSE Upto(q)[i - 1] + Len(q[i])]
<1> DEFINE Next1(f, i) == IF i = 0 THEN 0 ELSE f[i - 1] + Len(q[i])
           G == {m \in 0 .. Len(q) : \E f : f = [i \in 0 .. m |-> Next1(f, i)]}
<1>0. Len(q) \in Nat
  BY DEF Buffers
<1>1. 0 \in G
  <2> DEFINE f == [i \in 0 .. 0 |-> 0]
  <2>1. f = [i \in 0 .. 0 |-> Next1(f, i)]
    OBVIOUS
  <2> HIDE DEF f
  <2> QED
    BY <1>0, <2>1
<1>2. ASSUME NEW m \in 0 .. Len(q) - 1, m \in G PROVE m + 1 \in G
  <2>1. PICK f : f = [i \in 0 .. m |-> Next1(f, i)]
    BY <1>2
  <2> DEFINE g == [i \in 0 .. m + 1 |-> IF i = m + 1 THEN Next1(f, i) ELSE f[i]]
  <2>2. \A i \in 0 .. m + 1 : i # 0 => i - 1 \in 0 .. m /\ g[i - 1] = f[i - 1]
    OBVIOUS
  <2>3. \A i \in 0 .. m + 1 : Next1(g, i) = Next1(f, i)
    BY <2>2
  <2>4. \A i \in 0 .. m : f[i] = Next1(f, i)
    BY <2>1
  <2>5. \A i \in 0 .. m + 1 : g[i] = Next1(f, i)
    <3> HIDE DEF Next1
    <3> QED
      BY <2>4
  <2>6. g = [i \in 0 .. m + 1 |-> Next1(g, i)]
    BY <2>3, <2>5
  <2> HIDE DEF g
  <2> QED
    BY <1>0, <2>6
<1>3. Len(q) \in G
  <2> HIDE DEF G
  <2>1. 0 \in Nat
    OBVIOUS
  <2>2. 0 .. Len(q) \subseteq G
    BY <1>0, <1>1, <1>2, <2>1, Climb, Zenon
  <2> QED
    BY <1>0, <2>2
<1> DEFINE s == CHOOSE f : f = [i \in 0 .. Len(q) |-> Next1(f, i)]
<1>4. s = [i \in 0 .. Len(q) |-> Next1(s, i)]
  BY <1>3
<1>5. Upto(q) = s
  BY DEF Upto
<1> QED
  BY <1>4, <1>5

LEMMA UptoAre ==
    ASSUME NEW q \in Buffers
    PROVE  /\ Upto(q)[0] = 0 /\ Len(q) \in Nat
           /\ \A i \in 1 .. Len(q) : Upto(q)[i] = Upto(q)[i - 1] + Len(q[i])
           /\ \A i \in 0 .. Len(q) : Upto(q)[i] \in Nat
<1>1. Len(q) \in Nat /\ \A i \in 1 .. Len(q) : q[i] \in Seq(Unit) /\ Len(q[i]) \in Nat
  BY DEF Buffers
<1>2. \A i \in 0 .. Len(q) : Upto(q)[i] = IF i = 0 THEN 0 ELSE Upto(q)[i - 1] + Len(q[i])
  BY <1>1, UptoUnfolds, Zenon
<1>3. /\ 0 \in 0 .. Len(q) /\ Len(q) \in 0 .. Len(q)
      /\ \A i \in 1 .. Len(q) : i \in 0 .. Len(q) /\ i # 0
  BY <1>1
<1>4. /\ Upto(q)[0] = 0
      /\ \A i \in 1 .. Len(q) : Upto(q)[i] = Upto(q)[i - 1] + Len(q[i])
  BY <1>2, <1>3, Zenon
<1> DEFINE G == {i \in 0 .. Len(q) : Upto(q)[i] \in Nat}
<1>5. 0 \in G /\ 0 \in Nat
  BY <1>3, <1>4
<1>6. ASSUME NEW k \in 0 .. Len(q) - 1, k \in G PROVE k + 1 \in G
  <2>1. k + 1 \in 1 .. Len(q) /\ (k + 1) - 1 = k /\ k + 1 \in 0 .. Len(q)
    BY <1>1
  <2>2. Upto(q)[k + 1] = Upto(q)[k] + Len(q[k + 1])
    BY <1>4, <2>1
  <2> QED
    BY <1>1, <1>6, <2>1, <2>2
<1>7. 0 .. Len(q) \subseteq G
  <2> HIDE DEF G
  <2> QED
    BY <1>1, <1>5, <1>6, Climb, Zenon
<1> QED
  BY <1>1, <1>4, <1>7

(* The buffers that go as a whole: there is a first that does not, or none.*)
LEMMA WholeIs ==
    ASSUME NEW q \in Buffers, NEW n \in Nat
    PROVE  /\ Whole(q, n) \in 0 .. Len(q) /\ Upto(q)[Whole(q, n)] <= n
           /\ Whole(q, n) # Len(q) => n < Upto(q)[Whole(q, n) + 1]
<1> DEFINE P(i) == Upto(q)[i] <= n /\ (i = Len(q) \/ n < Upto(q)[i + 1])
<1>1. \E i \in 0 .. Len(q) : P(i)
  <2> SUFFICES ASSUME \A i \in 0 .. Len(q) : ~P(i) PROVE FALSE
    OBVIOUS
  <2> DEFINE G == {i \in 0 .. Len(q) : Upto(q)[i] <= n}
  <2>1. 0 \in G /\ 0 \in Nat /\ Len(q) \in Nat
    BY UptoAre
  <2>2. ASSUME NEW k \in 0 .. Len(q) - 1, k \in G PROVE k + 1 \in G
    <3>1. ~P(k) /\ k # Len(q) /\ k + 1 \in 0 .. Len(q) /\ k \in 0 .. Len(q)
      BY <2>1
    <3>2. Upto(q)[k + 1] \in Nat
      BY <3>1, UptoAre
    <3> QED
      BY <2>2, <3>1, <3>2
  <2>3. 0 .. Len(q) \subseteq G
    <3> HIDE DEF G
    <3> QED
      BY <2>1, <2>2, Climb, Zenon
  <2>4. P(Len(q)) /\ Len(q) \in 0 .. Len(q)
    BY <2>1, <2>3
  <2> QED
    BY <2>4
<1>2. Whole(q, n) \in 0 .. Len(q) /\ P(Whole(q, n))
  <2>1. Whole(q, n) = CHOOSE i \in 0 .. Len(q) : P(i)
    BY DEF Whole
  <2> HIDE DEF P
  <2> QED
    BY <1>1, <2>1
<1> QED
  BY <1>2

LEMMA RemainingIn ==
    ASSUME NEW q \in Buffers, NEW n \in Nat
    PROVE  Remaining(q, n) \in Buffers /\ Upto(q)[Whole(q, n)] \in Int
<1>0. Whole(q, n) \in 0 .. Len(q) /\ Upto(q)[Whole(q, n)] <= n /\ Len(q) \in Nat
  BY WholeIs, UptoAre
<1>1. PICK w \in Nat : w = Whole(q, n) /\ w \in 0 .. Len(q) /\ Upto(q)[w] <= n
  BY <1>0
<1>2. Upto(q)[w] \in Nat
  BY <1>1, UptoAre
<1>3. PICK r : r = Rest(q, w)
  OBVIOUS
<1>4. r \in Seq(Seq(Unit))
  BY <1>1, <1>3, RestIn DEF Buffers
<1>5. CASE r # << >>
  <2>1. r[1] \in Seq(Unit) /\ Tail(r) \in Seq(Seq(Unit)) /\ n - Upto(q)[w] \in Nat
    BY <1>1, <1>2, <1>4, <1>5
  <2>2. <<Rest(r[1], n - Upto(q)[w])>> \in Seq(Seq(Unit))
    <3>1. PICK x : x = Rest(r[1], n - Upto(q)[w])
      OBVIOUS
    <3>2. x \in Seq(Unit)
      BY <2>1, <3>1, RestIn
    <3> QED
      BY <3>1, <3>2
  <2>3. <<Rest(r[1], n - Upto(q)[w])>> \o Tail(r) \in Seq(Seq(Unit))
    BY <2>1, <2>2, ConcatProperties
  <2> QED
    BY <1>1, <1>2, <1>3, <1>5, <2>3 DEF Remaining, Buffers
<1>6. CASE r = << >>
  BY <1>1, <1>2, <1>3, <1>4, <1>6 DEF Remaining, Buffers
<1> QED
  BY <1>5, <1>6

-----------------------------------------------------------------------------
(* Sequences put together.                                                 *)
LEMMA RestLen ==
    ASSUME NEW S, NEW t \in Seq(S), NEW n \in 0 .. Len(t)
    PROVE  /\ Rest(t, n) \in Seq(S) /\ Len(Rest(t, n)) = Len(t) - n
           /\ \A i \in 1 .. Len(t) - n : Rest(t, n)[i] = t[n + i]
<1>1. Len(t) \in Nat /\ n \in Nat /\ n + 1 \in Int /\ \A i \in n + 1 .. Len(t) : t[i] \in S
  OBVIOUS
<1>2. /\ SubSeq(t, n + 1, Len(t)) \in Seq(S)
      /\ Len(SubSeq(t, n + 1, Len(t))) = IF n + 1 <= Len(t) THEN Len(t) - (n + 1) + 1 ELSE 0
      /\ \A i \in 1 .. Len(t) - (n + 1) + 1 : SubSeq(t, n + 1, Len(t))[i] = t[(n + 1) + i - 1]
  BY <1>1, SubSeqProperties
<1> QED
  BY <1>1, <1>2 DEF Rest

LEMMA Splits ==
    ASSUME NEW S, NEW t \in Seq(S), NEW n \in 0 .. Len(t)
    PROVE  /\ SubSeq(t, 1, n) \in Seq(S) /\ Len(SubSeq(t, 1, n)) = n
           /\ SubSeq(t, 1, n) \o Rest(t, n) = t
<1>1. Len(t) \in Nat /\ n \in Nat /\ \A i \in 1 .. n : t[i] \in S
  OBVIOUS
<1>2. /\ SubSeq(t, 1, n) \in Seq(S) /\ Len(SubSeq(t, 1, n)) = n
      /\ \A i \in 1 .. n : SubSeq(t, 1, n)[i] = t[i]
  <2>1. /\ SubSeq(t, 1, n) \in Seq(S)
        /\ Len(SubSeq(t, 1, n)) = IF 1 <= n THEN n - 1 + 1 ELSE 0
        /\ \A i \in 1 .. n - 1 + 1 : SubSeq(t, 1, n)[i] = t[1 + i - 1]
    BY <1>1, SubSeqProperties
  <2> QED
    BY <1>1, <2>1
<1>3. PICK a \in Seq(S), b \in Seq(S) : a = SubSeq(t, 1, n) /\ b = Rest(t, n)
  BY <1>2, RestLen
<1>4. Len(a) = n /\ Len(b) = Len(t) - n /\ \A i \in 1 .. n : a[i] = t[i]
  BY <1>2, <1>3, RestLen
<1>5. \A i \in 1 .. Len(t) - n : b[i] = t[n + i]
  BY <1>3, RestLen
<1>6. /\ a \o b \in Seq(S) /\ Len(a \o b) = Len(t)
      /\ \A i \in 1 .. Len(t) : (a \o b)[i] = IF i <= n THEN a[i] ELSE b[i - n]
  BY <1>1, <1>4, ConcatProperties
<1>7. \A i \in 1 .. Len(t) : (a \o b)[i] = t[i]
  BY <1>1, <1>4, <1>5, <1>6
<1>8. a \o b = t
  BY <1>6, <1>7, SeqEqual
<1> QED
  BY <1>2, <1>3, <1>8

LEMMA RestOfBoth ==
    ASSUME NEW S, NEW a \in Seq(S), NEW b \in Seq(S), NEW n \in Nat
    PROVE  /\ n <= Len(a) => Rest(a \o b, n) = Rest(a, n) \o b
           /\ Len(a) <= n /\ n <= Len(a) + Len(b) => Rest(a \o b, n) = Rest(b, n - Len(a))
<1>1. /\ a \o b \in Seq(S) /\ Len(a \o b) = Len(a) + Len(b) /\ Len(a) \in Nat /\ Len(b) \in Nat
      /\ \A i \in 1 .. Len(a) + Len(b) : (a \o b)[i] = IF i <= Len(a) THEN a[i] ELSE b[i - Len(a)]
  BY ConcatProperties
<1>2. PICK c \in Seq(S) : c = a \o b
  BY <1>1
<1>3. ASSUME n <= Len(a) PROVE Rest(c, n) = Rest(a, n) \o b
  <2>1. /\ Rest(c, n) \in Seq(S) /\ Len(Rest(c, n)) = Len(a) + Len(b) - n
        /\ \A i \in 1 .. Len(a) + Len(b) - n : Rest(c, n)[i] = c[n + i]
    <3>1. n \in 0 .. Len(c) /\ Len(c) = Len(a) + Len(b)
      BY <1>1, <1>2, <1>3
    <3>2. /\ Rest(c, n) \in Seq(S) /\ Len(Rest(c, n)) = Len(c) - n
          /\ \A i \in 1 .. Len(c) - n : Rest(c, n)[i] = c[n + i]
      BY <3>1, RestLen
    <3> QED
      BY <3>1, <3>2
  <2>2. /\ Rest(a, n) \in Seq(S) /\ Len(Rest(a, n)) = Len(a) - n
        /\ \A i \in 1 .. Len(a) - n : Rest(a, n)[i] = a[n + i]
    <3>1. n \in 0 .. Len(a)
      BY <1>1, <1>3
    <3> QED
      BY <3>1, RestLen
  <2>3. PICK d \in Seq(S) : d = Rest(a, n)
    BY <2>2
  <2>4. /\ d \o b \in Seq(S) /\ Len(d \o b) = (Len(a) - n) + Len(b)
        /\ \A i \in 1 .. (Len(a) - n) + Len(b) :
              (d \o b)[i] = IF i <= Len(a) - n THEN d[i] ELSE b[i - (Len(a) - n)]
    BY <2>2, <2>3, ConcatProperties, SMTT(30)
  <2>5. \A i \in 1 .. Len(a) + Len(b) - n : Rest(c, n)[i] = (d \o b)[i]
    <3> TAKE i \in 1 .. Len(a) + Len(b) - n
    <3>1. n + i \in 1 .. Len(a) + Len(b) /\ i \in 1 .. (Len(a) - n) + Len(b)
      BY <1>1, <1>3
    <3>2. Rest(c, n)[i] = IF n + i <= Len(a) THEN a[n + i] ELSE b[(n + i) - Len(a)]
      BY <1>1, <1>2, <2>1, <3>1
    <3>3. (d \o b)[i] = IF i <= Len(a) - n THEN d[i] ELSE b[i - (Len(a) - n)]
      BY <2>4, <3>1
    <3>4. CASE i <= Len(a) - n
      BY <1>1, <1>3, <2>2, <2>3, <3>2, <3>3, <3>4
    <3>5. CASE ~(i <= Len(a) - n)
      <4>1. (n + i) - Len(a) = i - (Len(a) - n) /\ ~(n + i <= Len(a))
        BY <1>1, <1>3, <3>5
      <4> QED
        BY <3>2, <3>3, <3>5, <4>1
    <3> QED
      BY <3>4, <3>5
  <2>6. Rest(c, n) = d \o b
    <3>1. Len(Rest(c, n)) = Len(d \o b) /\ Len(Rest(c, n)) = Len(a) + Len(b) - n
      BY <1>1, <1>3, <2>1, <2>4
    <3> QED
      BY <2>1, <2>4, <2>5, <3>1, SeqEqual
  <2> QED
    BY <2>3, <2>6
<1>4. ASSUME Len(a) <= n, n <= Len(a) + Len(b) PROVE Rest(c, n) = Rest(b, n - Len(a))
  <2>1. /\ Rest(c, n) \in Seq(S) /\ Len(Rest(c, n)) = Len(a) + Len(b) - n
        /\ \A i \in 1 .. Len(a) + Len(b) - n : Rest(c, n)[i] = c[n + i]
    <3>1. n \in 0 .. Len(c) /\ Len(c) = Len(a) + Len(b)
      BY <1>1, <1>2, <1>4
    <3>2. /\ Rest(c, n) \in Seq(S) /\ Len(Rest(c, n)) = Len(c) - n
          /\ \A i \in 1 .. Len(c) - n : Rest(c, n)[i] = c[n + i]
      BY <3>1, RestLen
    <3> QED
      BY <3>1, <3>2
  <2>2. PICK k : k = n - Len(a) /\ k \in Nat /\ k \in 0 .. Len(b)
    <3>1. n - Len(a) \in Nat /\ n - Len(a) \in 0 .. Len(b)
      BY <1>1, <1>4
    <3> QED
      BY <3>1
  <2>3. /\ Rest(b, k) \in Seq(S) /\ Len(Rest(b, k)) = Len(b) - k
        /\ \A i \in 1 .. Len(b) - k : Rest(b, k)[i] = b[k + i]
    BY <2>2, RestLen, Zenon
  <2>4. \A i \in 1 .. Len(a) + Len(b) - n : Rest(c, n)[i] = Rest(b, k)[i]
    <3> TAKE i \in 1 .. Len(a) + Len(b) - n
    <3>1. /\ n + i \in 1 .. Len(a) + Len(b) /\ ~(n + i <= Len(a)) /\ i \in 1 .. Len(b) - k
          /\ (n + i) - Len(a) = k + i
      BY <1>1, <1>4, <2>2
    <3> QED
      BY <1>1, <1>2, <2>1, <2>3, <3>1
  <2>5. Rest(c, n) = Rest(b, k)
    BY <1>1, <2>1, <2>2, <2>3, <2>4, SeqEqual, SMTT(60)
  <2> QED
    BY <2>2, <2>5
<1> QED
  BY <1>2, <1>3, <1>4

-----------------------------------------------------------------------------
(* FlattenSeq, one element at a time.                                      *)
Upwards(q) == LET flatten[i \in 1 .. Len(q)] ==
                      IF i = 1 THEN q[i] ELSE flatten[i - 1] \o q[i]
              IN  flatten

LEMMA FlattenIs ==
    ASSUME NEW q, Len(q) # 0
    PROVE  FlattenSeq(q) = Upwards(q)[Len(q)]
  BY DEF FlattenSeq, Upwards

LEMMA FlattenEmpty == FlattenSeq(<< >>) = << >>
  BY DEF FlattenSeq

LEMMA UpwardsUnfolds ==
    ASSUME NEW q \in Buffers, Len(q) # 0
    PROVE  Upwards(q) = [i \in 1 .. Len(q) |-> IF i = 1 THEN q[i] ELSE Upwards(q)[i - 1] \o q[i]]
<1> DEFINE Next1(f, i) == IF i = 1 THEN q[i] ELSE f[i - 1] \o q[i]
           G == {m \in 1 .. Len(q) : \E f : f = [i \in 1 .. m |-> Next1(f, i)]}
<1>0. Len(q) \in Nat /\ 1 <= Len(q)
  BY DEF Buffers
<1>1. 1 \in G
  <2> DEFINE f == [i \in 1 .. 1 |-> q[1]]
  <2>1. f = [i \in 1 .. 1 |-> Next1(f, i)]
    OBVIOUS
  <2> HIDE DEF f
  <2>2. \E h : h = [i \in 1 .. 1 |-> Next1(h, i)]
    BY <2>1
  <2>3. 1 \in 1 .. Len(q)
    BY <1>0
  <2> HIDE DEF Next1
  <2> QED
    BY <2>2, <2>3
<1>2. ASSUME NEW m \in 1 .. Len(q) - 1, m \in G PROVE m + 1 \in G
  <2>1. PICK f : f = [i \in 1 .. m |-> Next1(f, i)]
    BY <1>2
  <2> DEFINE g == [i \in 1 .. m + 1 |-> IF i = m + 1 THEN Next1(f, i) ELSE f[i]]
  <2>2. \A i \in 1 .. m + 1 : i # 1 => i - 1 \in 1 .. m /\ g[i - 1] = f[i - 1]
    OBVIOUS
  <2>3. \A i \in 1 .. m + 1 : Next1(g, i) = Next1(f, i)
    BY <2>2
  <2>4. \A i \in 1 .. m : f[i] = Next1(f, i)
    BY <2>1, Zenon
  <2>5. \A i \in 1 .. m + 1 : g[i] = Next1(f, i)
    <3> HIDE DEF Next1
    <3> QED
      BY <2>4
  <2>6. g = [i \in 1 .. m + 1 |-> Next1(g, i)]
    BY <2>3, <2>5, Zenon
  <2> HIDE DEF g
  <2>7. \E h : h = [i \in 1 .. m + 1 |-> Next1(h, i)]
    BY <2>6, Zenon
  <2>8. m + 1 \in 1 .. Len(q)
    BY <1>0
  <2> HIDE DEF Next1
  <2> QED
    BY <2>7, <2>8
<1>3. Len(q) \in G
  <2> HIDE DEF G
  <2>1. 1 \in Nat
    OBVIOUS
  <2>2. 1 .. Len(q) \subseteq G
    BY <1>0, <1>1, <1>2, <2>1, Climb, ZenonT(60)
  <2> QED
    BY <1>0, <2>2
<1> DEFINE s == CHOOSE f : f = [i \in 1 .. Len(q) |-> Next1(f, i)]
<1>4. s = [i \in 1 .. Len(q) |-> Next1(s, i)]
  BY <1>3
<1>5. Upwards(q) = s
  BY DEF Upwards
<1> QED
  BY <1>4, <1>5

LEMMA UpwardsAre ==
    ASSUME NEW q \in Buffers, Len(q) # 0
    PROVE  /\ Upwards(q)[1] = q[1]
           /\ \A i \in 1 .. Len(q) : i # 1 => Upwards(q)[i] = Upwards(q)[i - 1] \o q[i]
           /\ \A i \in 1 .. Len(q) : Upwards(q)[i] \in Seq(Unit)
<1>0. Len(q) \in Nat /\ 1 \in 1 .. Len(q) /\ \A i \in 1 .. Len(q) : q[i] \in Seq(Unit)
  BY DEF Buffers
<1>1. \A i \in 1 .. Len(q) :
          Upwards(q)[i] = IF i = 1 THEN q[i] ELSE Upwards(q)[i - 1] \o q[i]
  BY UpwardsUnfolds, Zenon
<1>2. /\ Upwards(q)[1] = q[1]
      /\ \A i \in 1 .. Len(q) : i # 1 => Upwards(q)[i] = Upwards(q)[i - 1] \o q[i]
  BY <1>0, <1>1, Zenon
<1> DEFINE G == {i \in 1 .. Len(q) : Upwards(q)[i] \in Seq(Unit)}
<1>3. 1 \in G /\ 1 \in Nat
  BY <1>0, <1>2
<1>4. ASSUME NEW k \in 1 .. Len(q) - 1, k \in G PROVE k + 1 \in G
  <2>1. k + 1 \in 1 .. Len(q) /\ (k + 1) - 1 = k /\ k + 1 # 1
    BY <1>0
  <2>2. Upwards(q)[k + 1] = Upwards(q)[k] \o q[k + 1]
    BY <1>2, <2>1
  <2>3. Upwards(q)[k] \in Seq(Unit) /\ q[k + 1] \in Seq(Unit)
    BY <1>0, <1>4, <2>1
  <2>4. Upwards(q)[k] \o q[k + 1] \in Seq(Unit)
    BY <2>3, ConcatProperties
  <2> QED
    BY <2>1, <2>2, <2>4
<1>5. 1 .. Len(q) \subseteq G
  <2> HIDE DEF G
  <2> QED
    BY <1>0, <1>3, <1>4, Climb, Zenon
<1> QED
  BY <1>2, <1>5

LEMMA FlattenIn ==
    ASSUME NEW q \in Buffers
    PROVE  FlattenSeq(q) \in Seq(Unit)
<1>0. Len(q) \in Nat /\ (Len(q) = 0 => q = << >>)
  BY DEF Buffers
<1>1. CASE Len(q) = 0
  <2>1. q = << >> /\ << >> \in Seq(Unit)
    BY <1>0, <1>1
  <2> QED
    BY <2>1, FlattenEmpty
<1>2. CASE Len(q) # 0
  <2>1. Len(q) \in 1 .. Len(q)
    BY <1>0, <1>2
  <2>2. Upwards(q)[Len(q)] \in Seq(Unit)
    BY <1>2, <2>1, UpwardsAre
  <2> QED
    BY <1>2, <2>2, FlattenIs
<1> QED
  BY <1>1, <1>2

LEMMA FlattenAppend ==
    ASSUME NEW q \in Buffers, NEW x \in Seq(Unit)
    PROVE  FlattenSeq(Append(q, x)) = FlattenSeq(q) \o x
<1>0. Len(q) \in Nat /\ (Len(q) = 0 => q = << >>)
  BY DEF Buffers
<1>1. PICK r : r = Append(q, x)
  OBVIOUS
<1>2. /\ r \in Buffers /\ Len(r) = Len(q) + 1 /\ r[Len(q) + 1] = x
      /\ \A i \in 1 .. Len(q) : r[i] = q[i]
  BY <1>1, AppendProperties DEF Buffers
<1>3. Len(r) # 0 /\ FlattenSeq(r) = Upwards(r)[Len(q) + 1]
  BY <1>0, <1>2, FlattenIs
<1>4. CASE Len(q) = 0
  <2>1. FlattenSeq(r) = x
    <3>1. Upwards(r)[1] = r[1]
      BY <1>2, <1>3, UpwardsAre, Zenon
    <3>2. Len(q) + 1 = 1
      BY <1>4
    <3> QED
      BY <1>2, <1>3, <3>1, <3>2
  <2>2. << >> \o x = x
    BY ConcatEmptySeq
  <2> QED
    BY <1>0, <1>1, <1>4, <2>1, <2>2, FlattenEmpty
<1>5. CASE Len(q) # 0
  <2>1. /\ Upwards(q)[1] = q[1] /\ Upwards(r)[1] = r[1]
        /\ \A i \in 1 .. Len(q) : i # 1 => Upwards(q)[i] = Upwards(q)[i - 1] \o q[i]
        /\ \A i \in 1 .. Len(r) : i # 1 => Upwards(r)[i] = Upwards(r)[i - 1] \o r[i]
    BY <1>2, <1>3, <1>5, UpwardsAre
  <2> DEFINE G == {i \in 1 .. Len(q) : Upwards(r)[i] = Upwards(q)[i]}
  <2>2. 1 \in G /\ 1 \in Nat
    BY <1>0, <1>2, <1>5, <2>1
  <2>3. ASSUME NEW k \in 1 .. Len(q) - 1, k \in G PROVE k + 1 \in G
    <3>1. k + 1 \in 1 .. Len(q) /\ k + 1 \in 1 .. Len(r) /\ (k + 1) - 1 = k /\ k + 1 # 1
      BY <1>0, <1>2
    <3>2. /\ Upwards(q)[k + 1] = Upwards(q)[k] \o q[k + 1]
          /\ Upwards(r)[k + 1] = Upwards(r)[k] \o r[k + 1]
      BY <2>1, <3>1
    <3> QED
      BY <1>2, <2>3, <3>1, <3>2
  <2>4. 1 .. Len(q) \subseteq G
    <3> HIDE DEF G
    <3> QED
      BY <1>0, <2>2, <2>3, Climb, Zenon
  <2>5. Upwards(r)[Len(q)] = Upwards(q)[Len(q)] /\ FlattenSeq(q) = Upwards(q)[Len(q)]
    BY <1>0, <1>5, <2>4, FlattenIs
  <2>6. Upwards(r)[Len(q) + 1] = Upwards(r)[Len(q)] \o r[Len(q) + 1]
    <3>1. Len(q) + 1 \in 1 .. Len(r) /\ Len(q) + 1 # 1 /\ (Len(q) + 1) - 1 = Len(q)
      BY <1>0, <1>2, <1>5
    <3> QED
      BY <2>1, <3>1
  <2> QED
    BY <1>1, <1>2, <1>3, <2>5, <2>6
<1> QED
  BY <1>4, <1>5

Assoc(S) == \A u, v, w \in Seq(S) : (u \o v) \o w = u \o (v \o w)

LEMMA SeqAssoc == \A S : Assoc(S)
<1>1. \A S : \A u, v, w \in Seq(S) : (u \o v) \o w = u \o (v \o w)
  BY ConcatAssociative
<1> QED
  BY <1>1, Zenon DEF Assoc

LEMMA FlattenBoth ==
    ASSUME NEW q \in Buffers, NEW r \in Buffers
    PROVE  q \o r \in Buffers /\ FlattenSeq(q \o r) = FlattenSeq(q) \o FlattenSeq(r)
<1> DEFINE G == {t \in Buffers : /\ q \o t \in Buffers
                                 /\ FlattenSeq(q \o t) = FlattenSeq(q) \o FlattenSeq(t)}
<1>0. q \in Seq(Seq(Unit)) /\ FlattenSeq(q) \in Seq(Unit)
  BY FlattenIn DEF Buffers
<1>1. << >> \in G
  <2>1. q \o << >> = q /\ FlattenSeq(q) \o << >> = FlattenSeq(q)
    BY <1>0, ConcatEmptySeq
  <2>2. << >> \in Buffers
    BY DEF Buffers
  <2> QED
    BY <2>1, <2>2, FlattenEmpty
<1>2. ASSUME NEW t \in Seq(Seq(Unit)), NEW x \in Seq(Unit), t \in G PROVE Append(t, x) \in G
  <2>1. t \in Buffers /\ q \o t \in Buffers /\ FlattenSeq(q \o t) = FlattenSeq(q) \o FlattenSeq(t)
    BY <1>2
  <2>2. Append(t, x) \in Buffers /\ Append(t, x) = t \o <<x>> /\ <<x>> \in Seq(Seq(Unit))
    BY <2>1, AppendProperties, AppendIsConcat DEF Buffers
  <2>3. (q \o t) \o <<x>> = q \o (t \o <<x>>)
    <3>1. PICK S, e : S = Seq(Unit) /\ e = <<x>>
      OBVIOUS
    <3>2. q \in Seq(S) /\ t \in Seq(S) /\ e \in Seq(S)
      BY <1>0, <2>2, <3>1
    <3>3. Assoc(S)
      BY SeqAssoc
    <3>4. (q \o t) \o e = q \o (t \o e)
      BY <3>2, <3>3, Zenon DEF Assoc
    <3> QED
      BY <3>1, <3>4
  <2>4. Append(q \o t, x) = (q \o t) \o <<x>> /\ Append(q \o t, x) \in Buffers
    BY <2>1, AppendIsConcat, AppendProperties DEF Buffers
  <2>5. q \o Append(t, x) = Append(q \o t, x)
    BY <2>2, <2>3, <2>4, Zenon
  <2>6. FlattenSeq(q \o Append(t, x)) = (FlattenSeq(q) \o FlattenSeq(t)) \o x
    BY <2>1, <2>5, FlattenAppend, Zenon
  <2>7. FlattenSeq(Append(t, x)) = FlattenSeq(t) \o x
    BY <2>1, FlattenAppend
  <2>8. (FlattenSeq(q) \o FlattenSeq(t)) \o x = FlattenSeq(q) \o (FlattenSeq(t) \o x)
    <3>1. Assoc(Unit)
      BY SeqAssoc
    <3>2. FlattenSeq(t) \in Seq(Unit)
      BY <2>1, FlattenIn
    <3> QED
      BY <1>0, <3>1, <3>2, Zenon DEF Assoc
  <2> QED
    BY <2>2, <2>4, <2>5, <2>6, <2>7, <2>8
<1>3. Seq(Seq(Unit)) \subseteq G
  <2> HIDE DEF G
  <2> QED
    BY <1>1, <1>2, ClimbSeq, Zenon
<1>4. r \in G
  BY <1>3 DEF Buffers
<1> QED
  BY <1>4

LEMMA FlattenOne ==
    ASSUME NEW x \in Seq(Unit)
    PROVE  <<x>> \in Buffers /\ FlattenSeq(<<x>>) = x
<1>1. << >> \in Buffers /\ Append(<< >>, x) = <<x>> /\ <<x>> \in Buffers
  BY DEF Buffers
<1>2. FlattenSeq(Append(<< >>, x)) = FlattenSeq(<< >>) \o x
  BY <1>1, FlattenAppend
<1>3. << >> \o x = x
  BY ConcatEmptySeq
<1> QED
  BY <1>1, <1>2, <1>3, FlattenEmpty

LEMMA Cat ==
    /\ \A u, v \in Seq(Unit) : u \o v \in Seq(Unit) /\ Len(u \o v) = Len(u) + Len(v)
    /\ \A u, v, w \in Seq(Unit) : (u \o v) \o w = u \o (v \o w)
    /\ \A u \in Seq(Unit) : u \o << >> = u /\ << >> \o u = u
    /\ << >> \in Seq(Unit)
<1>1. \A u, v \in Seq(Unit) : u \o v \in Seq(Unit) /\ Len(u \o v) = Len(u) + Len(v)
  BY ConcatProperties
<1>2. \A u, v, w \in Seq(Unit) : (u \o v) \o w = u \o (v \o w)
  <2>1. Assoc(Unit)
    BY SeqAssoc
  <2> QED
    BY <2>1 DEF Assoc
<1>3. \A u \in Seq(Unit) : u \o << >> = u /\ << >> \o u = u
  BY ConcatEmptySeq
<1>4. << >> \in Seq(Unit)
  OBVIOUS
<1> QED
  BY <1>1, <1>2, <1>3, <1>4

(* Upto counts what the first buffers hold.                                *)
LEMMA UptoCounts ==
    ASSUME NEW q \in Buffers, NEW w \in 0 .. Len(q)
    PROVE  /\ SubSeq(q, 1, w) \in Buffers
           /\ Len(FlattenSeq(SubSeq(q, 1, w))) = Upto(q)[w]
<1>0. Len(q) \in Nat /\ q \in Seq(Seq(Unit)) /\ \A i \in 1 .. Len(q) : q[i] \in Seq(Unit)
  BY DEF Buffers
<1>1. \A i \in 0 .. Len(q) : SubSeq(q, 1, i) \in Buffers
  BY <1>0, Splits DEF Buffers
<1> DEFINE G == {i \in 0 .. Len(q) : Len(FlattenSeq(SubSeq(q, 1, i))) = Upto(q)[i]}
<1>2. 0 \in G /\ 0 \in Nat
  <2>1. SubSeq(q, 1, 0) = << >>
    OBVIOUS
  <2>2. Len(FlattenSeq(SubSeq(q, 1, 0))) = 0
    <3>1. FlattenSeq(SubSeq(q, 1, 0)) = << >>
      BY <2>1, FlattenEmpty, Zenon
    <3> QED
      BY <3>1
  <2> QED
    BY <1>0, <2>2, UptoAre
<1>3. ASSUME NEW k \in 0 .. Len(q) - 1, k \in G PROVE k + 1 \in G
  <2>1. k + 1 \in 1 .. Len(q) /\ (k + 1) - 1 = k /\ k \in 0 .. Len(q) /\ k + 1 \in 0 .. Len(q)
    BY <1>0
  <2>2. PICK s \in Buffers : s = SubSeq(q, 1, k)
    BY <1>1, <2>1
  <2>3. SubSeq(q, 1, k + 1) = s \o <<q[k + 1]>>
    <3>1. 1 \in 1 .. Len(q) /\ k + 1 \in 1 .. Len(q)
      BY <1>0, <2>1
    <3>2. SubSeq(q, 1, k + 1) = SubSeq(q, 1, (k + 1) - 1) \o <<q[k + 1]>>
      BY <1>0, <3>1, SubSeqRecursiveSecond
    <3> QED
      BY <2>1, <2>2, <3>2
  <2>4. q[k + 1] \in Seq(Unit)
    BY <1>0, <2>1
  <2>5. Append(s, q[k + 1]) = s \o <<q[k + 1]>>
    BY <2>4, AppendIsConcat DEF Buffers
  <2>6. FlattenSeq(SubSeq(q, 1, k + 1)) = FlattenSeq(s) \o q[k + 1]
    BY <2>3, <2>4, <2>5, FlattenAppend
  <2>7. Len(FlattenSeq(s) \o q[k + 1]) = Len(FlattenSeq(s)) + Len(q[k + 1])
    BY <2>4, FlattenIn, Cat
  <2>8. Upto(q)[k + 1] = Upto(q)[k] + Len(q[k + 1])
    BY <2>1, UptoAre
  <2>9. Len(FlattenSeq(s)) = Upto(q)[k]
    BY <1>3, <2>2
  <2> QED
    BY <2>1, <2>6, <2>7, <2>8, <2>9
<1>4. 0 .. Len(q) \subseteq G
  <2> HIDE DEF G
  <2> QED
    BY <1>0, <1>2, <1>3, Climb, Zenon
<1> QED
  BY <1>1, <1>4

(* The queue loses the units that went, and no other.                      *)
LEMMA RemainingHolds ==
    ASSUME NEW q \in Buffers, NEW n \in 0 .. Len(FlattenSeq(q))
    PROVE  FlattenSeq(Remaining(q, n)) = Rest(FlattenSeq(q), n)
<1>0. Len(q) \in Nat /\ q \in Seq(Seq(Unit)) /\ FlattenSeq(q) \in Seq(Unit)
  BY FlattenIn DEF Buffers
<1>1. n \in Nat /\ Len(FlattenSeq(q)) \in Nat
  BY <1>0
<1>2. PICK w : w = Whole(q, n)
  OBVIOUS
<1>3. w \in 0 .. Len(q) /\ Upto(q)[w] <= n /\ (w # Len(q) => n < Upto(q)[w + 1])
  BY <1>1, <1>2, WholeIs, Zenon
<1>4. PICK a : a = FlattenSeq(SubSeq(q, 1, w))
  OBVIOUS
<1>5. SubSeq(q, 1, w) \in Buffers /\ a \in Seq(Unit) /\ Len(a) = Upto(q)[w] /\ Len(a) \in Nat
  BY <1>3, <1>4, UptoCounts, FlattenIn
<1>6. PICK r : r = Rest(q, w)
  OBVIOUS
<1>7. r \in Buffers /\ Len(r) = Len(q) - w /\ SubSeq(q, 1, w) \o r = q
  BY <1>0, <1>3, <1>6, RestLen, Splits, Zenon DEF Buffers
<1>8. FlattenSeq(q) = a \o FlattenSeq(r) /\ FlattenSeq(r) \in Seq(Unit)
  BY <1>4, <1>5, <1>7, FlattenBoth, FlattenIn, Zenon
<1>9. Len(FlattenSeq(q)) = Len(a) + Len(FlattenSeq(r))
  BY <1>5, <1>8, Cat
<1>10. Rest(FlattenSeq(q), n) = Rest(FlattenSeq(r), n - Len(a))
  <2>1. Len(a) <= n /\ n <= Len(a) + Len(FlattenSeq(r))
    BY <1>1, <1>3, <1>5, <1>9
  <2> QED
    BY <1>1, <1>5, <1>8, <2>1, RestOfBoth, ZenonT(60)
<1>11. CASE r = << >>
  <2>1. Remaining(q, n) = << >>
    BY <1>2, <1>6, <1>11 DEF Remaining
  <2>2. FlattenSeq(r) = << >> /\ Len(FlattenSeq(r)) = 0
    BY <1>11, FlattenEmpty
  <2>3. n - Len(a) = 0
    BY <1>1, <1>3, <1>5, <1>9, <2>2
  <2>4. Rest(<< >>, 0) = << >>
    BY DEF Rest
  <2> QED
    BY <1>10, <2>1, <2>2, <2>3, <2>4, FlattenEmpty
<1>12. CASE r # << >>
  <2>1. PICK x, t : x = r[1] /\ t = Tail(r)
    OBVIOUS
  <2>2. x \in Seq(Unit) /\ t \in Buffers /\ <<x>> \o t = r
    <3>1. r \in Seq(Seq(Unit)) /\ Len(r) \in Nat /\ Len(r) # 0
      BY <1>7, <1>12 DEF Buffers
    <3>2. x = Head(r) /\ x \in Seq(Unit) /\ t \in Seq(Seq(Unit))
      BY <2>1, <3>1
    <3>3. <<x>> \o t = r
      BY <2>1, <3>1
    <3> QED
      BY <3>2, <3>3 DEF Buffers
  <2>3. FlattenSeq(r) = x \o FlattenSeq(t) /\ FlattenSeq(t) \in Seq(Unit)
    <3>1. FlattenSeq(<<x>> \o t) = FlattenSeq(<<x>>) \o FlattenSeq(t)
      BY <2>2, FlattenOne, FlattenBoth, Zenon
    <3> QED
      BY <2>2, <3>1, FlattenOne, FlattenIn, Zenon
  <2>4. n - Len(a) \in Nat /\ n - Len(a) <= Len(x)
    <3>1. w # Len(q) /\ w + 1 \in 1 .. Len(q) /\ (w + 1) - 1 = w
      BY <1>0, <1>3, <1>7, <1>12 DEF Buffers
    <3>2. Upto(q)[w + 1] = Upto(q)[w] + Len(q[w + 1])
      BY <3>1, UptoAre
    <3>3. r[1] = q[w + 1]
      <4>1. 1 \in 1 .. Len(q) - w
        BY <1>0, <1>3, <3>1
      <4>2. \A i \in 1 .. Len(q) - w : r[i] = q[w + i]
        BY <1>0, <1>3, <1>6, RestLen
      <4> QED
        BY <4>1, <4>2
    <3>4. Len(x) \in Nat /\ Upto(q)[w] \in Nat
      BY <1>5, <2>2
    <3> QED
      BY <1>1, <1>3, <1>5, <2>1, <3>1, <3>2, <3>3, <3>4
  <2>5. PICK y : y = Rest(x, n - Len(a))
    OBVIOUS
  <2>6. y \in Seq(Unit)
    BY <2>2, <2>4, <2>5, RestIn
  <2>7. Rest(FlattenSeq(r), n - Len(a)) = y \o FlattenSeq(t)
    <3>1. PICK k \in Nat : k = n - Len(a)
      BY <2>4
    <3>2. PICK f : f = FlattenSeq(t)
      OBVIOUS
    <3>3. k <= Len(x) /\ f \in Seq(Unit)
      BY <2>3, <2>4, <3>1, <3>2
    <3>4. Rest(x \o f, k) = Rest(x, k) \o f
      BY <2>2, <3>3, RestOfBoth
    <3> QED
      BY <2>3, <2>5, <3>1, <3>2, <3>4
  <2>8. Remaining(q, n) = <<y>> \o t
    BY <1>2, <1>5, <1>6, <1>12, <2>1, <2>5 DEF Remaining
  <2>9. FlattenSeq(<<y>> \o t) = y \o FlattenSeq(t)
    <3>1. FlattenSeq(<<y>> \o t) = FlattenSeq(<<y>>) \o FlattenSeq(t)
      BY <2>2, <2>6, FlattenOne, FlattenBoth
    <3> QED
      BY <2>6, <3>1, FlattenOne
  <2> QED
    BY <1>10, <2>7, <2>8, <2>9
<1> QED
  BY <1>11, <1>12

-----------------------------------------------------------------------------
(* The methods.                                                            *)
Out(s) == s.got \o Queued(s)

LEMMA OutIn ==
    ASSUME NEW s, SockOK(s)
    PROVE  /\ Queued(s) \in Seq(Unit) /\ Out(s) \in Seq(Unit) /\ s.got \in Seq(Unit)
           /\ ~Full(s) => Queued(s) = << >> /\ Out(s) = s.got
<1>1. s.writeQueue \in Buffers /\ s.got \in Seq(Unit)
  BY Fields
<1>2. Queued(s) \in Seq(Unit)
  BY <1>1, FlattenIn DEF Queued
<1>3. ~Full(s) => Queued(s) = << >>
  BY FlattenEmpty DEF Full, Queued
<1> QED
  BY <1>1, <1>2, <1>3, Cat DEF Out

(* send: an open socket stays open unless its peer has reset it.           *)
LEMMA SendOp ==
    ASSUME NEW s, SockOK(s), NEW data \in Seq(Unit), IsOpen(s) => s.status # "Connecting"
    PROVE  LET r == Send(s, data)
           IN  /\ Op(s, r)
               /\ r.inbox = s.inbox /\ r.reset = s.reset /\ r.fin = s.fin
               /\ ~s.reset => r.fd = s.fd /\ r.status = s.status
               /\ IsOpen(r) => r.status = s.status /\ (IsOpen(s) => Out(r) = Out(s) \o data)
               /\ ~IsOpen(r) => ~Full(r) /\ r.got = s.got
               /\ ~Full(s) /\ Len(data) <= s.room =>
                     r.writeQueue = s.writeQueue /\ r.readPaused = s.readPaused
<1>0. PICK r : r = Send(s, data)
  OBVIOUS
<1>f. /\ s.writeQueue \in Buffers /\ s.room \in Nat /\ s.got \in Seq(Unit) /\ s.m_len \in Int
      /\ s.readPaused \in BOOLEAN /\ s \in Socket /\ Len(data) \in Nat
      /\ Queued(s) \in Seq(Unit) /\ Out(s) = s.got \o Queued(s)
  BY Fields, OutIn DEF SockOK, Out
<1>1. CASE data = << >>
  <2>1. r = s
    BY <1>0, <1>1 DEF Send
  <2>2. Out(s) \o data = Out(s)
    BY <1>1, OutIn, Cat
  <2>3. ~IsOpen(s) => ~Full(s)
    BY Fields DEF SockOK, IsOpen, Untouched
  <2>4. Op(s, s)
    BY DEF Op
  <2> QED
    BY <1>0, <2>1, <2>2, <2>3, <2>4
<1>2. CASE data # << >> /\ ~Full(s) /\ (~IsOpen(s) \/ s.reset \/ s.shut)
  <2>1. r = Close(s, TRUE)
    BY <1>0, <1>2 DEF Send, Full
  <2>2. /\ Op(s, r) /\ (~IsOpen(s) => r = s) /\ (IsOpen(s) => r.fd = "closed")
        /\ r.got = s.got /\ r.inbox = s.inbox /\ r.readPaused = s.readPaused /\ r.reset = s.reset
    BY <2>1, CloseOp
  <2>3. IsOpen(s) => s.reset
    BY <1>2 DEF SockOK, IsOpen
  <2>4. ~IsOpen(r)
    BY <2>2 DEF IsOpen
  <2>5. ~Full(r) /\ r.fin = s.fin
    BY <1>2, <2>1 DEF Close, Full
  <2>6. r.writeQueue = s.writeQueue
    BY <1>2, <2>5 DEF Full
  <2> QED
    BY <1>0, <2>2, <2>3, <2>4, <2>5, <2>6
<1>3. CASE data # << >> /\ (Full(s) \/ (IsOpen(s) /\ ~s.reset /\ ~s.shut))
  <2>0. IsOpen(s)
    BY <1>3, Fields DEF SockOK, IsOpen, Untouched
  <2>1. PICK n : n = IF s.writeQueue = << >> THEN Smaller(s.room, Len(data)) ELSE 0
    OBVIOUS
  <2>2. n \in Nat /\ n \in 0 .. Len(data) /\ s.room - n \in Nat
    BY <1>f, <2>1 DEF Smaller
  <2>3. PICK put : put = SubSeq(data, 1, n)
    OBVIOUS
  <2>4. PICK left : left = Rest(data, n)
    OBVIOUS
  <2>5. put \in Seq(Unit) /\ Len(put) = n /\ left \in Seq(Unit) /\ put \o left = data
    BY <2>2, <2>3, <2>4, Splits, RestLen
  <2>6. PICK sent : sent = [s EXCEPT !.got = s.got \o put, !.room = s.room - n]
    OBVIOUS
  <2>7. Transmitted(s, SubSeq(data, 1, n)) = sent
    BY <2>3, <2>5, <2>6 DEF Transmitted
  <2>8. PICK len : len = s.m_len + Len(data) - n
    OBVIOUS
  <2>9. r = IF n = Len(data) THEN sent
            ELSE [sent EXCEPT !.writeQueue = Append(@, left), !.m_len = len,
                              !.readPaused = @ \/ len > BACK_PRESSURE]
    BY <1>0, <1>3, <2>1, <2>4, <2>7, <2>8, Zenon DEF Send, Full
  <2>10. s.got \o put \in Seq(Unit)
    BY <1>f, <2>5, Cat
  <2>11. /\ sent \in Socket /\ sent.status = s.status /\ sent.fd = s.fd
         /\ sent.writeQueue = s.writeQueue /\ sent.pendingClose = s.pendingClose
         /\ sent.readPaused = s.readPaused /\ sent.inbox = s.inbox /\ sent.fin = s.fin
         /\ sent.reset = s.reset /\ sent.room = s.room - n /\ sent.shut = s.shut
         /\ sent.got = s.got \o put /\ sent.m_len = s.m_len
    BY <1>f, <2>2, <2>6, <2>10 DEF Socket
  <2>12. /\ s.status \in {"Connected", "Closing"} /\ s.room <= SendRoom
         /\ (s.shut => Full(s)) /\ (s.pendingClose <=> s.status = "Closing")
         /\ (s.pendingClose => Full(s))
    BY <2>0 DEF SockOK, IsOpen
  <2>13. CASE n = Len(data)
    <3>1. r = sent /\ ~Full(s) /\ left = << >>
      <4>1. Len(left) = 0
        BY <2>2, <2>4, <2>13, RestLen
      <4>2. Len(data) # 0
        BY <1>3
      <4> QED
        BY <2>1, <2>5, <2>9, <2>13, <4>1, <4>2 DEF Full
    <3>2. put = data
      BY <2>5, <3>1, Cat
    <3>3. s.shut = FALSE /\ s.pendingClose = FALSE /\ s.status = "Connected"
      BY <1>f, <2>12, <3>1, Fields
    <3>4. IsOpen(r) /\ ~Full(r) /\ r.status # "Connecting"
      BY <2>0, <2>11, <2>12, <3>1 DEF IsOpen, Full
    <3>5. SockOK(r)
      <4>1. r.room <= SendRoom
        BY <1>f, <2>2, <2>11, <2>12, <3>1, EndpointAssumption
      <4> QED
        BY <2>0, <2>11, <2>12, <3>1, <3>3, <3>4, <4>1 DEF SockOK, IsOpen
    <3>6. Op(s, r)
      BY <2>0, <2>11, <3>1, <3>4, <3>5 DEF Op
    <3>7. Out(r) = Out(s) \o data
      <4>1. Queued(r) = << >> /\ Out(r) = r.got /\ Out(s) = s.got
        BY <3>1, <3>4, <3>5, OutIn
      <4> QED
        BY <2>11, <3>1, <3>2, <4>1
    <3> QED
      BY <1>0, <2>0, <2>11, <3>1, <3>4, <3>6, <3>7 DEF IsOpen
  <2>14. CASE n # Len(data)
    <3>1. r = [sent EXCEPT !.writeQueue = Append(s.writeQueue, left), !.m_len = len,
                           !.readPaused = s.readPaused \/ len > BACK_PRESSURE]
      BY <2>9, <2>11, <2>14
    <3>2. PICK q, paused : q = Append(s.writeQueue, left)
                           /\ paused = (s.readPaused \/ len > BACK_PRESSURE)
      OBVIOUS
    <3>3. q \in Buffers /\ q # << >> /\ FlattenSeq(q) = Queued(s) \o left
      <4>1. q \in Buffers /\ q # << >>
        <5>1. PICK S : S = Seq(Unit)
          OBVIOUS
        <5>2. s.writeQueue \in Seq(S) /\ left \in S
          BY <1>f, <2>5, <5>1 DEF Buffers
        <5>3. q \in Seq(S) /\ q # << >>
          BY <3>2, <5>2, AppendProperties
        <5> QED
          BY <5>1, <5>3 DEF Buffers
      <4>2. FlattenSeq(q) = FlattenSeq(s.writeQueue) \o left
        BY <1>f, <2>5, <3>2, FlattenAppend
      <4> QED
        BY <4>1, <4>2 DEF Queued
    <3>4. paused \in BOOLEAN /\ len \in Int
      BY <1>f, <2>2, <2>8, <3>2
    <3>5. /\ r \in Socket /\ r.status = s.status /\ r.fd = s.fd /\ r.writeQueue = q
          /\ r.pendingClose = s.pendingClose /\ r.inbox = s.inbox /\ r.fin = s.fin
          /\ r.reset = s.reset /\ r.room = s.room - n /\ r.shut = s.shut
          /\ r.got = s.got \o put
      BY <2>11, <3>1, <3>2, <3>3, <3>4, Zenon DEF Socket
    <3>6. IsOpen(r) /\ Full(r) /\ r.status # "Connecting"
      BY <2>0, <2>12, <3>3, <3>5 DEF IsOpen, Full
    <3>7. SockOK(r)
      <4>1. r.room <= SendRoom
        BY <1>f, <2>2, <2>12, <3>5, EndpointAssumption
      <4> QED
        BY <2>0, <2>12, <3>5, <3>6, <4>1 DEF SockOK, IsOpen
    <3>8. Op(s, r)
      BY <2>0, <3>5, <3>6, <3>7 DEF Op
    <3>9. Out(r) = Out(s) \o data
      <4>1. Out(r) = (s.got \o put) \o (Queued(s) \o left)
        BY <3>3, <3>5, Zenon DEF Out, Queued
      <4>2. CASE Full(s)
        <5>1. n = 0
          BY <2>1, <4>2 DEF Full
        <5>2. put = << >> /\ left = data
          <6>1. put = << >>
            BY <2>5, <5>1
          <6> QED
            BY <2>5, <6>1, Cat
        <5>3. s.got \o (Queued(s) \o data) = (s.got \o Queued(s)) \o data
          BY <1>f, Cat, ZenonT(60)
        <5> QED
          BY <1>f, <4>1, <5>2, <5>3, Cat
      <4>3. CASE ~Full(s)
        <5>1. Queued(s) = << >> /\ Out(s) = s.got
          BY <4>3, OutIn
        <5>2. (s.got \o put) \o left = s.got \o (put \o left)
          <6>1. \A u, v, x \in Seq(Unit) : (u \o v) \o x = u \o (v \o x)
            BY Cat, Zenon
          <6> QED
            BY <1>f, <2>5, <6>1, ZenonT(60)
        <5> QED
          BY <2>5, <4>1, <5>1, <5>2, Cat, Zenon
      <4> QED
        BY <4>2, <4>3
    <3>10. ~(~Full(s) /\ Len(data) <= s.room)
      BY <1>f, <2>1, <2>14 DEF Full, Smaller
    <3> QED
      BY <1>0, <2>0, <3>5, <3>6, <3>8, <3>9, <3>10 DEF IsOpen
  <2> QED
    BY <2>13, <2>14
<1> QED
  BY <1>1, <1>2, <1>3

(* onWritable: what leaves the queue is what the peer gets.                *)
Drained(s) == IF ResumesReading(OnWritable(s)) THEN [OnWritable(s) EXCEPT !.readPaused = FALSE]
              ELSE OnWritable(s)

LEMMA WritableOp ==
    ASSUME NEW s, SockOK(s), Writable(s)
    PROVE  LET r == OnWritable(s)
           IN  /\ SockOK(r) /\ (IsOpen(r) \/ r.fd = "closed")
               /\ r.inbox = s.inbox /\ r.reset = s.reset /\ r.fin = s.fin
               /\ r.readPaused = s.readPaused
               /\ IsOpen(r) => r.status = s.status /\ Out(r) = Out(s)
               /\ \E lost \in Seq(Unit) : r.got \o lost = Out(s)
<1>0. PICK r : r = OnWritable(s)
  OBVIOUS
<1>f. /\ s.writeQueue \in Buffers /\ s.room \in Nat /\ s.got \in Seq(Unit) /\ s.m_len \in Int
      /\ s.readPaused \in BOOLEAN /\ s.shut \in BOOLEAN /\ s.reset \in BOOLEAN
      /\ s.pendingClose \in BOOLEAN /\ s \in Socket
      /\ Queued(s) \in Seq(Unit) /\ Out(s) = s.got \o Queued(s)
      /\ IsOpen(s) /\ s.status \in {"Connected", "Closing"} /\ s.room <= SendRoom /\ Full(s)
      /\ (s.pendingClose <=> s.status = "Closing")
  BY Fields, OutIn DEF SockOK, Out, Writable, IsOpen, Full
<1>1. CASE s.reset \/ s.shut
  <2>1. r = Close(s, TRUE)
    BY <1>0, <1>1 DEF OnWritable
  <2>2. SockOK(r) /\ r.fd = "closed" /\ r.got = s.got /\ r.inbox = s.inbox
        /\ r.readPaused = s.readPaused /\ r.reset = s.reset
    BY <1>f, <2>1, CloseOp DEF Op
  <2>3. r.fin = s.fin
    BY <1>f, <2>1 DEF Close
  <2> QED
    BY <1>0, <1>f, <2>2, <2>3 DEF IsOpen
<1>2. CASE ~(s.reset \/ s.shut)
  <2>1. PICK n : n = Smaller(s.room, Len(Queued(s)))
    OBVIOUS
  <2>2. n \in Nat /\ n \in 0 .. Len(Queued(s)) /\ s.room - n \in Nat /\ s.room - n <= SendRoom
    BY <1>f, <2>1, EndpointAssumption DEF Smaller
  <2>3. PICK put : put = SubSeq(Queued(s), 1, n)
    OBVIOUS
  <2>4. PICK q : q = Remaining(s.writeQueue, n)
    OBVIOUS
  <2>5. PICK len : len = s.m_len - Upto(s.writeQueue)[Whole(s.writeQueue, n)]
    OBVIOUS
  <2>6. q \in Buffers /\ len \in Int
    BY <1>f, <2>2, <2>4, <2>5, RemainingIn
  <2>7. put \in Seq(Unit) /\ Len(put) = n /\ put \o FlattenSeq(q) = Queued(s)
        /\ FlattenSeq(q) \in Seq(Unit)
    <3>1. FlattenSeq(q) = Rest(Queued(s), n)
      BY <1>f, <2>2, <2>4, RemainingHolds DEF Queued
    <3> QED
      BY <1>f, <2>2, <2>3, <2>6, <3>1, Splits, FlattenIn, Zenon
  <2>8. PICK t : t = [s EXCEPT !.m_len = len, !.writeQueue = q, !.got = s.got \o put,
                               !.room = s.room - n]
    OBVIOUS
  <2>9. Transmitted(Consumed(s, n), SubSeq(Queued(s), 1, n)) = t
    <3>1. Consumed(s, n) = [s EXCEPT !.m_len = len, !.writeQueue = q]
      BY <1>f, <2>4, <2>5, ConsumedIs, Zenon DEF Socket
    <3>2. PICK c : c = Consumed(s, n)
      OBVIOUS
    <3>3. c.got = s.got /\ c.room = s.room
      BY <1>f, <3>1, <3>2 DEF Socket
    <3>4. [c EXCEPT !.got = c.got \o put, !.room = c.room - n] = t
      BY <1>f, <2>8, <3>1, <3>2, <3>3 DEF Socket
    <3> QED
      BY <2>3, <2>7, <3>2, <3>4 DEF Transmitted
  <2>10. s.got \o put \in Seq(Unit)
    BY <1>f, <2>7, Cat
  <2>11. /\ t \in Socket /\ t.status = s.status /\ t.fd = s.fd /\ t.writeQueue = q
         /\ t.pendingClose = s.pendingClose /\ t.readPaused = s.readPaused
         /\ t.inbox = s.inbox /\ t.fin = s.fin /\ t.reset = s.reset
         /\ t.room = s.room - n /\ t.shut = s.shut /\ t.got = s.got \o put
    BY <1>f, <2>2, <2>6, <2>8, <2>10 DEF Socket
  <2>12. Out(t) = Out(s)
    <3>1. \A u, v, x \in Seq(Unit) : (u \o v) \o x = u \o (v \o x)
      BY Cat, Zenon
    <3>2. (s.got \o put) \o FlattenSeq(q) = s.got \o (put \o FlattenSeq(q))
      BY <1>f, <2>7, <3>1, Zenon
    <3> QED
      BY <1>f, <2>7, <2>11, <3>2 DEF Out, Queued
  <2>13. \E lost \in Seq(Unit) : (s.got \o put) \o lost = Out(s)
    BY <2>7, <2>11, <2>12, Zenon DEF Out, Queued
  <2>14. CASE q = << >> /\ s.pendingClose
    <3>1. r = Close(t, TRUE)
      BY <1>0, <1>2, <2>1, <2>9, <2>11, <2>14 DEF OnWritable
    <3>2. r = [t EXCEPT !.status = "Closed", !.fd = "closed", !.writeQueue = << >>]
      BY <1>f, <2>11, <3>1 DEF Close, IsOpen
    <3>3. << >> \in Buffers
      BY DEF Buffers
    <3>4. /\ r \in Socket /\ r.status = "Closed" /\ r.fd = "closed" /\ r.writeQueue = << >>
          /\ r.inbox = s.inbox /\ r.reset = s.reset /\ r.fin = s.fin
          /\ r.readPaused = s.readPaused /\ r.got = s.got \o put /\ r.room = s.room - n
      BY <2>11, <3>2, <3>3, Zenon DEF Socket, Statuses
    <3>5. SockOK(r)
      BY <2>2, <3>4 DEF SockOK, Full
    <3> QED
      BY <1>0, <2>13, <3>4, <3>5, Zenon DEF IsOpen
  <2>15. CASE ~(q = << >> /\ s.pendingClose)
    <3>1. r = t
      BY <1>0, <1>2, <2>1, <2>9, <2>11, <2>15, Zenon DEF OnWritable
    <3>2. SockOK(r)
      BY <1>f, <1>2, <2>2, <2>11, <2>15, <3>1 DEF SockOK, IsOpen, Full
    <3> QED
      BY <1>0, <1>f, <2>11, <2>12, <2>13, <3>1, <3>2, Zenon DEF IsOpen
  <2> QED
    BY <2>14, <2>15
<1> QED
  BY <1>1, <1>2

LEMMA DrainedOp ==
    ASSUME NEW s, SockOK(s), Writable(s)
    PROVE  LET r == Drained(s)
           IN  /\ Op(s, r) /\ r.inbox = s.inbox /\ r.reset = s.reset /\ r.fin = s.fin
               /\ IsOpen(r) => r.status = s.status /\ Out(r) = Out(s)
               /\ ~IsOpen(r) => r = OnWritable(s)
               /\ IsOpen(r) <=> IsOpen(OnWritable(s))
               /\ \E lost \in Seq(Unit) : r.got \o lost = Out(s)
               /\ r.readPaused => s.readPaused
<1>1. PICK t : t = OnWritable(s)
  OBVIOUS
<1>2. /\ SockOK(t) /\ (IsOpen(t) \/ t.fd = "closed") /\ t.inbox = s.inbox
      /\ t.reset = s.reset /\ t.fin = s.fin /\ t.readPaused = s.readPaused
      /\ (IsOpen(t) => t.status = s.status /\ Out(t) = Out(s))
      /\ \E lost \in Seq(Unit) : t.got \o lost = Out(s)
  BY <1>1, WritableOp
<1>3. PICK r : r = Drained(s)
  OBVIOUS
<1>4. IsOpen(s)
  BY DEF Writable
<1>5. CASE ResumesReading(t)
  <2>1. r = [t EXCEPT !.readPaused = FALSE]
    BY <1>1, <1>3, <1>5 DEF Drained
  <2>2. /\ r \in Socket /\ r.status = t.status /\ r.fd = t.fd /\ r.writeQueue = t.writeQueue
        /\ r.pendingClose = t.pendingClose /\ r.readPaused = FALSE /\ r.inbox = t.inbox
        /\ r.fin = t.fin /\ r.reset = t.reset /\ r.room = t.room /\ r.shut = t.shut
        /\ r.got = t.got
    BY <1>2, <2>1 DEF SockOK, Socket
  <2>3. SockOK(r)
    BY <1>2, <2>2 DEF SockOK, Full, Untouched
  <2>4. Out(r) = Out(t)
    BY <2>2 DEF Out, Queued
  <2>5. IsOpen(t) /\ IsOpen(r)
    BY <1>5, <2>2 DEF ResumesReading, IsOpen
  <2>6. Op(s, r)
    BY <1>2, <1>4, <2>2, <2>3, <2>5 DEF Op
  <2> QED
    BY <1>1, <1>2, <1>3, <2>2, <2>4, <2>5, <2>6
<1>6. CASE ~ResumesReading(t)
  <2>1. r = t
    BY <1>1, <1>3, <1>6 DEF Drained
  <2>2. IsOpen(t) => Full(t)
    BY <1>6 DEF ResumesReading, Full
  <2>3. Op(s, r)
    BY <1>2, <1>4, <2>1, <2>2 DEF Op
  <2> QED
    BY <1>1, <1>2, <1>3, <2>1, <2>3
<1> QED
  BY <1>5, <1>6

LEMMA FinishedOp ==
    ASSUME NEW s, SockOK(s), Finished(s)
    PROVE  LET r == OnFinished(s)
           IN  /\ Op(s, r) /\ r.inbox = s.inbox /\ r.reset = s.reset /\ r.fin = s.fin
               /\ r.got = s.got /\ (IsOpen(r) => Out(r) = Out(s))
               /\ r.readPaused = s.readPaused /\ r.room = s.room
               /\ ~Full(s) => r.fd = "closed"
<1>1. PICK r : r = OnFinished(s)
  OBVIOUS
<1>f. /\ IsOpen(s) /\ s.fin = TRUE /\ s \in Socket /\ s.status \in {"Connected", "Closing"}
      /\ s.room <= SendRoom /\ (s.shut => Full(s))
  BY Fields DEF SockOK, Finished, IsOpen, Untouched
<1>2. CASE s.writeQueue = << >>
  <2>1. r = Close(s, TRUE)
    BY <1>1, <1>2 DEF OnFinished
  <2>2. /\ Op(s, r) /\ r.got = s.got /\ r.inbox = s.inbox /\ r.reset = s.reset
        /\ r.fd = "closed" /\ r.readPaused = s.readPaused /\ r.room = s.room
    BY <1>f, <2>1, CloseOp
  <2>3. r.fin = s.fin
    BY <1>f, <2>1 DEF Close
  <2> QED
    BY <1>1, <2>2, <2>3 DEF IsOpen
<1>3. CASE s.writeQueue # << >>
  <2>1. r = [s EXCEPT !.pendingClose = TRUE, !.status = "Closing"]
    BY <1>1, <1>3 DEF OnFinished
  <2>2. /\ r \in Socket /\ r.status = "Closing" /\ r.fd = s.fd /\ r.pendingClose = TRUE
        /\ r.writeQueue = s.writeQueue /\ r.shut = s.shut
        /\ r.room = s.room /\ r.got = s.got /\ r.inbox = s.inbox /\ r.reset = s.reset
        /\ r.readPaused = s.readPaused /\ r.fin = s.fin
    BY <1>f, <2>1 DEF Socket, Statuses
  <2>3. SockOK(r)
    BY <1>f, <1>3, <2>2 DEF SockOK, IsOpen, Full
  <2>4. Op(s, r)
    BY <1>f, <1>3, <2>2, <2>3 DEF Op, IsOpen, Full
  <2> QED
    BY <1>1, <1>3, <2>2, <2>4 DEF Out, Queued, Full
<1> QED
  BY <1>2, <1>3

(* What the peer and the arrival of data change: nothing of status, of the *)
(* descriptor and of the queue.                                            *)
Beneath(was, s) ==
    /\ SockOK(s) /\ s.fd = was.fd /\ s.status = was.status /\ s.writeQueue = was.writeQueue
    /\ s.readPaused = was.readPaused /\ s.got = was.got /\ (was.reset => s.reset)
    /\ s.room = was.room \/ was.room # SendRoom

LEMMA ReadOp ==
    ASSUME NEW s, SockOK(s), MayRead(s), NEW n \in 1 .. Len(s.inbox)
    PROVE  LET r == Read(s, n)
           IN  /\ Beneath(s, r) /\ r.inbox = Rest(s.inbox, n) /\ r.reset = s.reset
               /\ r.room = s.room /\ r.fin = s.fin
               /\ SubSeq(s.inbox, 1, n) \in Seq(Unit) /\ SubSeq(s.inbox, 1, n) # << >>
               /\ SubSeq(s.inbox, 1, n) \o Rest(s.inbox, n) = s.inbox
               /\ Rest(s.inbox, n) \in Seq(Unit)
               /\ IsOpen(s) /\ s.status # "Connecting" /\ ~s.reset
<1>f. /\ IsOpen(s) /\ s.inbox # << >> /\ s \in Socket /\ s.status # "Connecting"
      /\ s.inbox \in Seq(Unit)
  BY Fields DEF SockOK, MayRead, IsOpen, Untouched
<1>1. n \in 0 .. Len(s.inbox) /\ n \in Nat
  BY <1>f
<1>2. PICK r, left : r = Read(s, n) /\ left = Rest(s.inbox, n)
  OBVIOUS
<1>3. /\ left \in Seq(Unit) /\ SubSeq(s.inbox, 1, n) \in Seq(Unit)
      /\ Len(SubSeq(s.inbox, 1, n)) = n /\ SubSeq(s.inbox, 1, n) \o left = s.inbox
  BY <1>f, <1>1, <1>2, Splits, RestLen
<1>4. r = [s EXCEPT !.inbox = left]
  BY <1>2, <1>f DEF Read, Socket
<1>5. /\ r \in Socket /\ r.status = s.status /\ r.fd = s.fd /\ r.writeQueue = s.writeQueue
      /\ r.pendingClose = s.pendingClose /\ r.readPaused = s.readPaused /\ r.inbox = left
      /\ r.fin = s.fin /\ r.reset = s.reset /\ r.room = s.room /\ r.shut = s.shut
      /\ r.got = s.got
  BY <1>f, <1>3, <1>4 DEF Socket
<1>6. SockOK(r)
  BY <1>f, <1>5 DEF SockOK, Full, IsOpen
<1>7. SubSeq(s.inbox, 1, n) # << >>
  <2>1. PICK x : x = SubSeq(s.inbox, 1, n)
    OBVIOUS
  <2>2. Len(x) # 0
    BY <1>3, <2>1
  <2> QED
    BY <2>1, <2>2
<1> QED
  BY <1>2, <1>f, <1>3, <1>5, <1>6, <1>7 DEF Beneath, MayRead

LEMMA PeerOps ==
    ASSUME NEW s, SockOK(s)
    PROVE  /\ PeerMaySend(s) => Beneath(s, PeerFinished(s))
           /\ PeerMayTake(s) => Beneath(s, Taken(s))
           /\ \A units \in Seq(Unit) : PeerMaySend(s) => Beneath(s, Arrived(s, units))
           /\ Connection(s) \/ InHandshake(s) => Beneath(s, PeerReset(s))
<1>f. /\ s \in Socket /\ s.room \in Nat /\ s.inbox \in Seq(Unit) /\ s.reset \in BOOLEAN
      /\ s.room <= SendRoom /\ SendRoom \in Nat
  BY Fields, EndpointAssumption DEF SockOK
<1>1. ASSUME PeerMaySend(s) PROVE Beneath(s, PeerFinished(s))
  <2>1. IsOpen(s) /\ s.status # "Connecting"
    BY <1>1 DEF PeerMaySend, Connection
  <2>2. PICK r : r = PeerFinished(s)
    OBVIOUS
  <2>3. /\ r \in Socket /\ r.status = s.status /\ r.fd = s.fd /\ r.writeQueue = s.writeQueue
        /\ r.pendingClose = s.pendingClose /\ r.readPaused = s.readPaused
        /\ r.reset = s.reset /\ r.room = s.room /\ r.shut = s.shut /\ r.got = s.got
    BY <1>f, <2>2 DEF Socket, PeerFinished
  <2> QED
    BY <1>f, <2>1, <2>2, <2>3 DEF SockOK, Full, IsOpen, Beneath
<1>2. ASSUME PeerMayTake(s) PROVE Beneath(s, Taken(s))
  <2>1. IsOpen(s) /\ s.status # "Connecting" /\ s.room < SendRoom
    BY <1>2 DEF PeerMayTake, Connection
  <2>2. PICK r : r = Taken(s)
    OBVIOUS
  <2>3. /\ r \in Socket /\ r.status = s.status /\ r.fd = s.fd /\ r.writeQueue = s.writeQueue
        /\ r.pendingClose = s.pendingClose /\ r.readPaused = s.readPaused
        /\ r.reset = s.reset /\ r.room = s.room + 1 /\ r.shut = s.shut /\ r.got = s.got
    BY <1>f, <2>2 DEF Socket, Taken
  <2>4. r.room <= SendRoom
    BY <1>f, <2>1, <2>3
  <2> QED
    BY <1>f, <2>1, <2>2, <2>3, <2>4 DEF SockOK, Full, IsOpen, Beneath
<1>3. ASSUME NEW units \in Seq(Unit), PeerMaySend(s) PROVE Beneath(s, Arrived(s, units))
  <2>1. IsOpen(s) /\ s.status # "Connecting"
    BY <1>3 DEF PeerMaySend, Connection
  <2>2. PICK r, inbox : r = Arrived(s, units) /\ inbox = s.inbox \o units
    OBVIOUS
  <2>3. inbox \in Seq(Unit) /\ r = [s EXCEPT !.inbox = inbox]
    BY <1>f, <2>2, Cat DEF Arrived, Socket
  <2>4. /\ r \in Socket /\ r.status = s.status /\ r.fd = s.fd /\ r.writeQueue = s.writeQueue
        /\ r.pendingClose = s.pendingClose /\ r.readPaused = s.readPaused
        /\ r.reset = s.reset /\ r.room = s.room /\ r.shut = s.shut /\ r.got = s.got
    BY <1>f, <2>3 DEF Socket
  <2> QED
    BY <1>f, <2>1, <2>2, <2>4 DEF SockOK, Full, IsOpen, Beneath
<1>4. ASSUME Connection(s) \/ InHandshake(s) PROVE Beneath(s, PeerReset(s))
  <2>1. IsOpen(s)
    BY <1>4 DEF Connection, InHandshake
  <2>2. PICK r : r = PeerReset(s)
    OBVIOUS
  <2>3. << >> \in Seq(Unit)
    OBVIOUS
  <2>4. /\ r \in Socket /\ r.status = s.status /\ r.fd = s.fd /\ r.writeQueue = s.writeQueue
        /\ r.pendingClose = s.pendingClose /\ r.readPaused = s.readPaused /\ r.inbox = << >>
        /\ r.fin = s.fin
        /\ r.reset = TRUE /\ r.room = s.room /\ r.shut = s.shut /\ r.got = s.got
    BY <1>f, <2>2, <2>3 DEF Socket, PeerReset
  <2> QED
    BY <1>f, <2>1, <2>2, <2>4 DEF SockOK, Full, IsOpen, Beneath, Untouched
<1> QED
  BY <1>1, <1>2, <1>3, <1>4

-----------------------------------------------------------------------------
(* The two sockets of a proxy: both paused for the same cause, neither     *)
(* outlives the other.  o says whether the client left too early.          *)
PausePair(a, c) ==
    /\ IsOpen(a) /\ IsOpen(c) => /\ a.readPaused = c.readPaused
                                 /\ a.readPaused => Full(a) \/ Full(c)
    /\ IsOpen(a) /\ ~IsOpen(c) /\ a.readPaused => Full(a)
    /\ IsOpen(c) /\ ~IsOpen(a) /\ c.readPaused => Full(c)
EndPair(a, c, o) ==
    /\ a.fd = "closed" /\ IsOpen(c) => Failing(c) \/ o
    /\ c.fd = "closed" /\ IsOpen(a) => Failing(a) \/ o
Couple(a, c, o) == SockOK(a) /\ SockOK(c) /\ PausePair(a, c) /\ EndPair(a, c, o)

(* What With makes of the other socket, c, when a has become s.            *)
Coupled(a, s, c) ==
    CASE s.status = "Closed" /\ a.fd = "open" -> Close(c, FALSE)
      [] s.status # "Closed" /\ s.readPaused # a.readPaused ->
            [c EXCEPT !.readPaused = s.readPaused]
      [] OTHER -> c

Beside(was, s) ==
    /\ SockOK(s) /\ s.got = was.got /\ s.inbox = was.inbox /\ s.reset = was.reset
    /\ s.room = was.room
    /\ s.fd = was.fd \/ (IsOpen(was) /\ s.fd = "closed")
    /\ IsOpen(s) => s.status \in {was.status, "Closing"}
    /\ IsOpen(s) => s.writeQueue = was.writeQueue
    /\ s.fd = "none" => s.status = was.status

LEMMA CoupleOp ==
    ASSUME NEW a, NEW c, NEW o \in BOOLEAN, Couple(a, c, o), NEW s, Op(a, s)
    PROVE  /\ Couple(s, Coupled(a, s, c), o) /\ Beside(c, Coupled(a, s, c))
           /\ Coupled(a, s, c).readPaused \in {c.readPaused, s.readPaused}
           /\ s.readPaused = a.readPaused => Coupled(a, s, c).readPaused = c.readPaused
<1>1. PICK d : d = Coupled(a, s, c)
  OBVIOUS
<1>f. SockOK(a) /\ SockOK(c) /\ SockOK(s)
  BY DEF Couple, Op
<1>2. CASE s.status = "Closed" /\ a.fd = "open"
  <2>1. d = Close(c, FALSE)
    BY <1>1, <1>2 DEF Coupled
  <2>2. s.fd = "closed" /\ ~IsOpen(s)
    BY <1>2, <1>f DEF Op, IsOpen, SockOK
  <2>3. /\ Op(c, d) /\ (~IsOpen(c) => d = c) /\ (IsOpen(d) => d.status = "Closing")
        /\ d.got = c.got /\ d.inbox = c.inbox /\ d.readPaused = c.readPaused
        /\ d.reset = c.reset /\ d.room = c.room
        /\ (IsOpen(c) /\ ~Full(c) => d.fd = "closed")
        /\ (IsOpen(d) => d.writeQueue = c.writeQueue)
    BY <1>f, <2>1, CloseOp
  <2>4. Beside(c, d)
    BY <2>3 DEF Beside, Op, IsOpen
  <2>5. IsOpen(d) => Full(d) /\ Failing(d)
    BY <2>3 DEF Full, Failing, IsOpen
  <2>6. Couple(s, d, o)
    BY <1>f, <2>2, <2>3, <2>5 DEF Couple, PausePair, EndPair, Op, IsOpen
  <2> QED
    BY <1>1, <2>3, <2>4, <2>6
<1>3. CASE s.status # "Closed" /\ s.readPaused # a.readPaused
  <2>1. d = [c EXCEPT !.readPaused = s.readPaused]
    BY <1>1, <1>3 DEF Coupled
  <2>2. IsOpen(s) /\ IsOpen(a)
    BY <1>3, <1>f DEF Op, IsOpen, SockOK
  <2>3. /\ d \in Socket /\ d.status = c.status /\ d.fd = c.fd /\ d.writeQueue = c.writeQueue
        /\ d.pendingClose = c.pendingClose /\ d.readPaused = s.readPaused /\ d.inbox = c.inbox
        /\ d.fin = c.fin /\ d.reset = c.reset /\ d.room = c.room /\ d.shut = c.shut
        /\ d.got = c.got
    BY <1>f, <2>1, Fields DEF SockOK, Socket
  <2>4. SockOK(d)
    BY <1>f, <2>3 DEF SockOK, Full, Untouched
  <2>5. Beside(c, d)
    BY <2>3, <2>4 DEF Beside
  <2>6. s.readPaused => Full(s)
    BY <1>3, <1>f, <2>2, Fields DEF Op
  <2>7. PausePair(s, d)
    BY <2>2, <2>3, <2>6 DEF PausePair, IsOpen
  <2>8. EndPair(s, d, o)
    BY <2>2, <2>3 DEF EndPair, Couple, Op, IsOpen, Failing
  <2> QED
    BY <1>f, <1>1, <1>3, <2>3, <2>4, <2>5, <2>7, <2>8 DEF Couple
<1>4. CASE ~(s.status = "Closed" /\ a.fd = "open")
           /\ ~(s.status # "Closed" /\ s.readPaused # a.readPaused)
  <2>1. d = c
    BY <1>1, <1>4 DEF Coupled
  <2>2. Beside(c, d)
    BY <1>f, <2>1 DEF Beside
  <2>3. CASE ~IsOpen(a)
    <3>1. s = a
      BY <2>3 DEF Op
    <3> QED
      BY <1>1, <2>1, <2>2, <3>1
  <2>4. CASE IsOpen(a)
    <3>1. IsOpen(s) /\ s.readPaused = a.readPaused
      BY <1>4, <1>f, <2>4 DEF Op, IsOpen, SockOK
    <3>2. PausePair(s, d)
      BY <2>1, <2>4, <3>1 DEF PausePair, Couple, Op, Full
    <3>3. EndPair(s, d, o)
      BY <2>1, <2>4, <3>1 DEF EndPair, Couple, Op, IsOpen, Failing
    <3> QED
      BY <1>f, <1>1, <2>1, <2>2, <3>2, <3>3 DEF Couple
  <2> QED
    BY <2>3, <2>4
<1> QED
  BY <1>2, <1>3, <1>4

LEMMA CoupleEither ==
    ASSUME NEW a, NEW c, NEW o
    PROVE  Couple(a, c, o) <=> Couple(c, a, o)
  BY DEF Couple, PausePair, EndPair

LEMMA CoupleBeneath ==
    ASSUME NEW a, NEW c, NEW o, Couple(a, c, o), NEW s, Beneath(a, s)
    PROVE  Couple(s, c, o)
  BY DEF Couple, PausePair, EndPair, Beneath, IsOpen, Failing, Full

-----------------------------------------------------------------------------
(* The proxy.                                                              *)
States == {"Greeting", "Request", "Connecting", "Connected", "Error"}
ProxyObjs == [program : {"proxy"}, client : Clients, acceptor : Socket, connector : Socket,
              state : States, clientBuffer : Seq(Unit), connectorBuffer : Seq(Unit)]

Linked(w, o) == /\ w \in ProxyObjs /\ o \in BOOLEAN
                /\ Couple(w.acceptor, w.connector, o)
                /\ w.acceptor.fd # "none" /\ w.acceptor.status # "Connecting"

NonePaused(w) == ~w.acceptor.readPaused /\ ~w.connector.readPaused
Unasked(w) == w.connector.fd = "none" /\ w.connector.status = "Ready" /\ NonePaused(w)

(* How far the handshake is tells what there is of the other connection:   *)
(* nothing was queued, and so nothing paused, before there are two.        *)
ProxyPhase(w) ==
    /\ w.state = "Greeting" => /\ Unasked(w)
                               /\ ~Full(w.acceptor) /\ w.acceptor.room = SendRoom
    /\ w.state = "Request" => Unasked(w)
    /\ w.state = "Connecting" => /\ w.connector.status # "Ready"
                                 /\ InLookup(w.connector) => NonePaused(w)
    /\ w.state = "Connected" => w.connector.fd # "none"
    /\ w.state = "Error" => w.connector.fd = "none"

ProxyOK(w, o) == Linked(w, o) /\ ProxyPhase(w)

LEMMA TwoSides ==
    /\ Sides = {"acceptor", "connector"}
    /\ Other("acceptor") = "connector" /\ Other("connector") = "acceptor"
  BY DEF Sides, Other

LEMMA ProxyFields ==
    ASSUME NEW w, NEW o, Linked(w, o)
    PROVE  /\ SockOK(w.acceptor) /\ SockOK(w.connector) /\ w.acceptor \in Socket
           /\ w.connector \in Socket /\ w.state \in States /\ w.client \in Clients
           /\ w.clientBuffer \in Seq(Unit) /\ w.connectorBuffer \in Seq(Unit)
           /\ w["acceptor"] = w.acceptor /\ w["connector"] = w.connector
           /\ w.acceptor.fd \in {"open", "closed"} /\ w.acceptor.status # "Connecting"
           /\ o \in BOOLEAN /\ w \in ProxyObjs
<1>1. SockOK(w.acceptor) /\ SockOK(w.connector)
  BY DEF Linked, Couple
<1>2. w.acceptor.fd \in {"open", "closed"}
  BY <1>1, Fields DEF Linked
<1> QED
  BY <1>1, <1>2 DEF Linked, ProxyObjs

LEMMA WithAcceptor ==
    ASSUME NEW w \in ProxyObjs, NEW s \in Socket, Coupled(w.acceptor, s, w.connector) \in Socket
    PROVE  LET r == With(w, "acceptor", s)
           IN  /\ r \in ProxyObjs /\ r.acceptor = s
               /\ r.connector = Coupled(w.acceptor, s, w.connector)
               /\ r.state = w.state /\ r.client = w.client
               /\ r.clientBuffer = w.clientBuffer /\ r.connectorBuffer = w.connectorBuffer
<1>1. PICK c : c = Coupled(w.acceptor, s, w.connector)
  OBVIOUS
<1>2. With(w, "acceptor", s) = [w EXCEPT !["acceptor"] = s, !["connector"] = c]
  BY <1>1, TwoSides DEF With, Coupled, ProxyObjs
<1> QED
  BY <1>1, <1>2 DEF ProxyObjs

LEMMA WithConnector ==
    ASSUME NEW w \in ProxyObjs, NEW s \in Socket, Coupled(w.connector, s, w.acceptor) \in Socket
    PROVE  LET r == With(w, "connector", s)
           IN  /\ r \in ProxyObjs /\ r.connector = s
               /\ r.acceptor = Coupled(w.connector, s, w.acceptor)
               /\ r.state = w.state /\ r.client = w.client
               /\ r.clientBuffer = w.clientBuffer /\ r.connectorBuffer = w.connectorBuffer
<1>1. PICK c : c = Coupled(w.connector, s, w.acceptor)
  OBVIOUS
<1>2. With(w, "connector", s) = [w EXCEPT !["connector"] = s, !["acceptor"] = c]
  BY <1>1, TwoSides DEF With, Coupled, ProxyObjs
<1> QED
  BY <1>1, <1>2 DEF ProxyObjs

Rests(w, r) == /\ r.state = w.state /\ r.client = w.client
               /\ r.clientBuffer = w.clientBuffer /\ r.connectorBuffer = w.connectorBuffer

(* A call on the acceptor, with its callbacks.                             *)
LEMMA OnAcceptor ==
    ASSUME NEW w, NEW o, Linked(w, o), NEW s, Op(w.acceptor, s)
    PROVE  LET r == With(w, "acceptor", s)
           IN  /\ Linked(r, o) /\ Rests(w, r) /\ r.acceptor = s
               /\ Beside(w.connector, r.connector)
               /\ r.connector.readPaused \in {w.connector.readPaused, s.readPaused}
               /\ s.readPaused = w.acceptor.readPaused =>
                     r.connector.readPaused = w.connector.readPaused
<1>1. PICK c : c = Coupled(w.acceptor, s, w.connector)
  OBVIOUS
<1>2. w \in ProxyObjs /\ o \in BOOLEAN /\ Couple(w.acceptor, w.connector, o)
  BY DEF Linked
<1>3. /\ Couple(s, c, o) /\ Beside(w.connector, c)
      /\ c.readPaused \in {w.connector.readPaused, s.readPaused}
      /\ (s.readPaused = w.acceptor.readPaused => c.readPaused = w.connector.readPaused)
  BY <1>1, <1>2, CoupleOp
<1>4. s \in Socket /\ c \in Socket
  BY <1>3 DEF Couple, SockOK
<1>5. PICK r : r = With(w, "acceptor", s)
  OBVIOUS
<1>6. r \in ProxyObjs /\ r.acceptor = s /\ r.connector = c /\ Rests(w, r)
  BY <1>1, <1>2, <1>4, <1>5, WithAcceptor DEF Rests
<1>7. s.fd # "none" /\ s.status # "Connecting"
  <2>1. CASE IsOpen(s)
    BY <2>1 DEF Op, IsOpen, Linked
  <2>2. CASE ~IsOpen(s) /\ IsOpen(w.acceptor)
    BY <2>2 DEF Op, SockOK
  <2>3. CASE ~IsOpen(w.acceptor)
    BY <2>3 DEF Op, Linked
  <2> QED
    BY <2>1, <2>2, <2>3
<1>8. Linked(r, o)
  BY <1>2, <1>3, <1>6, <1>7 DEF Linked
<1> QED
  BY <1>3, <1>5, <1>6, <1>8

LEMMA OnConnector ==
    ASSUME NEW w, NEW o, Linked(w, o), NEW s, Op(w.connector, s)
    PROVE  LET r == With(w, "connector", s)
           IN  /\ Linked(r, o) /\ Rests(w, r) /\ r.connector = s
               /\ Beside(w.acceptor, r.acceptor)
               /\ r.acceptor.readPaused \in {w.acceptor.readPaused, s.readPaused}
<1>1. PICK c : c = Coupled(w.connector, s, w.acceptor)
  OBVIOUS
<1>2. w \in ProxyObjs /\ o \in BOOLEAN /\ Couple(w.connector, w.acceptor, o)
  BY CoupleEither DEF Linked
<1>3. /\ Couple(s, c, o) /\ Beside(w.acceptor, c)
      /\ c.readPaused \in {w.acceptor.readPaused, s.readPaused}
  BY <1>1, <1>2, CoupleOp
<1>4. s \in Socket /\ c \in Socket
  BY <1>3 DEF Couple, SockOK
<1>5. PICK r : r = With(w, "connector", s)
  OBVIOUS
<1>6. r \in ProxyObjs /\ r.connector = s /\ r.acceptor = c /\ Rests(w, r)
  BY <1>1, <1>2, <1>4, <1>5, WithConnector DEF Rests
<1>7. c.fd # "none" /\ c.status # "Connecting"
  BY <1>3, Fields DEF Beside, Linked, SockOK, IsOpen
<1>8. Couple(c, s, o)
  BY <1>3, CoupleEither
<1>9. Linked(r, o)
  BY <1>2, <1>6, <1>7, <1>8 DEF Linked
<1> QED
  BY <1>3, <1>5, <1>6, <1>9

LEMMA OneUnit ==
    ASSUME NEW u \in Unit
    PROVE  <<u>> \in Seq(Unit) /\ Len(<<u>>) = 1 /\ <<u>> # << >>
  OBVIOUS

LEMMA UnitNames ==
    /\ <<"error">> \in Seq(Unit) /\ <<"success">> \in Seq(Unit) /\ <<"method">> \in Seq(Unit)
    /\ <<"noMethod">> \in Seq(Unit)
    /\ Len(<<"error">>) = 1 /\ Len(<<"success">>) = 1 /\ Len(<<"method">>) = 1
    /\ Len(<<"noMethod">>) = 1
<1>1. "error" \in Unit /\ "success" \in Unit /\ "method" \in Unit /\ "noMethod" \in Unit
  BY DEF Unit
<1>2. <<"error">> \in Seq(Unit) /\ Len(<<"error">>) = 1
  BY <1>1, OneUnit
<1>3. <<"success">> \in Seq(Unit) /\ Len(<<"success">>) = 1
  BY <1>1, OneUnit
<1>4. <<"method">> \in Seq(Unit) /\ Len(<<"method">>) = 1
  BY <1>1, OneUnit
<1>5. <<"noMethod">> \in Seq(Unit) /\ Len(<<"noMethod">>) = 1
  BY <1>1, OneUnit
<1> QED
  BY <1>2, <1>3, <1>4, <1>5

LEMMA StateSet ==
    ASSUME NEW w, NEW o, Linked(w, o), NEW state \in States
    PROVE  LET r == [w EXCEPT !.state = state]
           IN  /\ Linked(r, o) /\ r.state = state /\ r.acceptor = w.acceptor
               /\ r.connector = w.connector /\ r.client = w.client
               /\ r.clientBuffer = w.clientBuffer /\ r.connectorBuffer = w.connectorBuffer
  BY DEF Linked, ProxyObjs

LEMMA BuffersSet ==
    ASSUME NEW w, NEW o, Linked(w, o), NEW b \in Seq(Unit)
    PROVE  /\ LET r == [w EXCEPT !.clientBuffer = b]
              IN  /\ Linked(r, o) /\ r.state = w.state /\ r.acceptor = w.acceptor
                  /\ r.connector = w.connector /\ r.client = w.client
                  /\ r.clientBuffer = b /\ r.connectorBuffer = w.connectorBuffer
           /\ LET r == [w EXCEPT !.connectorBuffer = b]
              IN  /\ Linked(r, o) /\ r.state = w.state /\ r.acceptor = w.acceptor
                  /\ r.connector = w.connector /\ r.client = w.client
                  /\ r.clientBuffer = w.clientBuffer /\ r.connectorBuffer = b
  BY DEF Linked, ProxyObjs

(* An answer that ends the handshake: the client hears of it and the       *)
(* connection is closed, or closes once the answer is out.                 *)
LEMMA AnswerAndClose ==
    ASSUME NEW w, NEW o, Linked(w, o), NEW data \in Seq(Unit), NEW force \in BOOLEAN
    PROVE  LET r == CloseIt(SendOn(w, "acceptor", data), "acceptor", force)
           IN  /\ Linked(r, o) /\ Rests(w, r)
               /\ w.connector.fd = "none" => /\ r.connector.fd = "none"
                                             /\ r.connector.status = w.connector.status
<1>1. PICK s : s = Send(w.acceptor, data)
  OBVIOUS
<1>2. Op(w.acceptor, s)
  BY <1>1, ProxyFields, SendOp
<1>3. PICK v : v = SendOn(w, "acceptor", data)
  OBVIOUS
<1>4. v = With(w, "acceptor", s)
  BY <1>1, <1>3, ProxyFields DEF SendOn
<1>5. Linked(v, o) /\ Rests(w, v) /\ Beside(w.connector, v.connector)
  BY <1>2, <1>4, OnAcceptor
<1>6. PICK t : t = Close(v.acceptor, force)
  OBVIOUS
<1>7. Op(v.acceptor, t)
  BY <1>5, <1>6, ProxyFields, CloseOp
<1>8. PICK r : r = CloseIt(v, "acceptor", force)
  OBVIOUS
<1>9. r = With(v, "acceptor", t)
  BY <1>5, <1>6, <1>8, ProxyFields DEF CloseIt
<1>10. Linked(r, o) /\ Rests(v, r) /\ Beside(v.connector, r.connector)
  BY <1>5, <1>7, <1>9, OnAcceptor
<1>11. w.connector.fd = "none" => r.connector.fd = "none" /\ r.connector.status = w.connector.status
  BY <1>5, <1>10 DEF Beside, IsOpen
<1> QED
  BY <1>3, <1>5, <1>8, <1>10, <1>11 DEF Rests

LEMMA FailOK ==
    ASSUME NEW w, NEW o, Linked(w, o), w.connector.fd = "none", NEW force \in BOOLEAN
    PROVE  LET r == Fail(w, force)
           IN  /\ ProxyOK(r, o) /\ r.state = "Error" /\ r.connector.fd = "none"
               /\ r.connector.status = w.connector.status
<1>1. PICK v : v = [w EXCEPT !.state = "Error"]
  OBVIOUS
<1>2. Linked(v, o) /\ v.state = "Error" /\ v.connector = w.connector
  BY <1>1, StateSet DEF States
<1>3. PICK r : r = Fail(w, force)
  OBVIOUS
<1>4. r = CloseIt(SendOn(v, "acceptor", <<"error">>), "acceptor", force)
  BY <1>1, <1>3 DEF Fail
<1>5. PICK data \in Seq(Unit) : data = <<"error">>
  BY UnitNames
<1>6. PICK x : x = CloseIt(SendOn(v, "acceptor", data), "acceptor", force)
  OBVIOUS
<1>7. /\ Linked(x, o) /\ Rests(v, x)
      /\ v.connector.fd = "none" => /\ x.connector.fd = "none"
                                    /\ x.connector.status = v.connector.status
  BY <1>2, <1>6, AnswerAndClose
<1>8. x = r
  BY <1>4, <1>5, <1>6
<1>9. /\ Linked(r, o) /\ r.state = "Error" /\ r.connector.fd = "none"
      /\ r.connector.status = w.connector.status
  BY <1>2, <1>7, <1>8 DEF Rests
<1> QED
  BY <1>3, <1>9 DEF ProxyOK, ProxyPhase

(* While the handshake lasts nothing goes on without the client.           *)
Fresh(w) == w.state \in {"Greeting", "Request"} => IsOpen(w.acceptor) /\ ~w.acceptor.reset

LEMMA TwoLess ==
    ASSUME NEW b \in Seq(Unit)
    PROVE  Rest(b, 2) \in Seq(Unit)
  BY RestIn

LEMMA GreetingOK ==
    ASSUME NEW w, NEW o, ProxyOK(w, o), Fresh(w), w.state = "Greeting"
    PROVE  ProxyOK(ProcessGreeting(w), o) /\ Fresh(ProcessGreeting(w))
<1>1. PICK r : r = ProcessGreeting(w)
  OBVIOUS
<1>f. Linked(w, o) /\ Unasked(w) /\ ~Full(w.acceptor) /\ w.acceptor.room = SendRoom
  BY DEF ProxyOK, ProxyPhase
<1>g. w.clientBuffer \in Seq(Unit) /\ Len(w.clientBuffer) \in Nat
  BY <1>f, ProxyFields
<1>2. CASE Len(w.clientBuffer) < 2
  <2>1. ~(Len(w.clientBuffer) >= 2)
    BY <1>2, <1>g
  <2>2. r = w
    BY <1>1, <1>2, <2>1 DEF ProcessGreeting
  <2> QED
    BY <1>1, <2>2
<1>3. CASE ~(Len(w.clientBuffer) < 2) /\ w.client = "oldVersion"
  <2>0. Len(w.clientBuffer) >= 2
    BY <1>3, <1>g
  <2>1. r = Fail(w, FALSE)
    BY <1>1, <1>3, <2>0 DEF ProcessGreeting
  <2> QED
    BY <1>1, <1>f, <2>1, FailOK DEF Unasked, Fresh
<1>b. PICK b \in Seq(Unit) : b = Rest(w.clientBuffer, 2)
  BY <1>g, TwoLess
<1>4. PICK taken : taken = [w EXCEPT !.clientBuffer = b]
  OBVIOUS
<1>5. /\ Linked(taken, o) /\ taken.state = w.state /\ taken.acceptor = w.acceptor
      /\ taken.connector = w.connector
  BY <1>4, <1>f, BuffersSet, Zenon
<1>6. CASE ~(Len(w.clientBuffer) < 2) /\ w.client = "noAuthRefused"
  <2>1. PICK u : u = SendOn(taken, "acceptor", <<"noMethod">>)
    OBVIOUS
  <2>2. PICK v : v = [u EXCEPT !.state = "Error"]
    OBVIOUS
  <2>3. r = CloseIt(v, "acceptor", FALSE)
    <3>1. Len(w.clientBuffer) >= 2
      BY <1>6, <1>f, ProxyFields
    <3>2. [w EXCEPT !.clientBuffer = Rest(@, 2)] = taken
      BY <1>4, <1>b
    <3> QED
      BY <1>1, <1>6, <2>1, <2>2, <3>1, <3>2 DEF ProcessGreeting
  <2>4. PICK s : s = Send(taken.acceptor, <<"noMethod">>)
    OBVIOUS
  <2>5. Op(taken.acceptor, s) /\ u = With(taken, "acceptor", s)
    BY <1>5, <2>1, <2>4, ProxyFields, SendOp, UnitNames, Zenon DEF SendOn
  <2>6. Linked(u, o) /\ Beside(taken.connector, u.connector)
    BY <1>5, <2>5, OnAcceptor
  <2>7. Linked(v, o) /\ v.state = "Error" /\ v.connector = u.connector /\ v.acceptor = u.acceptor
    BY <2>2, <2>6, StateSet DEF States
  <2>8. PICK t : t = Close(v.acceptor, FALSE)
    BY Zenon
  <2>9. Op(v.acceptor, t) /\ r = With(v, "acceptor", t)
    BY <2>3, <2>7, <2>8, ProxyFields, CloseOp DEF CloseIt
  <2>10. Linked(r, o) /\ r.state = "Error" /\ Beside(v.connector, r.connector)
    BY <2>7, <2>9, OnAcceptor DEF Rests
  <2>11. r.connector.fd = "none"
    BY <1>5, <1>f, <2>6, <2>7, <2>10 DEF Beside, Unasked, IsOpen
  <2> QED
    BY <1>1, <2>10, <2>11 DEF ProxyOK, ProxyPhase, Fresh
<1>7. CASE ~(Len(w.clientBuffer) < 2) /\ w.client \notin {"oldVersion", "noAuthRefused"}
  <2>1. PICK u : u = SendOn(taken, "acceptor", <<"method">>)
    OBVIOUS
  <2>2. r = [u EXCEPT !.state = "Request"]
    <3>1. Len(w.clientBuffer) >= 2
      BY <1>7, <1>f, ProxyFields
    <3>2. [w EXCEPT !.clientBuffer = Rest(@, 2)] = taken
      BY <1>4, <1>b
    <3> QED
      BY <1>1, <1>7, <2>1, <3>1, <3>2 DEF ProcessGreeting
  <2>3. PICK s : s = Send(w.acceptor, <<"method">>)
    OBVIOUS
  <2>4. IsOpen(w.acceptor) /\ ~w.acceptor.reset
    BY DEF Fresh
  <2>5. /\ Op(w.acceptor, s) /\ s.readPaused = w.acceptor.readPaused
        /\ s.fd = w.acceptor.fd /\ s.reset = w.acceptor.reset
    <3>1. Len(<<"method">>) <= w.acceptor.room
      BY <1>f, UnitNames, EndpointAssumption
    <3> QED
      BY <1>f, <2>3, <2>4, <3>1, ProxyFields, SendOp, UnitNames, ZenonT(60)
  <2>6. u = With(taken, "acceptor", s)
    BY <1>5, <2>1, <2>3, ProxyFields DEF SendOn
  <2>7. /\ Linked(u, o) /\ u.acceptor = s /\ Beside(w.connector, u.connector)
        /\ u.connector.readPaused = w.connector.readPaused
    BY <1>5, <2>5, <2>6, OnAcceptor
  <2>8. /\ Linked(r, o) /\ r.state = "Request" /\ r.acceptor = s /\ r.connector = u.connector
    BY <2>2, <2>7, StateSet, Zenon DEF States
  <2>9. Unasked(r)
    BY <1>f, <2>5, <2>7, <2>8 DEF Unasked, NonePaused, Beside, IsOpen
  <2> QED
    BY <1>1, <2>4, <2>5, <2>8, <2>9 DEF ProxyOK, ProxyPhase, Fresh, IsOpen
<1> QED
  BY <1>2, <1>3, <1>6, <1>7

LEMMA ConnectToOp ==
    ASSUME NEW s, SockOK(s), s.fd = "none", NEW result \in ConnectResults
    PROVE  LET r == ConnectTo(s, result)
           IN  /\ SockOK(r) /\ r.readPaused = s.readPaused /\ r.inbox = s.inbox
               /\ r.got = s.got /\ r.writeQueue = s.writeQueue /\ r.reset = s.reset
               /\ r.status = IF result \in {"failed", "refused"} THEN "Closed" ELSE "Connecting"
               /\ r.fd = IF result = "inProgress" THEN "open" ELSE "none"
<1>1. PICK status, fd : /\ status = IF result \in {"failed", "refused"} THEN "Closed"
                                    ELSE "Connecting"
                        /\ fd = IF result = "inProgress" THEN "open" ELSE "none"
  OBVIOUS
<1>2. PICK r : r = ConnectTo(s, result)
  OBVIOUS
<1>3. r = [s EXCEPT !.status = status, !.fd = fd]
  BY <1>1, <1>2 DEF ConnectTo, SockOK, Socket
<1>4. status \in Statuses /\ fd \in {"none", "open", "closed"}
  BY <1>1 DEF Statuses
<1>5. /\ r \in Socket /\ r.status = status /\ r.fd = fd /\ r.writeQueue = s.writeQueue
      /\ r.pendingClose = s.pendingClose /\ r.readPaused = s.readPaused /\ r.inbox = s.inbox
      /\ r.fin = s.fin /\ r.reset = s.reset /\ r.room = s.room /\ r.shut = s.shut
      /\ r.got = s.got
  BY <1>3, <1>4, Zenon DEF SockOK, Socket
<1>6. Untouched(s) /\ Untouched(r)
  BY <1>5 DEF SockOK, Untouched, Full
<1>7. SockOK(r)
  BY <1>1, <1>5, <1>6 DEF SockOK, Full, Untouched
<1> QED
  BY <1>1, <1>2, <1>5, <1>7

(* The connection the client asks for: there was none, and while it is     *)
(* made nothing is paused.                                                 *)
LEMMA AskedOK ==
    ASSUME NEW w, NEW o, Linked(w, o), Unasked(w), IsOpen(w.acceptor),
           NEW r \in ProxyObjs, r.acceptor = w.acceptor,
           SockOK(r.connector), ~r.connector.readPaused, r.connector.fd # "closed"
    PROVE  Linked(r, o) /\ NonePaused(r)
<1>1. w.acceptor.readPaused = FALSE /\ r.connector.readPaused = FALSE
  BY ProxyFields, Fields DEF Unasked, NonePaused
<1>2. Couple(r.acceptor, r.connector, o)
  BY <1>1 DEF Linked, Couple, PausePair, EndPair, IsOpen
<1> QED
  BY <1>1, <1>2 DEF Linked, NonePaused

LEMMA RequestOK ==
    ASSUME NEW w, NEW o, ProxyOK(w, o), Fresh(w), w.state = "Request",
           NEW result \in ConnectResults
    PROVE  ProxyOK(ProcessRequest(w, result), o) /\ Fresh(ProcessRequest(w, result))
<1>1. PICK r : r = ProcessRequest(w, result)
  OBVIOUS
<1>f. Linked(w, o) /\ Unasked(w) /\ IsOpen(w.acceptor)
  BY DEF ProxyOK, ProxyPhase, Fresh
<1>g. /\ w.clientBuffer \in Seq(Unit) /\ Len(w.clientBuffer) \in Nat /\ SockOK(w.connector)
      /\ w.connector.fd = "none" /\ ~w.connector.readPaused
  BY <1>f, ProxyFields DEF Unasked, NonePaused
<1>2. CASE Len(w.clientBuffer) < 2
  <2>1. ~(Len(w.clientBuffer) >= 2)
    BY <1>2, <1>g
  <2>2. r = w
    BY <1>1, <1>2, <2>1 DEF ProcessRequest
  <2> QED
    BY <1>1, <2>2
<1>3. CASE Len(w.clientBuffer) >= 2 /\ w.client = "badRequest"
  <2>0. ~(Len(w.clientBuffer) < 2)
    BY <1>3, <1>g
  <2>1. r = Fail(w, FALSE)
    BY <1>1, <1>3, <2>0 DEF ProcessRequest
  <2> QED
    BY <1>1, <1>f, <1>g, <2>1, FailOK DEF Fresh
<1>4. CASE Len(w.clientBuffer) >= 2 /\ w.client # "badRequest"
  <2>0. ~(Len(w.clientBuffer) < 2)
    BY <1>4, <1>g
  <2>1. PICK b \in Seq(Unit) : b = Rest(w.clientBuffer, 2)
    BY <1>g, TwoLess
  <2>2. PICK c : c = ConnectTo(w.connector, result)
    OBVIOUS
  <2>3. /\ SockOK(c) /\ ~c.readPaused
        /\ c.status = IF result \in {"failed", "refused"} THEN "Closed" ELSE "Connecting"
        /\ c.fd = IF result = "inProgress" THEN "open" ELSE "none"
    BY <1>g, <2>2, ConnectToOp
  <2>4. PICK asked : asked = [w EXCEPT !.clientBuffer = b, !.connector = c]
    OBVIOUS
  <2>5. /\ Linked(asked, o) /\ asked.state = w.state /\ asked.acceptor = w.acceptor
        /\ asked.connector = c /\ NonePaused(asked)
    <3>1. /\ asked \in ProxyObjs /\ asked.acceptor = w.acceptor /\ asked.connector = c
          /\ asked.state = w.state
      BY <1>f, <2>1, <2>3, <2>4 DEF Linked, ProxyObjs, SockOK
    <3>2. SockOK(asked.connector) /\ ~asked.connector.readPaused /\ asked.connector.fd # "closed"
      BY <2>3, <3>1
    <3> QED
      BY <1>f, <3>1, <3>2, AskedOK
  <2>6. asked = [w EXCEPT !.clientBuffer = Rest(@, 2), !.connector = ConnectTo(@, result)]
    BY <1>f, <2>1, <2>2, <2>4 DEF Linked, ProxyObjs
  <2>7. PICK failed : failed = IF result \in {"failed", "refused"} THEN Fail(asked, TRUE)
                               ELSE asked
    BY Zenon
  <2>8. r = IF result \in {"refused", "noRequest"} THEN Fail(failed, TRUE)
            ELSE [failed EXCEPT !.state = "Connecting"]
    BY <1>1, <1>4, <2>0, <2>6, <2>7 DEF ProcessRequest, OnConnectFailed
  <2>9. CASE result \in {"failed", "refused"}
    <3>1. ProxyOK(failed, o) /\ failed.connector.fd = "none" /\ failed.connector.status = "Closed"
      BY <2>3, <2>5, <2>7, <2>9, FailOK, Zenon
    <3>2. CASE result = "refused"
      <4>1. r = Fail(failed, TRUE)
        BY <2>8, <3>2
      <4> QED
        BY <1>1, <3>1, <4>1, FailOK DEF ProxyOK, Fresh
    <3>3. CASE result = "failed"
      <4>1. r = [failed EXCEPT !.state = "Connecting"]
        BY <2>8, <3>3
      <4>2. Linked(r, o) /\ r.state = "Connecting" /\ r.connector = failed.connector
        BY <3>1, <4>1, StateSet, Zenon DEF ProxyOK, States
      <4> QED
        BY <1>1, <3>1, <4>2 DEF ProxyOK, ProxyPhase, Fresh, InLookup
    <3> QED
      BY <2>9, <3>2, <3>3
  <2>10. CASE result = "noRequest"
    <3>1. r = Fail(asked, TRUE) /\ asked.connector.fd = "none"
      BY <2>3, <2>5, <2>7, <2>8, <2>10
    <3> QED
      BY <1>1, <2>5, <3>1, FailOK, Zenon DEF Fresh
  <2>11. CASE result \in {"lookup", "inProgress"}
    <3>1. r = [asked EXCEPT !.state = "Connecting"]
      BY <2>7, <2>8, <2>11
    <3>2. /\ Linked(r, o) /\ r.state = "Connecting" /\ r.connector = c
          /\ r.acceptor = asked.acceptor
      BY <2>5, <3>1, StateSet, Zenon DEF States
    <3> QED
      BY <1>1, <2>3, <2>5, <2>11, <3>2 DEF ProxyOK, ProxyPhase, Fresh, NonePaused
  <2> QED
    BY <2>9, <2>10, <2>11 DEF ConnectResults
<1> QED
  BY <1>2, <1>3, <1>4, <1>g

LEMMA ForwardOK ==
    ASSUME NEW w, NEW o, ProxyOK(w, o), w.state \in {"Connecting", "Connected"}
    PROVE  ProxyOK(ForwardToConnector(w), o) /\ Fresh(ForwardToConnector(w))
<1>1. PICK r : r = ForwardToConnector(w)
  OBVIOUS
<1>f. /\ Linked(w, o) /\ ProxyPhase(w) /\ SockOK(w.connector) /\ w.clientBuffer \in Seq(Unit)
      /\ w.connectorBuffer \in Seq(Unit)
  BY ProxyFields DEF ProxyOK
<1>2. << >> \in Seq(Unit)
  OBVIOUS
<1>3. CASE w.connector.status = "Connected" /\ w.state = "Connected"
  <2>1. PICK v : v = SendOn(w, "connector", w.clientBuffer)
    OBVIOUS
  <2>2. PICK s : s = Send(w.connector, w.clientBuffer)
    OBVIOUS
  <2>3. Op(w.connector, s)
    BY <1>3, <1>f, <2>2, SendOp
  <2>4. v = With(w, "connector", s)
    BY <1>f, <2>1, <2>2, ProxyFields DEF SendOn
  <2>5. Linked(v, o) /\ Rests(w, v) /\ v.connector = s
    BY <1>f, <2>3, <2>4, OnConnector
  <2>6. r = [v EXCEPT !.clientBuffer = << >>]
    BY <1>1, <1>3, <2>1 DEF ForwardToConnector
  <2>7. Linked(r, o) /\ r.state = "Connected" /\ r.connector = s
    BY <1>2, <1>3, <2>5, <2>6, BuffersSet, ZenonT(60) DEF Rests
  <2>8. s.fd # "none"
    BY <1>3, <1>f, <2>3 DEF Op, SockOK, IsOpen, ProxyPhase
  <2> QED
    BY <1>1, <2>7, <2>8 DEF ProxyOK, ProxyPhase, Fresh
<1>4. CASE ~(w.connector.status = "Connected" /\ w.state = "Connected")
  <2>1. PICK b \in Seq(Unit) : b = w.connectorBuffer \o w.clientBuffer
    BY <1>f, Cat, Zenon
  <2>2. PICK v : v = [w EXCEPT !.connectorBuffer = b]
    BY Zenon
  <2>3. Linked(v, o) /\ v.state = w.state /\ v.connector = w.connector /\ v.acceptor = w.acceptor
    BY <1>f, <2>2, BuffersSet, ZenonT(60)
  <2>4. r = [v EXCEPT !.clientBuffer = << >>]
    BY <1>1, <1>4, <1>f, <2>1, <2>2 DEF ForwardToConnector, Linked, ProxyObjs
  <2>5. Linked(r, o) /\ r.state = w.state /\ r.connector = w.connector /\ r.acceptor = w.acceptor
    BY <1>2, <2>3, <2>4, BuffersSet, ZenonT(60)
  <2> QED
    BY <1>1, <1>f, <2>5 DEF ProxyOK, ProxyPhase, Fresh, NonePaused
<1> QED
  BY <1>3, <1>4

LEMMA TurnOK ==
    ASSUME NEW w, NEW o, ProxyOK(w, o), Fresh(w), NEW result \in ConnectResults
    PROVE  ProxyOK(Turn(w, result), o) /\ Fresh(Turn(w, result))
<1>1. CASE w.clientBuffer # << >> /\ w.state = "Greeting"
  <2>1. Turn(w, result) = ProcessGreeting(w)
    BY <1>1 DEF Turn
  <2> QED
    BY <1>1, <2>1, GreetingOK
<1>2. CASE w.clientBuffer # << >> /\ w.state = "Request"
  <2>1. Turn(w, result) = ProcessRequest(w, result)
    BY <1>2 DEF Turn
  <2> QED
    BY <1>2, <2>1, RequestOK
<1>3. CASE w.clientBuffer # << >> /\ w.state \in {"Connecting", "Connected"}
  <2>1. Turn(w, result) = ForwardToConnector(w)
    BY <1>3 DEF Turn
  <2> QED
    BY <1>3, <2>1, ForwardOK
<1>4. CASE w.clientBuffer = << >> \/ w.state \notin {"Greeting", "Request", "Connecting", "Connected"}
  <2>1. Turn(w, result) = w
    BY <1>4 DEF Turn
  <2> QED
    BY <2>1
<1> QED
  BY <1>1, <1>2, <1>3, <1>4

LEMMA DataOK ==
    ASSUME NEW w, NEW o, ProxyOK(w, o), Fresh(w), NEW data \in Seq(Unit),
           NEW result \in ConnectResults
    PROVE  ProxyOK(OnAcceptorReceiveData(w, data, result), o)
<1>1. PICK b \in Seq(Unit) : b = w.clientBuffer \o data
  BY ProxyFields, Cat DEF ProxyOK
<1>2. PICK v : v = [w EXCEPT !.clientBuffer = b]
  BY Zenon
<1>3. Linked(v, o) /\ v.state = w.state /\ v.acceptor = w.acceptor /\ v.connector = w.connector
  BY <1>1, <1>2, BuffersSet, ZenonT(60) DEF ProxyOK
<1>4. ProxyOK(v, o) /\ Fresh(v)
  BY <1>3 DEF ProxyOK, ProxyPhase, Fresh, Unasked, NonePaused
<1>5. PICK x : x = Turn(v, result)
  OBVIOUS
<1>6. ProxyOK(x, o) /\ Fresh(x)
  BY <1>4, <1>5, TurnOK
<1>7. PICK y : y = Turn(x, result)
  OBVIOUS
<1>8. ProxyOK(y, o) /\ Fresh(y)
  BY <1>6, <1>7, TurnOK
<1>9. ProxyOK(Turn(y, result), o)
  BY <1>8, TurnOK
<1>10. OnAcceptorReceiveData(w, data, result) = Turn(y, result)
  BY <1>1, <1>2, <1>5, <1>7 DEF OnAcceptorReceiveData
<1> QED
  BY <1>9, <1>10

LEMMA AcceptorEvent ==
    ASSUME NEW w, NEW o, ProxyOK(w, o), NEW s, Op(w.acceptor, s),
           w.state = "Connected" \/ (s.readPaused => w.acceptor.readPaused),
           w.state = "Greeting" => ~Full(s) /\ s.room = SendRoom
    PROVE  ProxyOK(With(w, "acceptor", s), o)
<1>f. Linked(w, o) /\ ProxyPhase(w)
  BY DEF ProxyOK
<1>1. PICK r : r = With(w, "acceptor", s)
  OBVIOUS
<1>2. /\ Linked(r, o) /\ r.state = w.state /\ r.acceptor = s
      /\ Beside(w.connector, r.connector)
      /\ r.connector.readPaused \in {w.connector.readPaused, s.readPaused}
  BY <1>f, <1>1, OnAcceptor DEF Rests
<1>3. /\ r.connector.fd = w.connector.fd \/ (IsOpen(w.connector) /\ r.connector.fd = "closed")
      /\ r.connector.fd = "none" => r.connector.status = w.connector.status
      /\ w.connector.status # "Ready" => r.connector.status # "Ready"
      /\ SockOK(r.connector)
  <2>1. /\ SockOK(r.connector)
        /\ r.connector.fd = w.connector.fd \/ (IsOpen(w.connector) /\ r.connector.fd = "closed")
        /\ r.connector.fd = "none" => r.connector.status = w.connector.status
    BY <1>2 DEF Beside
  <2>2. r.connector.fd \in {"none", "open", "closed"}
    BY <2>1, Fields
  <2>3. r.connector.fd # "none" => r.connector.status # "Ready"
    BY <2>1, <2>2 DEF SockOK
  <2> QED
    BY <2>1, <2>3
<1>4. w.state # "Connected" /\ NonePaused(w) => NonePaused(r)
  BY <1>2 DEF NonePaused
<1>5. InLookup(r.connector) => InLookup(w.connector)
  BY <1>3 DEF InLookup, IsOpen
<1>6. w.connector.fd = "none" => r.connector.fd = "none"
  BY <1>3 DEF IsOpen
<1>7. w.connector.fd # "none" => r.connector.fd # "none"
  BY <1>3 DEF IsOpen
<1>8. ProxyPhase(r)
  BY <1>f, <1>2, <1>3, <1>4, <1>5, <1>6, <1>7 DEF ProxyPhase, Unasked
<1> QED
  BY <1>1, <1>2, <1>8 DEF ProxyOK

LEMMA ConnectorEvent ==
    ASSUME NEW w, NEW o, ProxyOK(w, o), NEW s, IsOpen(w.connector), Op(w.connector, s)
    PROVE  ProxyOK(With(w, "connector", s), o)
<1>f. Linked(w, o) /\ ProxyPhase(w)
  BY DEF ProxyOK
<1>1. PICK r : r = With(w, "connector", s)
  OBVIOUS
<1>2. Linked(r, o) /\ r.state = w.state /\ r.connector = s
  BY <1>f, <1>1, OnConnector DEF Rests
<1>3. s.fd # "none" /\ s.status # "Ready"
  BY DEF Op, SockOK, IsOpen
<1>4. w.state \in {"Connecting", "Connected"}
  BY <1>f, ProxyFields DEF ProxyPhase, Unasked, IsOpen, States
<1> QED
  BY <1>1, <1>2, <1>3, <1>4 DEF ProxyOK, ProxyPhase, InLookup

LEMMA ConnectorDataOK ==
    ASSUME NEW w, NEW o, ProxyOK(w, o), NEW data \in Seq(Unit)
    PROVE  ProxyOK(OnConnectorReceiveData(w, data), o)
<1>1. PICK r, s : r = OnConnectorReceiveData(w, data) /\ s = Send(w.acceptor, data)
  OBVIOUS
<1>2. CASE w.acceptor.status = "Connected" /\ w.state = "Connected"
  <2>1. r = With(w, "acceptor", s)
    BY <1>1, <1>2, ProxyFields DEF OnConnectorReceiveData, SendOn, ProxyOK
  <2>2. Op(w.acceptor, s)
    BY <1>1, ProxyFields, SendOp DEF ProxyOK
  <2> QED
    BY <1>1, <1>2, <2>1, <2>2, AcceptorEvent
<1>3. CASE ~(w.acceptor.status = "Connected" /\ w.state = "Connected")
  BY <1>1, <1>3 DEF OnConnectorReceiveData
<1> QED
  BY <1>2, <1>3

(* Two records with the same fields.                                       *)
LEMMA ProxySame ==
    ASSUME NEW w \in ProxyObjs, NEW r \in ProxyObjs, Rests(w, r),
           r.acceptor = w.acceptor, r.connector = w.connector
    PROVE  r = w
  BY DEF ProxyObjs, Rests

(* The reply to a client that has gone, on the connection to the target.   *)
LEMMA ReplyStrays ==
    ASSUME NEW w, NEW o, Linked(w, o), IsOpen(w.connector), w.connector.status = "Connected",
           Untouched(w.connector)
    PROVE  LET r == [w EXCEPT !.connector = Transmitted(@, <<"success">>)]
           IN  /\ Linked(r, o) /\ Rests(w, r) /\ r.acceptor = w.acceptor
               /\ IsOpen(r.connector) /\ r.connector.status = "Connected"
               /\ r.connector.got = <<"success">> /\ r.connector.writeQueue = << >>
<1>1. PICK c, s : c = w.connector /\ s = Transmitted(c, <<"success">>)
  OBVIOUS
<1>2. /\ SockOK(c) /\ c \in Socket /\ c.room = SendRoom /\ c.got = << >> /\ c.writeQueue = << >>
      /\ SendRoom - 1 \in Nat /\ SendRoom - 1 <= SendRoom
  BY <1>1, ProxyFields, EndpointAssumption DEF Linked, Untouched, Full
<1>3. << >> \o <<"success">> = <<"success">> /\ <<"success">> \in Seq(Unit) /\ Len(<<"success">>) = 1
  BY UnitNames, Cat
<1>4. s = [c EXCEPT !.got = <<"success">>, !.room = SendRoom - 1]
  BY <1>1, <1>2, <1>3 DEF Transmitted, Socket
<1>5. /\ s \in Socket /\ s.got = <<"success">> /\ s.room = SendRoom - 1
      /\ s.status = c.status /\ s.fd = c.fd /\ s.writeQueue = c.writeQueue
      /\ s.pendingClose = c.pendingClose /\ s.readPaused = c.readPaused /\ s.shut = c.shut
      /\ s.reset = c.reset
  BY <1>2, <1>3, <1>4 DEF Socket
<1>6. SockOK(s)
  BY <1>1, <1>2, <1>5 DEF SockOK, Full, IsOpen
<1>7. PICK r : r = [w EXCEPT !.connector = s]
  OBVIOUS
<1>8. r \in ProxyObjs /\ Rests(w, r) /\ r.acceptor = w.acceptor /\ r.connector = s
  BY <1>5, <1>7 DEF Linked, ProxyObjs, Rests
<1>9. Couple(w.acceptor, s, o)
  BY <1>1, <1>5, <1>6 DEF Linked, Couple, PausePair, EndPair, Failing, IsOpen, Full
<1>10. r = [w EXCEPT !.connector = Transmitted(@, <<"success">>)]
  BY <1>1, <1>7
<1> QED
  BY <1>1, <1>2, <1>5, <1>8, <1>9, <1>10 DEF Linked, IsOpen

LEMMA ConnectedOK ==
    ASSUME NEW w, NEW o, ProxyOK(w, o), InHandshake(w.connector), NEW reuse \in BOOLEAN
    PROVE  ProxyOK(OnConnected([w EXCEPT !.connector.status = "Connected"], reuse), o)
<1>f. /\ Linked(w, o) /\ ProxyPhase(w) /\ SockOK(w.connector)
      /\ IsOpen(w.connector) /\ w.connector.status = "Connecting" /\ ~w.connector.reset
  BY ProxyFields DEF ProxyOK, InHandshake
<1>1. PICK c : c = [w.connector EXCEPT !.status = "Connected"]
  OBVIOUS
<1>2. /\ c \in Socket /\ c.status = "Connected" /\ c.fd = w.connector.fd
      /\ c.writeQueue = w.connector.writeQueue /\ c.readPaused = w.connector.readPaused
      /\ c.shut = w.connector.shut /\ c.pendingClose = w.connector.pendingClose
      /\ c.room = w.connector.room /\ c.reset = w.connector.reset
  BY <1>f, <1>1 DEF SockOK, Socket, Statuses
<1>3. SockOK(c)
  BY <1>f, <1>2 DEF SockOK, IsOpen, Untouched, Full
<1>u. IsOpen(c) /\ Untouched(c)
  BY <1>f, <1>2, <1>1 DEF SockOK, Untouched, Full, IsOpen
<1>4. PICK v : v = [w EXCEPT !.connector = c]
  OBVIOUS
<1>5. /\ v \in ProxyObjs /\ v.acceptor = w.acceptor /\ v.connector = c /\ Rests(w, v)
      /\ v = [w EXCEPT !.connector.status = "Connected"]
  BY <1>f, <1>1, <1>2, <1>4 DEF Linked, ProxyObjs, Rests
<1>6. Couple(v.acceptor, v.connector, o)
  BY <1>f, <1>2, <1>3, <1>5 DEF Linked, Couple, PausePair, EndPair, Failing, IsOpen, Full
<1>7. Linked(v, o)
  BY <1>f, <1>5, <1>6 DEF Linked
<1>8. PICK x : x = [v EXCEPT !.state = "Connected"]
  OBVIOUS
<1>s. "Connected" \in States
  BY DEF States
<1>9. /\ Linked(x, o) /\ x.state = "Connected" /\ x.connector = c /\ x.acceptor = w.acceptor
  <2>1. /\ Linked(x, o) /\ x.state = "Connected" /\ x.connector = v.connector
        /\ x.acceptor = v.acceptor
    BY <1>s, <1>7, <1>8, StateSet
  <2> QED
    BY <1>5, <2>1
<1>10. PICK success \in Seq(Unit) : success = <<"success">>
  BY UnitNames
<1>11. PICK y : y = IF reuse THEN [x EXCEPT !.connector = Transmitted(@, <<"success">>)]
                     ELSE SendOn(x, "acceptor", success)
  OBVIOUS
<1>r. ASSUME reuse
      PROVE  Linked(y, o) /\ Rests(x, y) /\ IsOpen(y.connector) /\ y.connector.status = "Connected"
  <2>1. y = [x EXCEPT !.connector = Transmitted(@, <<"success">>)]
    BY <1>r, <1>10, <1>11, Zenon
  <2>2. IsOpen(x.connector) /\ x.connector.status = "Connected" /\ Untouched(x.connector)
    BY <1>2, <1>9, <1>u
  <2>3. PICK r : r = [x EXCEPT !.connector = Transmitted(@, <<"success">>)]
    OBVIOUS
  <2>4. Linked(r, o) /\ Rests(x, r) /\ IsOpen(r.connector) /\ r.connector.status = "Connected"
    BY <1>9, <2>2, <2>3, ReplyStrays
  <2> QED
    BY <2>1, <2>3, <2>4
<1>12. Linked(y, o) /\ Rests(x, y)
  <2>1. CASE reuse
    BY <1>r, <2>1
  <2>2. CASE ~reuse
    <3>1. PICK s : s = Send(x.acceptor, success)
      OBVIOUS
    <3>2. Op(x.acceptor, s) /\ y = With(x, "acceptor", s)
      BY <1>9, <1>11, <2>2, <3>1, ProxyFields, SendOp DEF SendOn
    <3> QED
      BY <1>9, <3>2, OnAcceptor
  <2> QED
    BY <2>1, <2>2
<1>13. /\ IsOpen(y.connector) => y.connector.status # "Connecting"
       /\ y.connector.fd # "none"
  <2>1. CASE reuse
    <3>1. IsOpen(y.connector) /\ y.connector.status = "Connected"
      BY <1>r, <2>1
    <3> QED
      BY <3>1 DEF IsOpen
  <2>2. CASE ~reuse
    <3>1. PICK s : s = Send(x.acceptor, success)
      OBVIOUS
    <3>2. Op(x.acceptor, s) /\ y = With(x, "acceptor", s)
      BY <1>9, <1>11, <2>2, <3>1, ProxyFields, SendOp DEF SendOn
    <3>3. Beside(c, y.connector)
      BY <1>9, <3>2, OnAcceptor
    <3> QED
      BY <1>f, <1>2, <3>3 DEF Beside, IsOpen
  <2> QED
    BY <2>1, <2>2
<1>14. PICK t, z : t = Send(y.connector, y.connectorBuffer) /\ z = SendOn(y, "connector", y.connectorBuffer)
  OBVIOUS
<1>15. /\ IsOpen(y.connector) => y.connector.status # "Connecting"
       /\ y.connector.fd # "none" /\ y.connectorBuffer \in Seq(Unit)
  BY <1>12, <1>13, ProxyFields
<1>16. Op(y.connector, t)
  BY <1>12, <1>14, <1>15, ProxyFields, SendOp
<1>17. z = With(y, "connector", t)
  BY <1>12, <1>14, ProxyFields DEF SendOn
<1>18. Linked(z, o) /\ Rests(y, z) /\ z.connector = t
  BY <1>12, <1>16, <1>17, OnConnector
<1>19. z.state = "Connected" /\ z.connector.fd # "none"
  BY <1>9, <1>12, <1>15, <1>16, <1>18 DEF Rests, Op, IsOpen
<1>20. PICK r : r = [z EXCEPT !.connectorBuffer = << >>]
  OBVIOUS
<1>21. << >> \in Seq(Unit)
  OBVIOUS
<1>22. Linked(r, o) /\ r.state = "Connected" /\ r.connector = z.connector
  BY <1>18, <1>19, <1>20, <1>21, BuffersSet, ZenonT(60)
<1>23. ProxyOK(r, o)
  BY <1>19, <1>22 DEF ProxyOK, ProxyPhase
<1>24. x.connectorBuffer = y.connectorBuffer /\ v.connectorBuffer = w.connectorBuffer
       /\ x.connectorBuffer = v.connectorBuffer
  BY <1>5, <1>7, <1>8, <1>12, StateSet DEF Rests, States
<1>25. OnConnected(v, reuse) = r
  <2>1. OnConnected(v, reuse) = [SendOn(y, "connector", v.connectorBuffer) EXCEPT !.connectorBuffer = << >>]
    BY <1>8, <1>10, <1>11 DEF OnConnected
  <2>2. v.connectorBuffer = y.connectorBuffer
    BY <1>24
  <2> QED
    BY <1>14, <1>20, <2>1, <2>2
<1> QED
  BY <1>5, <1>23, <1>25

(* What is beneath a socket changes; its owner is not told.                *)
LEMMA BeneathAcceptor ==
    ASSUME NEW w, NEW o, ProxyOK(w, o), NEW s, Beneath(w.acceptor, s)
    PROVE  LET r == [w EXCEPT !["acceptor"] = s]
           IN  ProxyOK(r, o) /\ r.acceptor = s /\ r.connector = w.connector /\ Rests(w, r)
<1>f. Linked(w, o) /\ ProxyPhase(w)
  BY DEF ProxyOK
<1>1. PICK r : r = [w EXCEPT !["acceptor"] = s]
  OBVIOUS
<1>2. /\ r \in ProxyObjs /\ r.acceptor = s /\ r.connector = w.connector /\ Rests(w, r)
  BY <1>f, <1>1 DEF Linked, ProxyObjs, Rests, Beneath, SockOK
<1>3. Couple(s, w.connector, o)
  BY <1>f, CoupleBeneath DEF Linked
<1>4. Linked(r, o)
  BY <1>f, <1>2, <1>3 DEF Linked, Beneath
<1>5. ProxyPhase(r)
  BY <1>f, <1>2 DEF ProxyPhase, Rests, Unasked, NonePaused, Beneath, Full
<1> QED
  BY <1>1, <1>2, <1>4, <1>5 DEF ProxyOK

LEMMA BeneathConnector ==
    ASSUME NEW w, NEW o, ProxyOK(w, o), NEW s, Beneath(w.connector, s)
    PROVE  LET r == [w EXCEPT !["connector"] = s]
           IN  ProxyOK(r, o) /\ r.connector = s /\ r.acceptor = w.acceptor /\ Rests(w, r)
<1>f. Linked(w, o) /\ ProxyPhase(w)
  BY DEF ProxyOK
<1>1. PICK r : r = [w EXCEPT !["connector"] = s]
  OBVIOUS
<1>2. /\ r \in ProxyObjs /\ r.connector = s /\ r.acceptor = w.acceptor /\ Rests(w, r)
  BY <1>f, <1>1 DEF Linked, ProxyObjs, Rests, Beneath, SockOK
<1>3. Couple(w.acceptor, s, o)
  BY <1>f, CoupleBeneath, CoupleEither DEF Linked
<1>4. Linked(r, o)
  BY <1>f, <1>2, <1>3 DEF Linked
<1>5. ProxyPhase(r)
  BY <1>f, <1>2 DEF ProxyPhase, Rests, Unasked, NonePaused, Beneath, InLookup
<1> QED
  BY <1>1, <1>2, <1>4, <1>5 DEF ProxyOK

(* onWritable() and, after it, resume_reading(): together, Drained.        *)
Resumed(w, side) == IF ResumesReading(w[side])
                    THEN With(w, side, [w[side] EXCEPT !.readPaused = FALSE]) ELSE w

LEMMA ResumedAcceptor ==
    ASSUME NEW w, NEW o, Linked(w, o), Writable(w.acceptor)
    PROVE  Resumed(With(w, "acceptor", OnWritable(w.acceptor)), "acceptor")
              = With(w, "acceptor", Drained(w.acceptor))
<1>1. PICK t, d : t = OnWritable(w.acceptor) /\ d = Drained(w.acceptor)
  OBVIOUS
<1>f. w \in ProxyObjs /\ SockOK(w.acceptor) /\ w["acceptor"] = w.acceptor
  BY ProxyFields DEF Linked
<1>2. /\ SockOK(t) /\ t \in Socket /\ t.readPaused = w.acceptor.readPaused
      /\ IsOpen(t) => t.status = w.acceptor.status
  BY <1>f, <1>1, WritableOp DEF SockOK
<1>3. PICK v : v = With(w, "acceptor", t)
  OBVIOUS
<1>4. CASE ResumesReading(t)
  <2>1. PICK u : u = [t EXCEPT !.readPaused = FALSE]
    OBVIOUS
  <2>2. d = u /\ u.status = t.status /\ u.readPaused = FALSE /\ u \in Socket
    BY <1>1, <1>2, <1>4, <2>1 DEF Drained, Socket
  <2>3. t.status # "Closed"
    BY <1>2, <1>4 DEF ResumesReading, IsOpen, SockOK
  <2>4. Coupled(w.acceptor, t, w.connector) = w.connector
    BY <1>2, <2>3 DEF Coupled
  <2>5. v \in ProxyObjs /\ v.acceptor = t /\ v.connector = w.connector /\ Rests(w, v)
    BY <1>f, <1>2, <1>3, <2>4, ProxyFields, WithAcceptor DEF Rests
  <2>6. Resumed(v, "acceptor") = With(v, "acceptor", u)
    BY <1>4, <2>1, <2>5 DEF Resumed, ProxyObjs
  <2>7. PICK c : c = IF FALSE # w.acceptor.readPaused
                     THEN [w.connector EXCEPT !.readPaused = FALSE] ELSE w.connector
    OBVIOUS
  <2>8. Coupled(t, u, w.connector) = c /\ Coupled(w.acceptor, u, w.connector) = c
    BY <1>2, <2>2, <2>3, <2>7 DEF Coupled
  <2>9. c \in Socket
    BY <2>7, ProxyFields, ZenonT(60) DEF Socket
  <2>10. PICK x, y : x = With(v, "acceptor", u) /\ y = With(w, "acceptor", u)
    OBVIOUS
  <2>11. x \in ProxyObjs /\ x.acceptor = u /\ x.connector = c /\ Rests(v, x)
    BY <2>2, <2>5, <2>8, <2>9, <2>10, WithAcceptor DEF Rests
  <2>12. y \in ProxyObjs /\ y.acceptor = u /\ y.connector = c /\ Rests(w, y)
    BY <1>f, <2>2, <2>8, <2>9, <2>10, WithAcceptor DEF Rests
  <2>13. Rests(x, y)
    BY <2>5, <2>11, <2>12 DEF Rests
  <2>14. x = y
    BY <2>11, <2>12, <2>13, ProxySame
  <2> QED
    BY <1>1, <1>3, <2>2, <2>6, <2>10, <2>14
<1>5. CASE ~ResumesReading(t)
  <2>1. d = t
    BY <1>1, <1>5 DEF Drained
  <2>2. v["acceptor"] = t
    BY <1>f, <1>2, <1>3, TwoSides DEF With, ProxyObjs
  <2>3. Resumed(v, "acceptor") = v
    BY <1>5, <2>2 DEF Resumed
  <2> QED
    BY <1>1, <1>3, <2>1, <2>3
<1> QED
  BY <1>4, <1>5

LEMMA ResumedConnector ==
    ASSUME NEW w, NEW o, Linked(w, o), Writable(w.connector)
    PROVE  Resumed(With(w, "connector", OnWritable(w.connector)), "connector")
              = With(w, "connector", Drained(w.connector))
<1>1. PICK t, d : t = OnWritable(w.connector) /\ d = Drained(w.connector)
  OBVIOUS
<1>f. w \in ProxyObjs /\ SockOK(w.connector) /\ w["connector"] = w.connector
  BY ProxyFields DEF Linked
<1>2. /\ SockOK(t) /\ t \in Socket /\ t.readPaused = w.connector.readPaused
      /\ IsOpen(t) => t.status = w.connector.status
  BY <1>f, <1>1, WritableOp DEF SockOK
<1>3. PICK v : v = With(w, "connector", t)
  OBVIOUS
<1>4. CASE ResumesReading(t)
  <2>1. PICK u : u = [t EXCEPT !.readPaused = FALSE]
    OBVIOUS
  <2>2. d = u /\ u.status = t.status /\ u.readPaused = FALSE /\ u \in Socket
    BY <1>1, <1>2, <1>4, <2>1, Zenon DEF Drained, Socket
  <2>3. t.status # "Closed"
    BY <1>2, <1>4 DEF ResumesReading, IsOpen, SockOK
  <2>4. Coupled(w.connector, t, w.acceptor) = w.acceptor
    BY <1>2, <2>3 DEF Coupled
  <2>5. v \in ProxyObjs /\ v.connector = t /\ v.acceptor = w.acceptor /\ Rests(w, v)
    BY <1>f, <1>2, <1>3, <2>4, ProxyFields, WithConnector DEF Rests
  <2>6. Resumed(v, "connector") = With(v, "connector", u)
    BY <1>4, <2>1, <2>5, Zenon DEF Resumed, ProxyObjs
  <2>7. PICK c : c = IF FALSE # w.connector.readPaused
                     THEN [w.acceptor EXCEPT !.readPaused = FALSE] ELSE w.acceptor
    OBVIOUS
  <2>8. Coupled(t, u, w.acceptor) = c /\ Coupled(w.connector, u, w.acceptor) = c
    BY <1>2, <2>2, <2>3, <2>7 DEF Coupled
  <2>9. c \in Socket
    BY <2>7, ProxyFields, ZenonT(60) DEF Socket
  <2>10. PICK x, y : x = With(v, "connector", u) /\ y = With(w, "connector", u)
    OBVIOUS
  <2>11. x \in ProxyObjs /\ x.connector = u /\ x.acceptor = c /\ Rests(v, x)
    BY <2>2, <2>5, <2>8, <2>9, <2>10, WithConnector DEF Rests
  <2>12. y \in ProxyObjs /\ y.connector = u /\ y.acceptor = c /\ Rests(w, y)
    BY <1>f, <2>2, <2>8, <2>9, <2>10, WithConnector DEF Rests
  <2>13. Rests(x, y)
    BY <2>5, <2>11, <2>12 DEF Rests
  <2>14. x = y
    BY <2>11, <2>12, <2>13, ProxySame
  <2> QED
    BY <1>1, <1>3, <2>2, <2>6, <2>10, <2>14
<1>5. CASE ~ResumesReading(t)
  <2>1. d = t
    BY <1>1, <1>5 DEF Drained
  <2>2. v["connector"] = t
    BY <1>f, <1>2, <1>3, TwoSides DEF With, ProxyObjs
  <2>3. Resumed(v, "connector") = v
    BY <1>5, <2>2 DEF Resumed
  <2> QED
    BY <1>1, <1>3, <2>1, <2>3
<1> QED
  BY <1>4, <1>5

LEMMA LookupOK ==
    ASSUME NEW w, NEW o, ProxyOK(w, o), LookingUp(w), w.acceptor.fd = "closed" => o
    PROVE  /\ ProxyOK([w EXCEPT !.connector.fd = "open"], o)
           /\ ProxyOK(OnConnectFailed([w EXCEPT !.connector.status = "Closed"]), o)
<1>f. /\ Linked(w, o) /\ ProxyPhase(w) /\ SockOK(w.connector) /\ SockOK(w.acceptor)
      /\ w.connector.fd = "none" /\ w.connector.status = "Connecting"
      /\ w.state = "Connecting" /\ Untouched(w.connector) /\ ~w.connector.reset
  <2>1. Linked(w, o) /\ ProxyPhase(w) /\ InLookup(w.connector) /\ w.state # "Error"
    BY DEF ProxyOK, LookingUp
  <2>2. w.connector.fd = "none" /\ w.connector.status = "Connecting"
    BY <2>1 DEF InLookup
  <2>3. w.state = "Connecting"
    BY <2>1, <2>2, ProxyFields DEF ProxyPhase, Unasked, States
  <2> QED
    BY <2>1, <2>2, <2>3, ProxyFields DEF SockOK
<1>p. w.acceptor.readPaused = FALSE /\ w.connector.readPaused = FALSE
  BY <1>f, Fields DEF ProxyPhase, NonePaused, InLookup
<1>1. ProxyOK([w EXCEPT !.connector.fd = "open"], o)
  <2>1. PICK c : c = [w.connector EXCEPT !.fd = "open"]
    BY Zenon
  <2>2. /\ c \in Socket /\ c.status = "Connecting" /\ c.fd = "open"
        /\ c.writeQueue = w.connector.writeQueue /\ c.readPaused = FALSE
        /\ c.shut = w.connector.shut /\ c.pendingClose = w.connector.pendingClose
        /\ c.room = w.connector.room /\ c.reset = w.connector.reset
        /\ c.inbox = w.connector.inbox /\ c.fin = w.connector.fin /\ c.got = w.connector.got
    BY <1>f, <1>p, <2>1, Zenon DEF SockOK, Socket
  <2>3. SockOK(c)
    BY <1>f, <2>2 DEF SockOK, Untouched, Full
  <2>4. PICK r : r = [w EXCEPT !.connector = c]
    OBVIOUS
  <2>5. /\ r \in ProxyObjs /\ r.acceptor = w.acceptor /\ r.connector = c /\ r.state = w.state
        /\ r = [w EXCEPT !.connector.fd = "open"]
    BY <1>f, <2>1, <2>2, <2>4 DEF Linked, ProxyObjs
  <2>6. Couple(w.acceptor, c, o)
    BY <1>f, <1>p, <2>2, <2>3 DEF Couple, PausePair, EndPair, IsOpen
  <2>7. Linked(r, o)
    BY <1>f, <2>5, <2>6 DEF Linked
  <2>8. ProxyOK(r, o)
    BY <1>f, <2>2, <2>5, <2>7 DEF ProxyOK, ProxyPhase, InLookup
  <2> QED
    BY <2>5, <2>8
<1>2. ProxyOK(OnConnectFailed([w EXCEPT !.connector.status = "Closed"]), o)
  <2>1. PICK c : c = [w.connector EXCEPT !.status = "Closed"]
    OBVIOUS
  <2>2. /\ c \in Socket /\ c.status = "Closed" /\ c.fd = "none"
        /\ c.writeQueue = w.connector.writeQueue /\ c.readPaused = FALSE
        /\ c.shut = w.connector.shut /\ c.pendingClose = w.connector.pendingClose
        /\ c.room = w.connector.room /\ c.reset = w.connector.reset
        /\ c.inbox = w.connector.inbox /\ c.fin = w.connector.fin /\ c.got = w.connector.got
    BY <1>f, <1>p, <2>1 DEF SockOK, Socket, Statuses
  <2>3. SockOK(c)
    BY <1>f, <2>2 DEF SockOK, Untouched, Full
  <2>4. PICK r : r = [w EXCEPT !.connector = c]
    OBVIOUS
  <2>5. /\ r \in ProxyObjs /\ r.acceptor = w.acceptor /\ r.connector = c /\ r.state = w.state
        /\ r = [w EXCEPT !.connector.status = "Closed"]
    BY <1>f, <2>1, <2>2, <2>4 DEF Linked, ProxyObjs
  <2>6. Couple(w.acceptor, c, o)
    BY <1>f, <1>p, <2>2, <2>3 DEF Couple, PausePair, EndPair, IsOpen
  <2>7. Linked(r, o)
    BY <1>f, <2>5, <2>6 DEF Linked
  <2>8. ProxyOK(Fail(r, TRUE), o)
    BY <2>2, <2>5, <2>7, FailOK
  <2> QED
    BY <2>5, <2>8 DEF OnConnectFailed
<1> QED
  BY <1>1, <1>2

(* What a proxy keeps, between two events.                                 *)
ProxyInv(w, o) == ProxyOK(w, o) /\ (w.acceptor.fd = "closed" /\ LookingUp(w) => o)

LEMMA ProxyWeaker ==
    ASSUME NEW w, NEW o, ProxyOK(w, o), NEW p \in BOOLEAN, o => p
    PROVE  ProxyOK(w, p)
  BY DEF ProxyOK, Linked, Couple, EndPair

LEMMA ProxyBecomes ==
    ASSUME IsProxy, NEW w, ProxyOK(w, orphan), Becomes(w)
    PROVE  ProxyInv(obj', orphan')
<1>1. obj' = w /\ orphan' = (orphan \/ (w.acceptor.fd = "closed" /\ LookingUp(w)))
  BY DEF Becomes, HeardOfEnd, Asks
<1>2. orphan' \in BOOLEAN /\ (orphan => orphan')
  BY <1>1, ProxyFields DEF ProxyOK
<1>3. ProxyOK(w, orphan')
  BY <1>2, ProxyWeaker
<1> QED
  BY <1>1, <1>3 DEF ProxyInv

LEMMA ProxyIs ==
    ASSUME ProxyInv(obj, orphan)
    PROVE  /\ IsProxy /\ obj \in ProxyObjs /\ Linked(obj, orphan) /\ ProxyOK(obj, orphan)
           /\ obj["acceptor"] = obj.acceptor /\ obj["connector"] = obj.connector
           /\ SockOK(obj.acceptor) /\ SockOK(obj.connector)
  BY ProxyFields DEF ProxyInv, ProxyOK, Linked, ProxyObjs, IsProxy

LEMMA ProxyReads ==
    ASSUME ProxyInv(obj, orphan), NEW side \in Sides, ReadChunk(side)
    PROVE  ProxyInv(obj', orphan')
<1>1. PICK n \in 1 .. Len(obj[side].inbox), result \in ConnectResults :
          Becomes(Received([obj EXCEPT ![side] = Read(@, n)], side,
                           SubSeq(obj[side].inbox, 1, n), result))
  BY DEF ReadChunk
<1>2. MayRead(obj[side])
  BY DEF ReadChunk
<1>3. CASE side = "acceptor"
  <2>1. PICK s : s = Read(obj.acceptor, n)
    OBVIOUS
  <2>2. PICK data : data = SubSeq(obj.acceptor.inbox, 1, n)
    OBVIOUS
  <2>3. n \in 1 .. Len(obj.acceptor.inbox) /\ MayRead(obj.acceptor)
    BY <1>1, <1>2, <1>3, ProxyIs
  <2>4. /\ Beneath(obj.acceptor, s) /\ s.reset = obj.acceptor.reset /\ data \in Seq(Unit)
        /\ IsOpen(obj.acceptor) /\ ~obj.acceptor.reset
    BY <2>1, <2>2, <2>3, ProxyIs, ReadOp
  <2>5. PICK v : v = [obj EXCEPT !["acceptor"] = s]
    OBVIOUS
  <2>6. ProxyOK(v, orphan) /\ v.acceptor = s
    BY <2>4, <2>5, ProxyIs, BeneathAcceptor, Zenon
  <2>7. Fresh(v)
    BY <2>4, <2>6 DEF Fresh, Beneath, IsOpen
  <2>8. PICK r : r = OnAcceptorReceiveData(v, data, result)
    OBVIOUS
  <2>9. ProxyOK(r, orphan)
    BY <2>4, <2>6, <2>7, <2>8, DataOK
  <2>10. [obj EXCEPT ![side] = Read(@, n)] = v
    BY <1>3, <2>1, <2>5, ProxyIs
  <2>11. Received(v, "acceptor", data, result) = r
    BY <2>8, ProxyIs DEF Received
  <2>12. Becomes(r)
    BY <1>1, <1>3, <2>2, <2>10, <2>11, ProxyIs
  <2> QED
    BY <2>9, <2>12, ProxyIs, ProxyBecomes
<1>4. CASE side = "connector"
  <2>1. PICK s : s = Read(obj.connector, n)
    OBVIOUS
  <2>2. PICK data : data = SubSeq(obj.connector.inbox, 1, n)
    OBVIOUS
  <2>3. n \in 1 .. Len(obj.connector.inbox) /\ MayRead(obj.connector)
    BY <1>1, <1>2, <1>4, ProxyIs
  <2>4. Beneath(obj.connector, s) /\ data \in Seq(Unit)
    BY <2>1, <2>2, <2>3, ProxyIs, ReadOp
  <2>5. PICK v : v = [obj EXCEPT !["connector"] = s]
    OBVIOUS
  <2>6. ProxyOK(v, orphan)
    BY <2>4, <2>5, ProxyIs, BeneathConnector
  <2>7. PICK r : r = OnConnectorReceiveData(v, data)
    OBVIOUS
  <2>8. ProxyOK(r, orphan)
    BY <2>4, <2>6, <2>7, ConnectorDataOK
  <2>9. [obj EXCEPT ![side] = Read(@, n)] = v
    BY <1>4, <2>1, <2>5, ProxyIs
  <2>10. Received(v, "connector", data, result) = r
    BY <2>7, ProxyIs DEF Received
  <2>11. Becomes(r)
    BY <1>1, <1>4, <2>2, <2>9, <2>10, ProxyIs
  <2> QED
    BY <2>8, <2>11, ProxyIs, ProxyBecomes
<1> QED
  BY <1>3, <1>4, TwoSides

LEMMA ProxyWrites ==
    ASSUME ProxyInv(obj, orphan), NEW side \in Sides, WritableEvent(side)
    PROVE  ProxyInv(obj', orphan')
<1>1. PICK s, d, w : s = obj[side] /\ d = Drained(obj[side])
                     /\ w = With(obj, side, OnWritable(obj[side]))
  OBVIOUS
<1>2. Writable(s) /\ Becomes(Resumed(w, side))
  BY <1>1, ProxyIs DEF WritableEvent, After, Resumed
<1>3. SockOK(s)
  BY <1>1, TwoSides, ProxyIs
<1>4. Op(s, d) /\ IsOpen(s)
  BY <1>1, <1>2, <1>3, DrainedOp DEF Writable
<1>5. CASE side = "acceptor"
  <2>1. Full(obj.acceptor) /\ s = obj.acceptor
    BY <1>1, <1>2, <1>5, ProxyIs DEF Writable, Full
  <2>2. PICK r : r = With(obj, "acceptor", d)
    OBVIOUS
  <2>3. Resumed(w, side) = r
    BY <1>1, <1>2, <1>5, <2>1, <2>2, ProxyIs, ResumedAcceptor
  <2>4. d.readPaused => s.readPaused
    BY <1>1, <1>2, <1>3, DrainedOp
  <2>5. obj.state # "Greeting"
    BY <2>1, ProxyIs DEF ProxyOK, ProxyPhase
  <2>6. ProxyOK(r, orphan)
    BY <1>4, <2>1, <2>2, <2>4, <2>5, ProxyIs, AcceptorEvent
  <2> QED
    BY <1>2, <2>3, <2>6, ProxyIs, ProxyBecomes
<1>6. CASE side = "connector"
  <2>1. s = obj.connector
    BY <1>1, <1>6, ProxyIs
  <2>2. PICK r : r = With(obj, "connector", d)
    OBVIOUS
  <2>3. Resumed(w, side) = r
    BY <1>1, <1>2, <1>6, <2>1, <2>2, ProxyIs, ResumedConnector
  <2>4. ProxyOK(r, orphan)
    BY <1>4, <2>1, <2>2, ProxyIs, ConnectorEvent
  <2> QED
    BY <1>2, <2>3, <2>4, ProxyIs, ProxyBecomes
<1> QED
  BY <1>5, <1>6, TwoSides

(* The end of the peer and a failure: the socket ends, or waits to.        *)
LEMMA ProxyEnds ==
    ASSUME ProxyInv(obj, orphan), NEW side \in Sides,
           NEW s, Op(obj[side], s), IsOpen(obj[side]),
           s.readPaused = obj[side].readPaused, s.room = obj[side].room,
           ~Full(obj[side]) => s.fd = "closed",
           Becomes(With(obj, side, s))
    PROVE  ProxyInv(obj', orphan')
<1>1. PICK r : r = With(obj, side, s)
  OBVIOUS
<1>2. CASE side = "acceptor"
  <2>1. obj.state = "Greeting" => ~Full(s) /\ s.room = SendRoom
    BY <1>2, ProxyIs DEF ProxyOK, ProxyPhase, Op, SockOK
  <2>2. ProxyOK(r, orphan)
    BY <1>1, <1>2, <2>1, ProxyIs, AcceptorEvent
  <2> QED
    BY <1>1, <2>2, ProxyIs, ProxyBecomes
<1>3. CASE side = "connector"
  <2>1. ProxyOK(r, orphan)
    BY <1>1, <1>3, ProxyIs, ConnectorEvent
  <2> QED
    BY <1>1, <2>1, ProxyIs, ProxyBecomes
<1> QED
  BY <1>2, <1>3, TwoSides

LEMMA ProxyFinished ==
    ASSUME ProxyInv(obj, orphan), NEW side \in Sides, FinishedEvent(side) \/ FailureEvent(side)
    PROVE  ProxyInv(obj', orphan')
<1>1. SockOK(obj[side])
  BY TwoSides, ProxyIs
<1>2. CASE FinishedEvent(side)
  <2>1. PICK s : s = OnFinished(obj[side])
    OBVIOUS
  <2>2. Finished(obj[side]) /\ Becomes(With(obj, side, s)) /\ IsOpen(obj[side])
    BY <1>2, <2>1, ProxyIs DEF FinishedEvent, After, Finished
  <2>3. /\ Op(obj[side], s) /\ s.readPaused = obj[side].readPaused /\ s.room = obj[side].room
        /\ ~Full(obj[side]) => s.fd = "closed"
    BY <1>1, <2>1, <2>2, FinishedOp
  <2> QED
    BY <2>2, <2>3, ProxyEnds
<1>3. CASE FailureEvent(side)
  <2>1. PICK s : s = Close(obj[side], TRUE)
    OBVIOUS
  <2>2. Becomes(With(obj, side, s)) /\ IsOpen(obj[side])
    BY <1>3, <2>1, ProxyIs DEF FailureEvent, After, Failing
  <2>3. /\ Op(obj[side], s) /\ s.readPaused = obj[side].readPaused /\ s.room = obj[side].room
        /\ ~Full(obj[side]) => s.fd = "closed"
    BY <1>1, <2>1, <2>2, CloseOp
  <2> QED
    BY <2>2, <2>3, ProxyEnds
<1> QED
  BY <1>2, <1>3

LEMMA ProxyPeer ==
    ASSUME ProxyInv(obj, orphan), NEW side \in Sides, NEW s, Beneath(obj[side], s),
           PeerStep(side, s)
    PROVE  ProxyInv(obj', orphan')
<1>1. obj' = [obj EXCEPT ![side] = s] /\ orphan' = orphan
  BY DEF PeerStep
<1>2. CASE side = "acceptor"
  <2>1. ProxyOK(obj', orphan) /\ obj'.acceptor = s /\ obj'.connector = obj.connector
        /\ Rests(obj, obj')
    BY <1>1, <1>2, ProxyIs, BeneathAcceptor, Zenon
  <2> QED
    BY <1>1, <1>2, <2>1, ProxyIs DEF ProxyInv, Beneath, LookingUp, Rests
<1>3. CASE side = "connector"
  <2>1. ProxyOK(obj', orphan) /\ obj'.connector = s /\ obj'.acceptor = obj.acceptor
        /\ Rests(obj, obj')
    BY <1>1, <1>3, ProxyIs, BeneathConnector, Zenon
  <2> QED
    BY <1>1, <1>3, <2>1, ProxyIs DEF ProxyInv, Beneath, LookingUp, InLookup, Rests
<1> QED
  BY <1>2, <1>3, TwoSides

LEMMA Scripts ==
    /\ ClientScript \in Seq(Unit) /\ Len(ClientScript) = 7
    /\ TargetScript \in Seq(Unit) /\ Len(TargetScript) = 2
    /\ \A i \in 1 .. 7 : ClientScript[i] \in Unit
    /\ \A i \in 1 .. 2 : TargetScript[i] \in Unit
<1>1. /\ "greeting" \in Unit /\ "methods" \in Unit /\ "request" \in Unit /\ "address" \in Unit
      /\ "a" \in Unit /\ "b" \in Unit /\ "c" \in Unit /\ "x" \in Unit /\ "y" \in Unit
  BY DEF Unit
<1>2. PICK h : h = Handshake
  OBVIOUS
<1>3. h \in Seq(Unit) /\ Len(h) = 4
  BY <1>1, <1>2 DEF Handshake
<1>4. PICK d : d = <<"a", "b", "c">>
  OBVIOUS
<1>5. d \in Seq(Unit) /\ Len(d) = 3
  BY <1>1, <1>4
<1>6. ClientScript = h \o d
  BY <1>2, <1>4 DEF ClientScript
<1>7. ClientScript \in Seq(Unit) /\ Len(ClientScript) = 7
  <2>1. h \o d \in Seq(Unit)
    BY <1>3, <1>5, Cat
  <2>2. Len(h \o d) = Len(h) + Len(d)
    BY <1>3, <1>5, Cat
  <2> QED
    BY <1>3, <1>5, <1>6, <2>1, <2>2
<1>8. \A i \in 1 .. 7 : ClientScript[i] \in Unit
  BY <1>7, ElementOfSeq
<1>9. TargetScript \in Seq(Unit) /\ Len(TargetScript) = 2
  BY <1>1 DEF TargetScript
<1>10. \A i \in 1 .. 2 : TargetScript[i] \in Unit
  <2>1. PICK t : t = TargetScript
    OBVIOUS
  <2>2. t \in Seq(Unit) /\ Len(t) = 2
    BY <1>9, <2>1
  <2>3. \A i \in 1 .. 2 : t[i] \in Unit
    BY <2>2, ElementOfSeq
  <2> QED
    BY <2>1, <2>3
<1> QED
  BY <1>7, <1>8, <1>9, <1>10

(* What the peers do is beneath a socket, whatever the program.            *)
Peers == \/ ClientSends \/ TargetSends
         \/ \E side \in Sides : PeerTakes(side) \/ PeerFinishes(side) \/ PeerFails(side)

LEMMA PeersBeneath ==
    ASSUME SockOK(obj.acceptor), SockOK(obj.connector), sentUp \in Nat, sentDown \in Nat, Peers,
           obj["acceptor"] = obj.acceptor, obj["connector"] = obj.connector
    PROVE  /\ \E side \in Sides : \E s : Beneath(obj[side], s) /\ PeerStep(side, s)
           /\ sentUp' \in Nat /\ sentDown' \in Nat
<1>1. CASE ClientSends
  <2>1. PICK units : units = <<ClientScript[sentUp + 1]>>
    OBVIOUS
  <2>2. PICK s : s = Arrived(obj.acceptor, units)
    OBVIOUS
  <2>3. /\ PeerMaySend(obj.acceptor) /\ PeerStep("acceptor", s) /\ sentUp + 1 \in 1 .. 7
        /\ sentUp' = sentUp + 1 /\ sentDown' = sentDown
    BY <1>1, <2>1, <2>2, Scripts DEF ClientSends
  <2>4. ClientScript[sentUp + 1] \in Unit
    BY <2>3, Scripts
  <2>5. units \in Seq(Unit)
    BY <2>1, <2>4, OneUnit
  <2>6. Beneath(obj.acceptor, s)
    BY <2>2, <2>3, <2>5, PeerOps
  <2> QED
    BY <2>3, <2>6, TwoSides
<1>2. CASE TargetSends
  <2>1. PICK units : units = <<TargetScript[sentDown + 1]>>
    OBVIOUS
  <2>2. PICK s : s = Arrived(obj.connector, units)
    OBVIOUS
  <2>3. /\ PeerMaySend(obj.connector) /\ PeerStep("connector", s) /\ sentDown + 1 \in 1 .. 2
        /\ sentDown' = sentDown + 1 /\ sentUp' = sentUp
    BY <1>2, <2>1, <2>2, Scripts DEF TargetSends
  <2>4. TargetScript[sentDown + 1] \in Unit
    BY <2>3, Scripts
  <2>5. units \in Seq(Unit)
    BY <2>1, <2>4, OneUnit
  <2>6. Beneath(obj.connector, s)
    BY <2>2, <2>3, <2>5, PeerOps
  <2> QED
    BY <2>3, <2>6, TwoSides
<1>3. ASSUME NEW side \in Sides, PeerTakes(side) \/ PeerFinishes(side) \/ PeerFails(side)
      PROVE  /\ \E s : Beneath(obj[side], s) /\ PeerStep(side, s)
             /\ sentUp' \in Nat /\ sentDown' \in Nat
  <2>1. SockOK(obj[side])
    BY TwoSides
  <2>2. CASE PeerTakes(side)
    BY <2>1, <2>2, PeerOps DEF PeerTakes
  <2>3. CASE PeerFinishes(side)
    BY <2>1, <2>3, PeerOps DEF PeerFinishes
  <2>4. CASE PeerFails(side)
    BY <2>1, <2>4, PeerOps DEF PeerFails
  <2> QED
    BY <1>3, <2>2, <2>3, <2>4
<1> QED
  BY <1>1, <1>2, <1>3 DEF Peers

LEMMA ProxyNext ==
    ASSUME ProxyInv(obj, orphan), sentUp \in Nat, sentDown \in Nat, reused \in BOOLEAN, Next
    PROVE  ProxyInv(obj', orphan') /\ sentUp' \in Nat /\ sentDown' \in Nat
<1>1. CASE Peers
  <2>1. /\ \E side \in Sides : \E s : Beneath(obj[side], s) /\ PeerStep(side, s)
        /\ sentUp' \in Nat /\ sentDown' \in Nat
    BY <1>1, ProxyIs, PeersBeneath
  <2>2. PICK side \in Sides : \E s : Beneath(obj[side], s) /\ PeerStep(side, s)
    BY <2>1
  <2>3. PICK s : Beneath(obj[side], s) /\ PeerStep(side, s)
    BY <2>2
  <2> QED
    BY <2>1, <2>3, ProxyPeer
<1>2. CASE LookupAnswered
  <2>1. LookingUp(obj) /\ ProxyOK(obj, orphan) /\ (obj.acceptor.fd = "closed" => orphan)
    BY <1>2, ProxyIs DEF LookupAnswered, Asks, ProxyInv
  <2>2. PICK w : w = [obj EXCEPT !.connector.fd = "open"]
    OBVIOUS
  <2>3. PICK r : r = OnConnectFailed([obj EXCEPT !.connector.status = "Closed"])
    OBVIOUS
  <2>4. ProxyOK(w, orphan) /\ ProxyOK(r, orphan)
    BY <2>1, <2>2, <2>3, LookupOK
  <2>5. Becomes(w) \/ Becomes(r)
    BY <1>2, <2>2, <2>3, ProxyIs DEF LookupAnswered
  <2> QED
    BY <2>4, <2>5, ProxyIs, ProxyBecomes DEF Becomes
<1>3. CASE HandshakeDone
  <2>1. PICK r : r = OnConnected([obj EXCEPT !.connector.status = "Connected"], reused)
    OBVIOUS
  <2>2. Becomes(r) /\ InHandshake(obj.connector)
    BY <1>3, <2>1, ProxyIs DEF HandshakeDone
  <2>3. ProxyOK(r, orphan)
    BY <2>1, <2>2, ProxyIs, ConnectedOK
  <2> QED
    BY <2>2, <2>3, ProxyIs, ProxyBecomes DEF Becomes
<1>4. ASSUME NEW side \in Sides, ReadChunk(side) PROVE ProxyInv(obj', orphan')
  BY <1>4, ProxyReads
<1>5. ASSUME NEW side \in Sides, WritableEvent(side) PROVE ProxyInv(obj', orphan')
  BY <1>5, ProxyWrites
<1>6. ASSUME NEW side \in Sides, FinishedEvent(side) \/ FailureEvent(side)
      PROVE  ProxyInv(obj', orphan')
  BY <1>6, ProxyFinished
<1>7. ASSUME NEW side \in Sides,
             ReadChunk(side) \/ WritableEvent(side) \/ FinishedEvent(side) \/ FailureEvent(side)
      PROVE  UNCHANGED <<sentUp, sentDown>>
  BY <1>7 DEF ReadChunk, WritableEvent, FinishedEvent, FailureEvent, Becomes
<1>8. ASSUME NEW end \in {"near", "far"} PROVE ~FrameArrives(end)
  BY ProxyIs DEF FrameArrives
<1> QED
  BY <1>1, <1>2, <1>3, <1>4, <1>5, <1>6, <1>7, <1>8 DEF Next, Peers

LEMMA ReadySocketOK ==
    /\ SockOK(ReadySocket) /\ ReadySocket.status = "Ready" /\ ReadySocket.fd = "none"
    /\ ReadySocket.readPaused = FALSE
<1>1. << >> \in Buffers /\ << >> \in Seq(Unit)
  BY DEF Buffers
<1>2. ReadySocket \in Socket
  BY <1>1, EndpointAssumption DEF ReadySocket, Socket, Statuses
<1> QED
  BY <1>2, EndpointAssumption DEF ReadySocket, SockOK, Untouched, Full

LEMMA AcceptedSocketOK ==
    /\ SockOK(AcceptedSocket) /\ AcceptedSocket.status = "Connected" /\ AcceptedSocket.fd = "open"
    /\ AcceptedSocket.readPaused = FALSE /\ ~Full(AcceptedSocket)
    /\ AcceptedSocket.room = SendRoom /\ ~AcceptedSocket.reset
<1>1. PICK r : r = ReadySocket
  OBVIOUS
<1>2. /\ r \in Socket /\ r.room = SendRoom /\ r.writeQueue = << >> /\ ~r.shut /\ ~r.pendingClose
      /\ ~r.reset /\ r.readPaused = FALSE
  BY <1>1, ReadySocketOK DEF SockOK, ReadySocket
<1>3. PICK s : s = AcceptedSocket
  OBVIOUS
<1>4. /\ s \in Socket /\ s.room = SendRoom /\ s.writeQueue = << >> /\ ~s.shut /\ ~s.pendingClose
      /\ ~s.reset /\ s.readPaused = FALSE /\ s.status = "Connected" /\ s.fd = "open"
  BY <1>1, <1>2, <1>3 DEF AcceptedSocket, Socket, Statuses
<1>5. s.room <= SendRoom
  BY <1>4, EndpointAssumption
<1> QED
  BY <1>3, <1>4, <1>5 DEF SockOK, Full

LEMMA ProxyInit ==
    ASSUME NEW kind \in Clients
    PROVE  ProxyInv(Proxy(kind), FALSE)
<1>1. PICK a, c : a = AcceptedSocket /\ c = ReadySocket
  OBVIOUS
<1>2. /\ SockOK(a) /\ a.status = "Connected" /\ a.fd = "open" /\ a.readPaused = FALSE
      /\ ~Full(a) /\ a.room = SendRoom
  BY <1>1, AcceptedSocketOK
<1>3. SockOK(c) /\ c.status = "Ready" /\ c.fd = "none" /\ c.readPaused = FALSE
  BY <1>1, ReadySocketOK
<1>4. a \in Socket /\ c \in Socket
  BY <1>2, <1>3 DEF SockOK
<1>5. PICK w : w = Proxy(kind)
  OBVIOUS
<1>6. << >> \in Seq(Unit)
  OBVIOUS
<1>7. w \in ProxyObjs /\ w.acceptor = a /\ w.connector = c /\ w.state = "Greeting"
  BY <1>1, <1>4, <1>5, <1>6 DEF Proxy, ProxyObjs, States
<1>8. Couple(a, c, FALSE)
  BY <1>2, <1>3 DEF Couple, PausePair, EndPair, IsOpen
<1>9. Linked(w, FALSE)
  BY <1>2, <1>7, <1>8 DEF Linked
<1>10. ProxyPhase(w)
  BY <1>2, <1>3, <1>7 DEF ProxyPhase, Unasked, NonePaused
<1> QED
  BY <1>2, <1>5, <1>7, <1>9, <1>10 DEF ProxyInv, ProxyOK

-----------------------------------------------------------------------------
(* The tunnel.                                                             *)
Handlers == {"none", "WaitingRequest", "Connecting", "Connected"}
Streams == [known : BOOLEAN, localClosed : BOOLEAN, remoteClosed : BOOLEAN]
Kinds == {"SYN", "Data", "FIN", "RST"}
Frames == [kind : Kinds, data : Seq(Unit)]
TunnelObjs == [program : {"tunnel"}, client : Clients, acceptor : Socket, connector : Socket,
               state : States, clientBuffer : Seq(Unit), hasStreamId : BOOLEAN,
               handler : Handlers, buffer : Seq(Unit), near : Streams, far : Streams,
               up : Seq(Frames), down : Seq(Frames)]

NotYet(stream) == ~stream.known /\ ~stream.localClosed /\ ~stream.remoteClosed
Standing(stream) == stream.known /\ ~stream.localClosed /\ ~stream.remoteClosed
Talking(w) == w.state \in {"Connecting", "Connected"}

Ends(frame) == frame.kind \in {"FIN", "RST"}
SynFirst(frames, stream) ==
    \A i \in 1 .. Len(frames) : frames[i].kind = "SYN" => i = 1 /\ NotYet(stream)
NoSyn(frames) == \A i \in 1 .. Len(frames) : frames[i].kind # "SYN"

(* Before the request there is no stream; ...                              *)
Unopened(w) == /\ NotYet(w.near) /\ NotYet(w.far) /\ ~w.hasStreamId
               /\ w.up = << >> /\ w.down = << >> /\ w.handler = "none"
               /\ w.connector.fd = "none" /\ w.connector.status = "Ready"

(* ... afterwards each end knows of the other what was sent and handled:   *)
(* an end that closed has said so, or was told first.                      *)
NearOK(w) ==
    /\ IsOpen(w.acceptor) => w.hasStreamId /\ Standing(w.near)
    /\ ~w.near.known => w.near.remoteClosed
    /\ w.near.localClosed => ~IsOpen(w.acceptor) /\ (Ended(w.up) \/ w.far.remoteClosed)
    /\ w.near.remoteClosed => ~IsOpen(w.acceptor) /\ w.far.localClosed
FarOK(w, o) ==
    /\ ~w.far.known => NotYet(w.far) \/ (w.far.localClosed /\ w.far.remoteClosed)
    /\ NotYet(w.far) => w.handler = "none" /\ w.up # << >> /\ w.up[1].kind = "SYN"
    /\ w.handler \in {"none", "WaitingRequest"} =>
          w.connector.fd = "none" /\ w.connector.status = "Ready" /\ ~w.far.localClosed
    /\ w.handler = "Connected" => w.connector.fd # "none"
                                  /\ w.connector.status \notin {"Ready", "Connecting"}
    /\ w.far.localClosed => ~IsOpen(w.connector) /\ (Ended(w.down) \/ w.near.remoteClosed)
    /\ w.far.remoteClosed /\ IsOpen(w.connector) => o
LinesOK(w) == /\ SynFirst(w.up, w.far) /\ NoSyn(w.down)
              /\ Ended(w.down) => w.far.localClosed
PausesAlone(w) == /\ IsOpen(w.acceptor) /\ w.acceptor.readPaused => Full(w.acceptor)
                  /\ w.connector.fd # "closed" /\ w.connector.readPaused => Full(w.connector)
EndsOK(w) == /\ SockOK(w.acceptor) /\ SockOK(w.connector)
             /\ w.acceptor.fd # "none" /\ w.acceptor.status # "Connecting" /\ PausesAlone(w)

TunnelHalf(w, o) ==
    /\ w \in TunnelObjs /\ o \in BOOLEAN /\ EndsOK(w) /\ LinesOK(w)
    /\ ~Talking(w) => Unopened(w)
    /\ Talking(w) => NearOK(w) /\ FarOK(w, o)

(* A socket that has closed has told its stream.                           *)
Told(w) == Talking(w) =>
    /\ ~IsOpen(w.acceptor) => w.near.localClosed \/ w.near.remoteClosed
    /\ w.connector.fd = "closed" => w.far.localClosed

TunnelOK(w, o) == TunnelHalf(w, o) /\ Told(w)

LEMMA EndedAppend ==
    ASSUME NEW frames \in Seq(Frames), NEW x \in Frames
    PROVE  /\ Append(frames, x) \in Seq(Frames)
           /\ Ended(Append(frames, x)) <=> Ended(frames) \/ Ends(x)
           /\ Append(frames, x) # << >>
           /\ frames # << >> => Append(frames, x)[1] = frames[1]
           /\ frames = << >> => Append(frames, x)[1] = x
           /\ \A stream : x.kind # "SYN" /\ SynFirst(frames, stream) =>
                 SynFirst(Append(frames, x), stream)
           /\ x.kind # "SYN" /\ NoSyn(frames) => NoSyn(Append(frames, x))
<1>1. PICK g : g = Append(frames, x)
  OBVIOUS
<1>2. /\ g \in Seq(Frames) /\ Len(g) = Len(frames) + 1 /\ Len(frames) \in Nat
      /\ DOMAIN g = 1 .. Len(g) /\ DOMAIN frames = 1 .. Len(frames)
      /\ g[Len(g)] = x
  BY <1>1
<1>3. \A i \in 1 .. Len(frames) : g[i] = frames[i]
  BY <1>1
<1>4. Ended(g) <=> Ended(frames) \/ Ends(x)
  <2>1. Len(g) \in 1 .. Len(g) /\ \A i \in 1 .. Len(g) : i = Len(g) \/ i \in 1 .. Len(frames)
    BY <1>2
  <2>2. \A i \in 1 .. Len(frames) : i \in 1 .. Len(g)
    BY <1>2
  <2> QED
    BY <1>2, <1>3, <2>1, <2>2 DEF Ended, Ends
<1>5. frames # << >> => 1 \in 1 .. Len(frames)
  BY <1>2
<1>6. \A i \in 1 .. Len(g) : i = Len(g) \/ i \in 1 .. Len(frames)
  BY <1>2
<1> HIDE DEF Frames
<1> QED
  BY <1>1, <1>2, <1>3, <1>4, <1>5, <1>6 DEF SynFirst, NoSyn

LEMMA EndedTail ==
    ASSUME NEW frames \in Seq(Frames), frames # << >>
    PROVE  /\ Head(frames) \in Frames /\ Tail(frames) \in Seq(Frames) /\ Head(frames) = frames[1]
           /\ Ended(frames) <=> Ends(Head(frames)) \/ Ended(Tail(frames))
           /\ \A stream : SynFirst(frames, stream) => NoSyn(Tail(frames))
           /\ NoSyn(frames) => NoSyn(Tail(frames)) /\ Head(frames).kind # "SYN"
           /\ \A stream : SynFirst(frames, stream) /\ Head(frames).kind = "SYN" => NotYet(stream)
<1>1. PICK g, h : g = Tail(frames) /\ h = Head(frames)
  OBVIOUS
<1>2. /\ g \in Seq(Frames) /\ Len(g) = Len(frames) - 1 /\ Len(frames) \in Nat \ {0}
      /\ DOMAIN g = 1 .. Len(g) /\ DOMAIN frames = 1 .. Len(frames) /\ h \in Frames
      /\ h = frames[1]
  BY <1>1
<1>3. \A i \in 1 .. Len(g) : g[i] = frames[i + 1] /\ i + 1 \in 1 .. Len(frames) /\ i + 1 # 1
  BY <1>1, <1>2
<1>4. 1 \in 1 .. Len(frames)
  BY <1>2
<1>5. \A i \in 1 .. Len(frames) : i = 1 \/ \E j \in 1 .. Len(g) : i = j + 1
  <2>1. ASSUME NEW i \in 1 .. Len(frames), i # 1 PROVE i - 1 \in 1 .. Len(g) /\ i = (i - 1) + 1
    BY <1>2, <2>1
  <2> QED
    BY <2>1
<1>6. Ended(frames) <=> Ends(h) \/ Ended(g)
  <2> DEFINE IsLast(f) == f.kind \in {"FIN", "RST"}
  <2>1. Ended(frames) <=> \E i \in 1 .. Len(frames) : IsLast(frames[i])
    BY <1>2 DEF Ended
  <2>2. Ended(g) <=> \E i \in 1 .. Len(g) : IsLast(g[i])
    BY <1>2 DEF Ended
  <2>3. Ends(h) <=> IsLast(h)
    BY DEF Ends
  <2> HIDE DEF IsLast
  <2>4. ASSUME NEW i \in 1 .. Len(frames), IsLast(frames[i]) PROVE Ends(h) \/ Ended(g)
    <3>1. CASE i = 1
      BY <1>2, <2>3, <2>4, <3>1
    <3>2. CASE i # 1
      <4>1. PICK j \in 1 .. Len(g) : i = j + 1
        BY <1>5, <3>2
      <4>2. g[j] = frames[i]
        BY <1>3, <4>1
      <4> QED
        BY <2>2, <2>4, <4>2
    <3> QED
      BY <3>1, <3>2
  <2>5. Ends(h) \/ Ended(g) => Ended(frames)
    BY <1>2, <1>3, <1>4, <2>1, <2>2, <2>3
  <2> QED
    BY <2>1, <2>4, <2>5
<1> QED
  BY <1>1, <1>2, <1>3, <1>4, <1>6 DEF SynFirst, NoSyn

LEMMA NoSynFirst ==
    ASSUME NEW frames, NEW stream, NoSyn(frames)
    PROVE  SynFirst(frames, stream)
  BY DEF NoSyn, SynFirst

LEMMA FrameIn ==
    ASSUME NEW kind \in Kinds, NEW data \in Seq(Unit)
    PROVE  Frame(kind, data) \in Frames /\ Frame(kind, data).kind = kind
           /\ Frame(kind, data).data = data
  BY DEF Frame, Frames

LEMMA TunnelFields ==
    ASSUME NEW w, NEW o, TunnelHalf(w, o)
    PROVE  /\ SockOK(w.acceptor) /\ SockOK(w.connector) /\ w.acceptor \in Socket
           /\ w.connector \in Socket /\ w.state \in States /\ w.client \in Clients
           /\ w.clientBuffer \in Seq(Unit) /\ w.buffer \in Seq(Unit) /\ w \in TunnelObjs
           /\ w["acceptor"] = w.acceptor /\ w["connector"] = w.connector
           /\ w["near"] = w.near /\ w["far"] = w.far
           /\ w.near \in Streams /\ w.far \in Streams /\ w.hasStreamId \in BOOLEAN
           /\ w.handler \in Handlers /\ w.up \in Seq(Frames) /\ w.down \in Seq(Frames)
           /\ w.acceptor.fd \in {"open", "closed"} /\ w.acceptor.status # "Connecting"
           /\ w.connector.fd \in {"none", "open", "closed"} /\ o \in BOOLEAN
<1>1. SockOK(w.acceptor) /\ SockOK(w.connector) /\ w.acceptor.fd # "none"
      /\ w.acceptor.status # "Connecting"
  BY DEF TunnelHalf, EndsOK
<1>2. w.acceptor.fd \in {"open", "closed"} /\ w.connector.fd \in {"none", "open", "closed"}
  BY <1>1, Fields
<1> QED
  BY <1>1, <1>2 DEF TunnelHalf, TunnelObjs

(* What an assignment to a field leaves of the rest.                       *)
LEMMA SetAcceptor ==
    ASSUME NEW w \in TunnelObjs, NEW s \in Socket
    PROVE  LET r == [w EXCEPT !.acceptor = s]
           IN  /\ r \in TunnelObjs /\ r.acceptor = s
               /\ r.program = w.program /\ r.client = w.client /\ r.connector = w.connector
               /\ r.state = w.state /\ r.clientBuffer = w.clientBuffer
               /\ r.hasStreamId = w.hasStreamId /\ r.handler = w.handler /\ r.buffer = w.buffer
               /\ r.near = w.near /\ r.far = w.far /\ r.up = w.up /\ r.down = w.down
  BY Zenon DEF TunnelObjs

LEMMA SetConnector ==
    ASSUME NEW w \in TunnelObjs, NEW s \in Socket
    PROVE  LET r == [w EXCEPT !.connector = s]
           IN  /\ r \in TunnelObjs /\ r.connector = s
               /\ r.program = w.program /\ r.client = w.client /\ r.acceptor = w.acceptor
               /\ r.state = w.state /\ r.clientBuffer = w.clientBuffer
               /\ r.hasStreamId = w.hasStreamId /\ r.handler = w.handler /\ r.buffer = w.buffer
               /\ r.near = w.near /\ r.far = w.far /\ r.up = w.up /\ r.down = w.down
  BY Zenon DEF TunnelObjs

LEMMA SetState ==
    ASSUME NEW w \in TunnelObjs, NEW s \in States
    PROVE  LET r == [w EXCEPT !.state = s]
           IN  /\ r \in TunnelObjs /\ r.state = s
               /\ r.program = w.program /\ r.client = w.client /\ r.acceptor = w.acceptor
               /\ r.connector = w.connector /\ r.clientBuffer = w.clientBuffer
               /\ r.hasStreamId = w.hasStreamId /\ r.handler = w.handler /\ r.buffer = w.buffer
               /\ r.near = w.near /\ r.far = w.far /\ r.up = w.up /\ r.down = w.down
  BY Zenon DEF TunnelObjs

LEMMA SetClientBuffer ==
    ASSUME NEW w \in TunnelObjs, NEW s \in Seq(Unit)
    PROVE  LET r == [w EXCEPT !.clientBuffer = s]
           IN  /\ r \in TunnelObjs /\ r.clientBuffer = s
               /\ r.program = w.program /\ r.client = w.client /\ r.acceptor = w.acceptor
               /\ r.connector = w.connector /\ r.state = w.state
               /\ r.hasStreamId = w.hasStreamId /\ r.handler = w.handler /\ r.buffer = w.buffer
               /\ r.near = w.near /\ r.far = w.far /\ r.up = w.up /\ r.down = w.down
  BY Zenon DEF TunnelObjs

LEMMA SetHasStreamId ==
    ASSUME NEW w \in TunnelObjs, NEW s \in BOOLEAN
    PROVE  LET r == [w EXCEPT !.hasStreamId = s]
           IN  /\ r \in TunnelObjs /\ r.hasStreamId = s
               /\ r.program = w.program /\ r.client = w.client /\ r.acceptor = w.acceptor
               /\ r.connector = w.connector /\ r.state = w.state
               /\ r.clientBuffer = w.clientBuffer /\ r.handler = w.handler
               /\ r.buffer = w.buffer /\ r.near = w.near /\ r.far = w.far /\ r.up = w.up
               /\ r.down = w.down
  BY Zenon DEF TunnelObjs

LEMMA SetHandler ==
    ASSUME NEW w \in TunnelObjs, NEW s \in Handlers
    PROVE  LET r == [w EXCEPT !.handler = s]
           IN  /\ r \in TunnelObjs /\ r.handler = s
               /\ r.program = w.program /\ r.client = w.client /\ r.acceptor = w.acceptor
               /\ r.connector = w.connector /\ r.state = w.state
               /\ r.clientBuffer = w.clientBuffer /\ r.hasStreamId = w.hasStreamId
               /\ r.buffer = w.buffer /\ r.near = w.near /\ r.far = w.far /\ r.up = w.up
               /\ r.down = w.down
  BY Zenon DEF TunnelObjs

LEMMA SetBuffer ==
    ASSUME NEW w \in TunnelObjs, NEW s \in Seq(Unit)
    PROVE  LET r == [w EXCEPT !.buffer = s]
           IN  /\ r \in TunnelObjs /\ r.buffer = s
               /\ r.program = w.program /\ r.client = w.client /\ r.acceptor = w.acceptor
               /\ r.connector = w.connector /\ r.state = w.state
               /\ r.clientBuffer = w.clientBuffer /\ r.hasStreamId = w.hasStreamId
               /\ r.handler = w.handler /\ r.near = w.near /\ r.far = w.far /\ r.up = w.up
               /\ r.down = w.down
  BY Zenon DEF TunnelObjs

LEMMA SetNear ==
    ASSUME NEW w \in TunnelObjs, NEW s \in Streams
    PROVE  LET r == [w EXCEPT !.near = s]
           IN  /\ r \in TunnelObjs /\ r.near = s
               /\ r.program = w.program /\ r.client = w.client /\ r.acceptor = w.acceptor
               /\ r.connector = w.connector /\ r.state = w.state
               /\ r.clientBuffer = w.clientBuffer /\ r.hasStreamId = w.hasStreamId
               /\ r.handler = w.handler /\ r.buffer = w.buffer /\ r.far = w.far /\ r.up = w.up
               /\ r.down = w.down
  BY Zenon DEF TunnelObjs

LEMMA SetFar ==
    ASSUME NEW w \in TunnelObjs, NEW s \in Streams
    PROVE  LET r == [w EXCEPT !.far = s]
           IN  /\ r \in TunnelObjs /\ r.far = s
               /\ r.program = w.program /\ r.client = w.client /\ r.acceptor = w.acceptor
               /\ r.connector = w.connector /\ r.state = w.state
               /\ r.clientBuffer = w.clientBuffer /\ r.hasStreamId = w.hasStreamId
               /\ r.handler = w.handler /\ r.buffer = w.buffer /\ r.near = w.near
               /\ r.up = w.up /\ r.down = w.down
  BY Zenon DEF TunnelObjs

LEMMA SetUp ==
    ASSUME NEW w \in TunnelObjs, NEW s \in Seq(Frames)
    PROVE  LET r == [w EXCEPT !.up = s]
           IN  /\ r \in TunnelObjs /\ r.up = s
               /\ r.program = w.program /\ r.client = w.client /\ r.acceptor = w.acceptor
               /\ r.connector = w.connector /\ r.state = w.state
               /\ r.clientBuffer = w.clientBuffer /\ r.hasStreamId = w.hasStreamId
               /\ r.handler = w.handler /\ r.buffer = w.buffer /\ r.near = w.near
               /\ r.far = w.far /\ r.down = w.down
  BY DEF TunnelObjs

LEMMA SetDown ==
    ASSUME NEW w \in TunnelObjs, NEW s \in Seq(Frames)
    PROVE  LET r == [w EXCEPT !.down = s]
           IN  /\ r \in TunnelObjs /\ r.down = s
               /\ r.program = w.program /\ r.client = w.client /\ r.acceptor = w.acceptor
               /\ r.connector = w.connector /\ r.state = w.state
               /\ r.clientBuffer = w.clientBuffer /\ r.hasStreamId = w.hasStreamId
               /\ r.handler = w.handler /\ r.buffer = w.buffer /\ r.near = w.near
               /\ r.far = w.far /\ r.up = w.up
  BY DEF TunnelObjs

(* All but the lines.                                                      *)
Alike(w, r) ==
    /\ r.acceptor = w.acceptor /\ r.connector = w.connector /\ r.state = w.state
    /\ r.client = w.client /\ r.clientBuffer = w.clientBuffer /\ r.buffer = w.buffer
    /\ r.hasStreamId = w.hasStreamId /\ r.handler = w.handler
    /\ r.near = w.near /\ r.far = w.far

LEMMA StreamSent ==
    ASSUME NEW w, NEW o, TunnelHalf(w, o), NEW end \in {"near", "far"}, NEW data \in Seq(Unit)
    PROVE  LET r == SendToStream(w, end, data)
           IN  TunnelHalf(r, o) /\ Alike(w, r) /\ (Told(w) => Told(r))
<1>0. w \in TunnelObjs
  BY DEF TunnelHalf
<1>1. PICK r : r = SendToStream(w, end, data)
  OBVIOUS
<1>2. CASE ~(data # << >> /\ w[end].known /\ ~w[end].localClosed)
  <2>1. r = w
    BY <1>1, <1>2 DEF SendToStream
  <2> QED
    BY <1>1, <2>1 DEF Alike
<1>3. CASE data # << >> /\ w[end].known /\ ~w[end].localClosed
  <2>1. PICK x : x = Frame("Data", data)
    OBVIOUS
  <2>2. x \in Frames /\ x.kind = "Data"
    <3>1. "Data" \in Kinds
      BY DEF Kinds
    <3> QED
      BY <2>1, <3>1, FrameIn
  <2>3. Talking(w)
    BY <1>3, TunnelFields DEF TunnelHalf, Unopened, NotYet
  <2>4. CASE end = "near"
    <3>1. PICK g : g = Append(w.up, x)
      OBVIOUS
    <3>2. r = [w EXCEPT !.up = g]
      BY <1>1, <1>3, <2>1, <2>4, <3>1, TunnelFields DEF SendToStream, Put, TunnelObjs
    <3>3. /\ g \in Seq(Frames) /\ (Ended(w.up) => Ended(g)) /\ g # << >>
          /\ (w.up # << >> => g[1] = w.up[1])
          /\ (SynFirst(w.up, w.far) => SynFirst(g, w.far))
      BY <2>2, <3>1, TunnelFields, EndedAppend
    <3>4. r \in TunnelObjs /\ Alike(w, r) /\ r.up = g /\ r.down = w.down
      BY <1>0, <3>2, <3>3, SetUp DEF Alike
    <3>5. TunnelHalf(r, o)
      BY <2>3, <3>3, <3>4
      DEF TunnelHalf, Alike, EndsOK, PausesAlone, LinesOK, Talking, NearOK, FarOK
    <3> QED
      BY <1>1, <3>4, <3>5 DEF Told, Alike, Talking
  <2>5. CASE end = "far"
    <3>1. PICK g : g = Append(w.down, x)
      OBVIOUS
    <3>2. r = [w EXCEPT !.down = g]
      BY <1>1, <1>3, <2>1, <2>5, <3>1, TunnelFields DEF SendToStream, Put, TunnelObjs
    <3>3. g \in Seq(Frames) /\ (Ended(w.down) <=> Ended(g)) /\ (NoSyn(w.down) => NoSyn(g))
      BY <2>2, <3>1, TunnelFields, EndedAppend DEF Ends
    <3>4. r \in TunnelObjs /\ Alike(w, r) /\ r.down = g /\ r.up = w.up
      BY <1>0, <3>2, <3>3, SetDown DEF Alike
    <3>5. TunnelHalf(r, o)
      BY <2>3, <3>3, <3>4
      DEF TunnelHalf, Alike, EndsOK, PausesAlone, LinesOK, Talking, NearOK, FarOK
    <3> QED
      BY <1>1, <3>4, <3>5 DEF Told, Alike, Talking
  <2> QED
    BY <2>4, <2>5
<1> QED
  BY <1>2, <1>3

(* A socket closed of itself, and its stream is closed after it.           *)
LEMMA NearCloses ==
    ASSUME NEW w, NEW o, TunnelHalf(w, o), Talking(w), ~IsOpen(w.acceptor), Standing(w.near),
           w.connector.fd = "closed" => w.far.localClosed
    PROVE  LET r == CloseStream(w, "near", TRUE)
           IN  /\ TunnelOK(r, o) /\ r.acceptor = w.acceptor /\ r.connector = w.connector
               /\ r.state = w.state
<1>0. w \in TunnelObjs
  BY DEF TunnelHalf
<1>1. PICK n : n = [w.near EXCEPT !.localClosed = TRUE]
  OBVIOUS
<1>2. n \in Streams /\ n.localClosed /\ n.known = w.near.known /\ n.remoteClosed = w.near.remoteClosed
  BY <1>1, TunnelFields, Zenon DEF Streams
<1>3. << >> \in Seq(Unit) /\ "RST" \in Kinds
  BY Cat DEF Kinds
<1>4. PICK x : x = Frame("RST", << >>)
  OBVIOUS
<1>5. x \in Frames /\ x.kind = "RST"
  BY <1>3, <1>4, FrameIn, Zenon
<1>6. PICK g : g = Append(w.up, x)
  OBVIOUS
<1>7. /\ g \in Seq(Frames) /\ Ended(g) /\ g # << >> /\ (w.up # << >> => g[1] = w.up[1])
      /\ (SynFirst(w.up, w.far) => SynFirst(g, w.far))
  BY <1>5, <1>6, TunnelFields, EndedAppend DEF Ends
<1>8. PICK v : v = [w EXCEPT !.near = n]
  OBVIOUS
<1>9. PICK r : r = CloseStream(w, "near", TRUE)
  OBVIOUS
<1>10. r = Put([w EXCEPT !["near"].localClosed = TRUE], "near", Frame("RST", << >>))
  BY <1>9, TunnelFields DEF CloseStream, Standing
<1>11. v \in TunnelObjs /\ v.acceptor = w.acceptor /\ v.connector = w.connector
       /\ v.state = w.state /\ v.hasStreamId = w.hasStreamId /\ v.handler = w.handler
       /\ v.near = n /\ v.far = w.far /\ v.up = w.up /\ v.down = w.down
  BY <1>0, <1>2, <1>8, SetNear
<1>12. r = [v EXCEPT !.up = g]
  <2>1. [w EXCEPT !["near"].localClosed = TRUE] = v
    BY <1>1, <1>8, Zenon
  <2> QED
    BY <1>4, <1>6, <1>10, <1>11, <2>1 DEF Put
<1>13. /\ r \in TunnelObjs /\ r.acceptor = w.acceptor /\ r.connector = w.connector
       /\ r.state = w.state /\ r.hasStreamId = w.hasStreamId /\ r.handler = w.handler
       /\ r.near = n /\ r.far = w.far /\ r.up = g /\ r.down = w.down
  BY <1>7, <1>11, <1>12, SetUp
<1>14. EndsOK(r) /\ LinesOK(r)
  BY <1>7, <1>13 DEF TunnelHalf, EndsOK, PausesAlone, LinesOK
<1>15. NearOK(r) /\ FarOK(r, o)
  BY <1>2, <1>7, <1>13 DEF TunnelHalf, NearOK, FarOK, Standing
<1> QED
  BY <1>2, <1>9, <1>13, <1>14, <1>15 DEF TunnelOK, TunnelHalf, Talking, Told

LEMMA FarCloses ==
    ASSUME NEW w, NEW o, TunnelHalf(w, o), Talking(w), ~IsOpen(w.connector),
           w.far.known, ~w.far.localClosed, w.handler \in {"Connecting", "Connected"},
           ~IsOpen(w.acceptor) => w.near.localClosed \/ w.near.remoteClosed
    PROVE  LET r == CloseStream(w, "far", FALSE)
           IN  /\ TunnelOK(r, o) /\ r.acceptor = w.acceptor /\ r.connector = w.connector
               /\ r.state = w.state
<1>0. w \in TunnelObjs
  BY DEF TunnelHalf
<1>3. << >> \in Seq(Unit) /\ "FIN" \in Kinds
  BY Cat DEF Kinds
<1>4. PICK x : x = Frame("FIN", << >>)
  OBVIOUS
<1>5. x \in Frames /\ x.kind = "FIN"
  BY <1>3, <1>4, FrameIn
<1>6. PICK g : g = Append(w.down, x)
  OBVIOUS
<1>7. g \in Seq(Frames) /\ Ended(g) /\ (NoSyn(w.down) => NoSyn(g))
  BY <1>5, <1>6, TunnelFields, EndedAppend DEF Ends
<1>9. PICK r : r = CloseStream(w, "far", FALSE)
  OBVIOUS
<1>10. PICK c : c = Put([w EXCEPT !["far"].localClosed = TRUE], "far", Frame("FIN", << >>))
  OBVIOUS
<1>f. PICK f : /\ f \in Streams /\ f.localClosed /\ f.remoteClosed = w.far.remoteClosed
               /\ f.known = (w.far.known /\ ~w.far.remoteClosed)
               /\ r \in TunnelObjs /\ r.acceptor = w.acceptor /\ r.connector = w.connector
               /\ r.state = w.state /\ r.hasStreamId = w.hasStreamId /\ r.handler = w.handler
               /\ r.near = w.near /\ r.far = f /\ r.up = w.up /\ r.down = g
  <2>1. PICK n : n = [w.far EXCEPT !.localClosed = TRUE]
    OBVIOUS
  <2>2. n \in Streams /\ n.localClosed /\ n.known = w.far.known /\ n.remoteClosed = w.far.remoteClosed
    BY <2>1, TunnelFields DEF Streams
  <2>3. PICK v : v = [w EXCEPT !.far = n]
    OBVIOUS
  <2>4. /\ v \in TunnelObjs /\ v.acceptor = w.acceptor /\ v.connector = w.connector
        /\ v.state = w.state /\ v.hasStreamId = w.hasStreamId /\ v.handler = w.handler
        /\ v.near = w.near /\ v.far = n /\ v.up = w.up /\ v.down = w.down
    BY <1>0, <2>2, <2>3, SetFar
  <2>5. c = [v EXCEPT !.down = g]
    <3>1. [w EXCEPT !["far"].localClosed = TRUE] = v
      BY <2>1, <2>3
    <3> QED
      BY <1>4, <1>6, <1>10, <2>4, <3>1 DEF Put
  <2>6. /\ c \in TunnelObjs /\ c.acceptor = w.acceptor /\ c.connector = w.connector
        /\ c.state = w.state /\ c.hasStreamId = w.hasStreamId /\ c.handler = w.handler
        /\ c.near = w.near /\ c.far = n /\ c.up = w.up /\ c.down = g
    BY <1>7, <2>4, <2>5, SetDown
  <2>7. CASE ~w.far.remoteClosed
    <3>1. r = c
      BY <1>9, <1>10, <2>7, TunnelFields DEF CloseStream
    <3> QED
      BY <2>2, <2>6, <2>7, <3>1, TunnelFields DEF Streams
  <2>8. CASE w.far.remoteClosed
    <3>1. r = [c EXCEPT !["connector"] = Close(@, TRUE), !["far"].known = FALSE,
                        !.hasStreamId = @ /\ "far" # "near"]
      BY <1>9, <1>10, <2>8, TunnelFields DEF CloseStream
    <3>2. PICK m : m = [n EXCEPT !.known = FALSE]
      OBVIOUS
    <3>3. m \in Streams /\ m.localClosed /\ ~m.known /\ m.remoteClosed = w.far.remoteClosed
          /\ m.known \in BOOLEAN
      BY <2>2, <3>2 DEF Streams
    <3>4. Close(c.connector, TRUE) = c.connector
      BY <2>6 DEF Close
    <3>5. r = [c EXCEPT !.connector = c.connector, !.far = m, !.hasStreamId = c.hasStreamId]
      BY <2>6, <3>1, <3>2, <3>4 DEF TunnelObjs
    <3>6. /\ r \in TunnelObjs /\ r.acceptor = w.acceptor /\ r.connector = w.connector
          /\ r.state = w.state /\ r.hasStreamId = w.hasStreamId /\ r.handler = w.handler
          /\ r.near = w.near /\ r.far = m /\ r.up = w.up /\ r.down = g
      BY <2>6, <3>3, <3>5, TunnelFields DEF TunnelObjs
    <3> QED
      BY <2>8, <3>3, <3>6
  <2> QED
    BY <2>7, <2>8
<1>14. EndsOK(r) /\ LinesOK(r)
  <2>1. EndsOK(r)
    BY <1>f DEF TunnelHalf, EndsOK, PausesAlone
  <2>2. SynFirst(w.up, f)
    BY DEF TunnelHalf, LinesOK, FarOK, NotYet, SynFirst
  <2> QED
    BY <1>7, <1>f, <2>1, <2>2 DEF TunnelHalf, LinesOK
<1>15. NearOK(r) /\ FarOK(r, o)
  BY <1>7, <1>f DEF TunnelHalf, NearOK, FarOK, NotYet
<1> QED
  BY <1>9, <1>f, <1>14, <1>15, Zenon DEF TunnelOK, TunnelHalf, Talking, Told

LEMMA UpdateNear ==
    ASSUME NEW w, NEW o, TunnelOK(w, o), NEW s, Op(w.acceptor, s)
    PROVE  LET r == Update(w, "acceptor", s)
           IN  /\ TunnelOK(r, o) /\ r.acceptor = s /\ r.connector = w.connector
               /\ r.state = w.state
<1>0. /\ w \in TunnelObjs /\ TunnelHalf(w, o) /\ Told(w) /\ EndsOK(w) /\ LinesOK(w)
      /\ w["acceptor"] = w.acceptor
  BY TunnelFields DEF TunnelOK, TunnelHalf
<1>1. s \in Socket /\ SockOK(s) /\ w.acceptor \in Socket /\ SockOK(w.acceptor)
  BY <1>0, TunnelFields DEF Op, SockOK
<1>2. PICK v : v = [w EXCEPT !.acceptor = s]
  OBVIOUS
<1>3. /\ v \in TunnelObjs /\ v.acceptor = s /\ v.connector = w.connector
      /\ v.state = w.state /\ v.hasStreamId = w.hasStreamId /\ v.handler = w.handler
      /\ v.near = w.near /\ v.far = w.far /\ v.up = w.up /\ v.down = w.down
  BY <1>0, <1>1, <1>2, SetAcceptor
<1>4. /\ IsOpen(s) => IsOpen(w.acceptor)
      /\ IsOpen(w.acceptor) /\ ~IsOpen(s) => s.fd = "closed" /\ s.status = "Closed"
      /\ ~IsOpen(w.acceptor) => s = w.acceptor
  BY <1>1 DEF Op, SockOK
<1>5. EndsOK(v)
  <2>1. s.fd # "none" /\ s.status # "Connecting"
    BY <1>0, <1>1, <1>4 DEF EndsOK, Op, IsOpen
  <2>2. IsOpen(s) /\ s.readPaused => Full(s)
    BY <1>0, <1>4 DEF EndsOK, PausesAlone, Op
  <2> QED
    BY <1>0, <1>1, <1>3, <2>1, <2>2 DEF EndsOK, PausesAlone
<1>6. LinesOK(v) /\ (Talking(v) <=> Talking(w)) /\ (Unopened(w) => Unopened(v))
  BY <1>0, <1>3 DEF LinesOK, Talking, Unopened
<1>7. Talking(w) => NearOK(v) /\ FarOK(v, o)
  BY <1>0, <1>3, <1>4 DEF TunnelHalf, NearOK, FarOK
<1>8. TunnelHalf(v, o)
  BY <1>0, <1>3, <1>5, <1>6, <1>7, TunnelFields DEF TunnelHalf
<1>9. PICK r : r = Update(w, "acceptor", s)
  OBVIOUS
<1>10. CASE s.status = "Closed" /\ w.acceptor.fd = "open" /\ w.hasStreamId
  <2>1. r = CloseStream(v, "near", TRUE)
    BY <1>0, <1>2, <1>9, <1>10 DEF Update
  <2>2. ~IsOpen(s) /\ IsOpen(w.acceptor)
    BY <1>1, <1>10 DEF SockOK, IsOpen
  <2>3. Talking(v) /\ Standing(v.near) /\ (v.connector.fd = "closed" => v.far.localClosed)
    BY <1>0, <1>3, <1>6, <1>10, <2>2 DEF TunnelHalf, Unopened, NearOK, Told
  <2>4. /\ TunnelOK(r, o) /\ r.acceptor = v.acceptor /\ r.connector = v.connector
        /\ r.state = v.state
    BY <1>3, <1>8, <2>1, <2>2, <2>3, NearCloses
  <2> QED
    BY <1>3, <1>9, <2>4
<1>11. CASE ~(s.status = "Closed" /\ w.acceptor.fd = "open" /\ w.hasStreamId)
  <2>1. r = v
    BY <1>0, <1>2, <1>9, <1>11 DEF Update
  <2>2. Told(v)
    <3>1. CASE ~Talking(w)
      BY <1>6, <3>1 DEF Told
    <3>2. CASE Talking(w)
      <4>1. IsOpen(w.acceptor) => IsOpen(s)
        BY <1>0, <1>4, <1>11, <3>2 DEF TunnelHalf, NearOK, IsOpen
      <4> QED
        BY <1>0, <1>3, <1>4, <3>2, <4>1 DEF Told
    <3> QED
      BY <3>1, <3>2
  <2> QED
    BY <1>3, <1>8, <1>9, <2>1, <2>2 DEF TunnelOK
<1> QED
  BY <1>10, <1>11

LEMMA UpdateFar ==
    ASSUME NEW w, NEW o, TunnelOK(w, o), NEW s, Op(w.connector, s)
    PROVE  LET r == Update(w, "connector", s)
           IN  /\ TunnelOK(r, o) /\ r.connector = s /\ r.acceptor = w.acceptor
               /\ r.state = w.state
<1>0. /\ w \in TunnelObjs /\ TunnelHalf(w, o) /\ Told(w) /\ EndsOK(w) /\ LinesOK(w)
      /\ w["connector"] = w.connector
  BY TunnelFields DEF TunnelOK, TunnelHalf
<1>1. s \in Socket /\ SockOK(s) /\ w.connector \in Socket /\ SockOK(w.connector)
  BY <1>0, TunnelFields DEF Op, SockOK
<1>2. PICK v : v = [w EXCEPT !.connector = s]
  OBVIOUS
<1>3. /\ v \in TunnelObjs /\ v.connector = s /\ v.acceptor = w.acceptor
      /\ v.state = w.state /\ v.hasStreamId = w.hasStreamId /\ v.handler = w.handler
      /\ v.near = w.near /\ v.far = w.far /\ v.up = w.up /\ v.down = w.down
  BY <1>0, <1>1, <1>2, SetConnector
<1>4. /\ IsOpen(s) => IsOpen(w.connector) /\ s.status \in {w.connector.status, "Closing"}
      /\ IsOpen(w.connector) /\ ~IsOpen(s) => s.fd = "closed" /\ s.status = "Closed"
      /\ ~IsOpen(w.connector) => s = w.connector
      /\ w.connector.fd = "none" => s = w.connector
  BY <1>1 DEF Op, SockOK, IsOpen
<1>5. EndsOK(v)
  <2>1. IsOpen(s) /\ s.readPaused => Full(s)
    BY <1>0, <1>4 DEF EndsOK, PausesAlone, Op, IsOpen
  <2>2. s.fd # "closed" /\ s.readPaused => Full(s)
    BY <1>0, <1>4, <2>1 DEF EndsOK, PausesAlone, IsOpen
  <2> QED
    BY <1>0, <1>1, <1>3, <2>2 DEF EndsOK, PausesAlone
<1>6. LinesOK(v) /\ (Talking(v) <=> Talking(w)) /\ (Unopened(w) => Unopened(v))
  BY <1>0, <1>3, <1>4 DEF LinesOK, Talking, Unopened
<1>7. Talking(w) => NearOK(v) /\ FarOK(v, o)
  <2>1. w.connector.status \notin {"Ready", "Connecting"} => s.status \notin {"Ready", "Connecting"}
    BY <1>4
  <2>2. w.connector.fd # "none" => s.fd # "none"
    BY <1>4 DEF IsOpen
  <2>3. IsOpen(s) => IsOpen(w.connector)
    BY <1>4
  <2>4. ASSUME Talking(w)
        PROVE  NearOK(v) /\ FarOK(v, o)
    <3>1. NearOK(w) /\ FarOK(w, o)
      BY <1>0, <2>4 DEF TunnelHalf
    <3>2. NearOK(v)
      BY <1>3, <3>1 DEF NearOK
    <3>3. FarOK(v, o)
      BY <1>3, <1>4, <2>1, <2>2, <2>3, <3>1 DEF FarOK
    <3> QED
      BY <3>2, <3>3
  <2> QED
    BY <2>4
<1>8. TunnelHalf(v, o)
  BY <1>0, <1>3, <1>5, <1>6, <1>7, TunnelFields DEF TunnelHalf
<1>9. PICK r : r = Update(w, "connector", s)
  OBVIOUS
<1>10. CASE s.status = "Closed" /\ w.connector.fd = "open"
  <2>1. r = CloseStream(v, "far", FALSE)
    BY <1>0, <1>2, <1>9, <1>10 DEF Update
  <2>2. ~IsOpen(s) /\ IsOpen(w.connector)
    BY <1>1, <1>10 DEF SockOK, IsOpen
  <2>3. Talking(w)
    BY <1>0, <1>10 DEF TunnelHalf, Unopened
  <2>4. FarOK(w, o)
    BY <1>0, <2>3 DEF TunnelHalf
  <2>5. w.handler \notin {"none", "WaitingRequest"} /\ ~w.far.localClosed
    BY <1>10, <2>2, <2>4 DEF FarOK
  <2>6. w.far.known /\ w.handler \in {"Connecting", "Connected"}
    BY <1>0, <2>4, <2>5, TunnelFields DEF FarOK, Handlers
  <2>7. ~IsOpen(w.acceptor) => w.near.localClosed \/ w.near.remoteClosed
    BY <1>0, <2>3 DEF Told
  <2>8. /\ TunnelOK(r, o) /\ r.acceptor = v.acceptor /\ r.connector = v.connector
        /\ r.state = v.state
    BY <1>3, <1>6, <1>8, <2>1, <2>2, <2>3, <2>5, <2>6, <2>7, FarCloses
  <2> QED
    BY <1>3, <1>9, <2>8
<1>11. CASE ~(s.status = "Closed" /\ w.connector.fd = "open")
  <2>1. r = v
    BY <1>0, <1>2, <1>9, <1>11 DEF Update
  <2>2. s.fd = "closed" => w.connector.fd = "closed"
    BY <1>1, <1>4, <1>11 DEF SockOK, IsOpen
  <2>3. Told(v)
    BY <1>0, <1>3, <1>6, <2>2 DEF Told
  <2> QED
    BY <1>3, <1>8, <1>9, <2>1, <2>3 DEF TunnelOK
<1> QED
  BY <1>10, <1>11

LEMMA SendingNear ==
    ASSUME NEW w, NEW o, TunnelOK(w, o), NEW data \in Seq(Unit)
    PROVE  LET r == Sending(w, "acceptor", data)
           IN  /\ TunnelOK(r, o) /\ r.acceptor = Send(w.acceptor, data)
               /\ r.connector = w.connector /\ r.state = w.state
<1>1. TunnelHalf(w, o)
  BY DEF TunnelOK
<1>2. PICK s : s = Send(w.acceptor, data)
  OBVIOUS
<1>3. Op(w.acceptor, s)
  BY <1>1, <1>2, TunnelFields, SendOp
<1>4. Sending(w, "acceptor", data) = Update(w, "acceptor", s)
  BY <1>1, <1>2, TunnelFields DEF Sending
<1> QED
  BY <1>2, <1>3, <1>4, UpdateNear

LEMMA SendingFar ==
    ASSUME NEW w, NEW o, TunnelOK(w, o), NEW data \in Seq(Unit),
           w.handler = "Connected" \/ w.connector.status # "Connecting"
    PROVE  LET r == Sending(w, "connector", data)
           IN  /\ TunnelOK(r, o) /\ r.connector = Send(w.connector, data)
               /\ r.acceptor = w.acceptor /\ r.state = w.state
<1>1. TunnelHalf(w, o)
  BY DEF TunnelOK
<1>2. PICK s : s = Send(w.connector, data)
  OBVIOUS
<1>3. w.connector.status # "Connecting"
  BY <1>1 DEF TunnelHalf, FarOK, Unopened
<1>4. Op(w.connector, s)
  BY <1>1, <1>2, <1>3, TunnelFields, SendOp
<1>5. Sending(w, "connector", data) = Update(w, "connector", s)
  BY <1>1, <1>2, TunnelFields DEF Sending
<1> QED
  BY <1>2, <1>4, <1>5, UpdateFar

LEMMA TunnelStateSet ==
    ASSUME NEW w, NEW o, TunnelOK(w, o), NEW state \in States,
           Talking(w) <=> state \in {"Connecting", "Connected"}
    PROVE  LET r == [w EXCEPT !.state = state]
           IN  /\ TunnelOK(r, o) /\ r.state = state /\ r.acceptor = w.acceptor
               /\ r.connector = w.connector /\ r.near = w.near /\ r.far = w.far
<1>0. w \in TunnelObjs
  BY DEF TunnelOK, TunnelHalf
<1>1. PICK r : r = [w EXCEPT !.state = state]
  OBVIOUS
<1>2. /\ r \in TunnelObjs /\ r.state = state /\ r.acceptor = w.acceptor
      /\ r.connector = w.connector /\ r.hasStreamId = w.hasStreamId /\ r.handler = w.handler
      /\ r.near = w.near /\ r.far = w.far /\ r.up = w.up /\ r.down = w.down
  BY <1>0, <1>1, SetState
<1>3. Talking(r) <=> Talking(w)
  BY <1>2 DEF Talking
<1>4. TunnelOK(r, o)
  BY <1>2, <1>3 DEF TunnelOK, TunnelHalf, Told, EndsOK, PausesAlone, LinesOK, Unopened, NearOK, FarOK
<1> QED
  BY <1>1, <1>2, <1>4

LEMMA TunnelBuffersSet ==
    ASSUME NEW w, NEW o, TunnelOK(w, o), NEW b \in Seq(Unit)
    PROVE  LET r == [w EXCEPT !.clientBuffer = b]
           IN  /\ TunnelOK(r, o) /\ r.state = w.state /\ r.acceptor = w.acceptor
               /\ r.connector = w.connector /\ r.client = w.client /\ r.clientBuffer = b
<1>0. w \in TunnelObjs
  BY DEF TunnelOK, TunnelHalf
<1>1. PICK r : r = [w EXCEPT !.clientBuffer = b]
  OBVIOUS
<1>2. /\ r \in TunnelObjs /\ r.state = w.state /\ r.acceptor = w.acceptor /\ r.client = w.client
      /\ r.connector = w.connector /\ r.hasStreamId = w.hasStreamId /\ r.handler = w.handler
      /\ r.near = w.near /\ r.far = w.far /\ r.up = w.up /\ r.down = w.down
      /\ r.clientBuffer = b
  BY <1>0, <1>1, SetClientBuffer
<1>3. TunnelOK(r, o)
  BY <1>2 DEF TunnelOK, TunnelHalf, Told, EndsOK, PausesAlone, LinesOK, Unopened, NearOK, FarOK,
              Talking
<1> QED
  BY <1>1, <1>2, <1>3

LEMMA HandlerBufferSet ==
    ASSUME NEW w, NEW o, TunnelOK(w, o), NEW b \in Seq(Unit)
    PROVE  TunnelOK([w EXCEPT !.buffer = b], o)
<1>0. w \in TunnelObjs
  BY DEF TunnelOK, TunnelHalf
<1>1. PICK r : r = [w EXCEPT !.buffer = b]
  OBVIOUS
<1>2. /\ r \in TunnelObjs /\ r.state = w.state /\ r.acceptor = w.acceptor
      /\ r.connector = w.connector /\ r.hasStreamId = w.hasStreamId /\ r.handler = w.handler
      /\ r.near = w.near /\ r.far = w.far /\ r.up = w.up /\ r.down = w.down
  BY <1>0, <1>1, SetBuffer
<1>3. TunnelOK(r, o)
  BY <1>2 DEF TunnelOK, TunnelHalf, Told, EndsOK, PausesAlone, LinesOK, Unopened, NearOK, FarOK,
              Talking
<1> QED
  BY <1>1, <1>3

LEMMA RejectOK ==
    ASSUME NEW w, NEW o, TunnelOK(w, o), ~Talking(w), NEW reply \in Seq(Unit)
    PROVE  TunnelOK(Reject(w, reply), o) /\ Reject(w, reply).state = "Error"
<1>1. PICK v : v = Sending(w, "acceptor", reply)
  OBVIOUS
<1>2. TunnelOK(v, o) /\ v.state = w.state
  BY <1>1, SendingNear
<1>3. PICK x : x = [v EXCEPT !.state = "Error"]
  OBVIOUS
<1>4. "Error" \in States /\ ~Talking(v) /\ "Error" \notin {"Connecting", "Connected"}
  BY <1>2 DEF States, Talking
<1>5. TunnelOK(x, o) /\ x.state = "Error"
  BY <1>2, <1>3, <1>4, TunnelStateSet
<1>6. PICK s : s = Close(x.acceptor, TRUE)
  OBVIOUS
<1>7. Op(x.acceptor, s)
  BY <1>5, <1>6, TunnelFields, CloseOp DEF TunnelOK
<1>8. Reject(w, reply) = Update(x, "acceptor", s)
  BY <1>1, <1>3, <1>6 DEF Reject
<1> QED
  BY <1>5, <1>7, <1>8, UpdateNear

LEMMA ForwarderGreetingOK ==
    ASSUME NEW w, NEW o, TunnelOK(w, o), Fresh(w), w.state = "Greeting"
    PROVE  TunnelOK(ForwarderGreeting(w), o) /\ Fresh(ForwarderGreeting(w))
<1>1. PICK r : r = ForwarderGreeting(w)
  OBVIOUS
<1>g. /\ w.clientBuffer \in Seq(Unit) /\ Len(w.clientBuffer) \in Nat /\ ~Talking(w)
      /\ SockOK(w.acceptor)
  BY TunnelFields DEF TunnelOK, Talking
<1>2. CASE Len(w.clientBuffer) < 2 \/ w.client = "oldVersion"
  <2>1. ~(Len(w.clientBuffer) >= 2 /\ w.client = "noAuthRefused") \/ Len(w.clientBuffer) >= 2
    OBVIOUS
  <2>2. r = w
    <3>1. CASE Len(w.clientBuffer) < 2
      <4>1. ~(Len(w.clientBuffer) >= 2)
        BY <1>g, <3>1
      <4> QED
        BY <1>1, <3>1, <4>1 DEF ForwarderGreeting
    <3>2. CASE w.client = "oldVersion"
      BY <1>1, <3>2 DEF ForwarderGreeting
    <3> QED
      BY <1>2, <3>1, <3>2
  <2> QED
    BY <1>1, <2>2
<1>b. PICK b \in Seq(Unit) : b = Rest(w.clientBuffer, 2)
  BY <1>g, TwoLess
<1>4. PICK taken : taken = [w EXCEPT !.clientBuffer = b]
  OBVIOUS
<1>5. TunnelOK(taken, o) /\ taken.state = w.state /\ taken.acceptor = w.acceptor
  BY <1>4, <1>b, TunnelBuffersSet
<1>6. [w EXCEPT !.clientBuffer = Rest(@, 2)] = taken
  BY <1>4, <1>b
<1>7. CASE Len(w.clientBuffer) >= 2 /\ w.client = "noAuthRefused"
  <2>0. ~(Len(w.clientBuffer) < 2)
    BY <1>7, <1>g
  <2>1. r = Reject(taken, <<"noMethod">>)
    BY <1>1, <1>6, <1>7, <2>0 DEF ForwarderGreeting
  <2>2. PICK reply \in Seq(Unit) : reply = <<"noMethod">>
    BY UnitNames
  <2>3. ~Talking(taken)
    BY <1>5, <1>g DEF Talking
  <2>4. TunnelOK(Reject(taken, reply), o) /\ Reject(taken, reply).state = "Error"
    BY <1>5, <2>2, <2>3, RejectOK
  <2> QED
    BY <1>1, <2>1, <2>2, <2>4 DEF Fresh
<1>8. CASE Len(w.clientBuffer) >= 2 /\ w.client \notin {"oldVersion", "noAuthRefused"}
  <2>0. ~(Len(w.clientBuffer) < 2)
    BY <1>8, <1>g
  <2>1. PICK u : u = Sending(taken, "acceptor", <<"method">>)
    OBVIOUS
  <2>2. r = [u EXCEPT !.state = "Request"]
    BY <1>1, <1>6, <1>8, <2>0, <2>1 DEF ForwarderGreeting
  <2>3. PICK data \in Seq(Unit) : data = <<"method">>
    BY UnitNames
  <2>4. PICK s : s = Send(w.acceptor, data)
    OBVIOUS
  <2>5. TunnelOK(u, o) /\ u.acceptor = s /\ u.state = "Greeting"
    BY <1>5, <2>1, <2>3, <2>4, SendingNear, Zenon
  <2>6. IsOpen(w.acceptor) /\ ~w.acceptor.reset
    BY DEF Fresh
  <2>7. s.fd = w.acceptor.fd /\ s.reset = w.acceptor.reset
    BY <1>g, <2>3, <2>4, <2>6, SendOp, TunnelFields, ZenonT(60) DEF TunnelOK
  <2>8. "Request" \in States /\ ~Talking(u) /\ "Request" \notin {"Connecting", "Connected"}
    BY <2>5 DEF States, Talking
  <2>9. TunnelOK(r, o) /\ r.acceptor = u.acceptor
    BY <2>2, <2>5, <2>8, TunnelStateSet
  <2> QED
    BY <1>1, <2>5, <2>6, <2>7, <2>9 DEF Fresh, IsOpen
<1> QED
  BY <1>2, <1>7, <1>8, <1>g

LEMMA ForwarderRequestOK ==
    ASSUME NEW w, NEW o, TunnelOK(w, o), Fresh(w), w.state = "Request"
    PROVE  TunnelOK(ForwarderRequest(w), o) /\ Fresh(ForwarderRequest(w))
<1>1. PICK r : r = ForwarderRequest(w)
  OBVIOUS
<1>0. w \in TunnelObjs /\ TunnelHalf(w, o)
  BY DEF TunnelOK, TunnelHalf
<1>g. /\ w.clientBuffer \in Seq(Unit) /\ Len(w.clientBuffer) \in Nat /\ ~Talking(w)
      /\ IsOpen(w.acceptor) /\ Unopened(w)
  BY <1>0, TunnelFields DEF TunnelHalf, Talking, Fresh
<1>2. CASE Len(w.clientBuffer) < 2
  <2>1. ~(Len(w.clientBuffer) >= 2)
    BY <1>2, <1>g
  <2>2. r = w
    BY <1>1, <1>2, <2>1 DEF ForwarderRequest
  <2> QED
    BY <1>1, <2>2
<1>3. CASE Len(w.clientBuffer) >= 2 /\ w.client = "badRequest"
  <2>0. ~(Len(w.clientBuffer) < 2)
    BY <1>3, <1>g
  <2>1. PICK reply \in Seq(Unit) : reply = <<"error">>
    BY UnitNames
  <2>2. r = Reject(w, reply)
    BY <1>1, <1>3, <2>0, <2>1 DEF ForwarderRequest
  <2> QED
    BY <1>1, <1>g, <2>2, RejectOK DEF Fresh
<1>4. CASE Len(w.clientBuffer) >= 2 /\ w.client # "badRequest"
  <2>0. ~(Len(w.clientBuffer) < 2)
    BY <1>4, <1>g
  <2>1. PICK request \in Seq(Unit) : request = SubSeq(w.clientBuffer, 1, 2)
    <3>1. SubSeq(w.clientBuffer, 1, 2) \in Seq(Unit)
      BY <1>4, <1>g
    <3> QED
      BY <3>1
  <2>2. PICK b \in Seq(Unit) : b = Rest(w.clientBuffer, 2)
    BY <1>g, TwoLess
  <2>3. PICK open : open = OpenStream
    OBVIOUS
  <2>4. open \in Streams /\ Standing(open)
    BY <2>3 DEF OpenStream, NoStream, Streams, Standing
  <2>5. PICK x : x = Frame("SYN", << >>)
    OBVIOUS
  <2>6. x \in Frames /\ x.kind = "SYN"
    <3>1. "SYN" \in Kinds /\ << >> \in Seq(Unit)
      BY Cat DEF Kinds
    <3> QED
      BY <2>5, <3>1, FrameIn
  <2>7. PICK g : g = Append(w.up, x)
    OBVIOUS
  <2>8. g \in Seq(Frames) /\ g # << >> /\ g[1] = x /\ Len(g) = 1
    <3>1. w.up = << >>
      BY <1>g DEF Unopened
    <3>2. g = <<x>>
      BY <2>7, <3>1
    <3> QED
      BY <2>6, <3>2
  <2>9. PICK v1 : v1 = [w EXCEPT !.clientBuffer = b]
    OBVIOUS
  <2>10. PICK v2 : v2 = [v1 EXCEPT !.state = "Connecting"]
    OBVIOUS
  <2>11. PICK v3 : v3 = [v2 EXCEPT !.hasStreamId = TRUE]
    OBVIOUS
  <2>12. PICK v4 : v4 = [v3 EXCEPT !.near = open]
    OBVIOUS
  <2>13. PICK v : v = [v4 EXCEPT !.up = g]
    OBVIOUS
  <2>14. /\ v1 \in TunnelObjs /\ v1.acceptor = w.acceptor /\ v1.connector = w.connector
         /\ v1.handler = w.handler /\ v1.far = w.far /\ v1.up = w.up /\ v1.down = w.down
    BY <1>0, <2>2, <2>9, SetClientBuffer
  <2>15. "Connecting" \in States
    BY DEF States
  <2>16. /\ v2 \in TunnelObjs /\ v2.acceptor = w.acceptor /\ v2.connector = w.connector
         /\ v2.handler = w.handler /\ v2.far = w.far /\ v2.up = w.up /\ v2.down = w.down
         /\ v2.state = "Connecting"
    BY <2>10, <2>14, <2>15, SetState
  <2>17. /\ v3 \in TunnelObjs /\ v3.acceptor = w.acceptor /\ v3.connector = w.connector
         /\ v3.handler = w.handler /\ v3.far = w.far /\ v3.up = w.up /\ v3.down = w.down
         /\ v3.state = "Connecting" /\ v3.hasStreamId
    BY <2>11, <2>16, SetHasStreamId
  <2>18. /\ v4 \in TunnelObjs /\ v4.acceptor = w.acceptor /\ v4.connector = w.connector
         /\ v4.handler = w.handler /\ v4.far = w.far /\ v4.up = w.up /\ v4.down = w.down
         /\ v4.state = "Connecting" /\ v4.hasStreamId /\ v4.near = open
    BY <2>4, <2>12, <2>17, SetNear
  <2>19. /\ v \in TunnelObjs /\ v.acceptor = w.acceptor /\ v.connector = w.connector
         /\ v.handler = w.handler /\ v.far = w.far /\ v.up = g /\ v.down = w.down
         /\ v.state = "Connecting" /\ v.hasStreamId /\ v.near = open
    BY <2>8, <2>13, <2>18, SetUp
  <2>20. EndsOK(v) /\ Talking(v)
    BY <1>0, <2>19 DEF TunnelHalf, EndsOK, PausesAlone, Talking
  <2>21. LinesOK(v)
    <3>1. SynFirst(g, w.far)
      BY <1>g, <2>8 DEF SynFirst, Unopened
    <3> QED
      BY <1>0, <2>19, <3>1 DEF TunnelHalf, LinesOK
  <2>22. NearOK(v)
    BY <1>g, <2>4, <2>19 DEF NearOK, Standing
  <2>23. FarOK(v, o)
    BY <1>g, <2>6, <2>8, <2>19 DEF FarOK, Unopened, NotYet, IsOpen
  <2>24. Told(v)
    BY <1>g, <2>19 DEF Told, Unopened
  <2>25. TunnelHalf(v, o)
    BY <1>0, <2>19, <2>20, <2>21, <2>22, <2>23, TunnelFields DEF TunnelHalf
  <2>26. PICK y : y = [w EXCEPT !.clientBuffer = b, !.state = "Connecting",
                                !.hasStreamId = TRUE, !.near = open]
    OBVIOUS
  <2>27. v = Put(y, "near", x)
    <3>1. y = v4
      BY <2>9, <2>10, <2>11, <2>12, <2>26
    <3> QED
      BY <2>7, <2>13, <2>18, <3>1 DEF Put
  <2>28. r = SendToStream(v, "near", request)
    <3>1. y = [w EXCEPT !.clientBuffer = Rest(@, 2), !.state = "Connecting",
                        !.hasStreamId = TRUE, !.near = OpenStream]
      BY <2>2, <2>3, <2>26
    <3> QED
      BY <1>1, <1>4, <2>0, <2>1, <2>5, <2>27, <3>1 DEF ForwarderRequest
  <2>29. TunnelHalf(r, o) /\ Told(r) /\ r.state = "Connecting"
    BY <2>19, <2>24, <2>25, <2>28, StreamSent, SMTT(120) DEF Alike
  <2> QED
    BY <1>1, <2>29 DEF TunnelOK, Fresh
<1> QED
  BY <1>2, <1>3, <1>4, <1>g

LEMMA ForwardToStreamOK ==
    ASSUME NEW w, NEW o, TunnelOK(w, o), Talking(w)
    PROVE  TunnelOK(ForwardToStream(w), o) /\ Fresh(ForwardToStream(w))
<1>1. PICK v : v = IF w.hasStreamId THEN SendToStream(w, "near", w.clientBuffer) ELSE w
  OBVIOUS
<1>2. w.clientBuffer \in Seq(Unit) /\ TunnelHalf(w, o) /\ Told(w)
  BY TunnelFields DEF TunnelOK
<1>3. TunnelOK(v, o) /\ v.state = w.state
  <2>1. CASE w.hasStreamId
    <3>1. v = SendToStream(w, "near", w.clientBuffer)
      BY <1>1, <2>1
    <3> QED
      BY <1>2, <3>1, StreamSent DEF TunnelOK, Alike
  <2>2. CASE ~w.hasStreamId
    <3>1. v = w
      BY <1>1, <2>2
    <3> QED
      BY <3>1
  <2> QED
    BY <2>1, <2>2
<1>4. PICK r : r = [v EXCEPT !.clientBuffer = << >>]
  BY Zenon
<1>5. TunnelOK(r, o) /\ r.state = v.state
  BY <1>3, <1>4, Cat, TunnelBuffersSet, Zenon
<1>6. ForwardToStream(w) = r
  BY <1>1, <1>4 DEF ForwardToStream
<1> QED
  BY <1>3, <1>5, <1>6 DEF Fresh, Talking

LEMMA ForwarderTurnOK ==
    ASSUME NEW w, NEW o, TunnelOK(w, o), Fresh(w)
    PROVE  TunnelOK(ForwarderTurn(w), o) /\ Fresh(ForwarderTurn(w))
<1>1. CASE w.clientBuffer # << >> /\ w.state = "Greeting"
  <2>1. ForwarderTurn(w) = ForwarderGreeting(w)
    BY <1>1 DEF ForwarderTurn
  <2> QED
    BY <1>1, <2>1, ForwarderGreetingOK
<1>2. CASE w.clientBuffer # << >> /\ w.state = "Request"
  <2>1. ForwarderTurn(w) = ForwarderRequest(w)
    BY <1>2 DEF ForwarderTurn
  <2> QED
    BY <1>2, <2>1, ForwarderRequestOK
<1>3. CASE w.clientBuffer # << >> /\ w.state = "Connected"
  <2>1. ForwarderTurn(w) = ForwardToStream(w) /\ Talking(w)
    BY <1>3 DEF ForwarderTurn, Talking
  <2> QED
    BY <2>1, ForwardToStreamOK
<1>4. CASE w.clientBuffer = << >> \/ w.state \notin {"Greeting", "Request", "Connected"}
  <2>1. ForwarderTurn(w) = w
    BY <1>4 DEF ForwarderTurn
  <2> QED
    BY <2>1
<1> QED
  BY <1>1, <1>2, <1>3, <1>4

LEMMA ForwarderDataOK ==
    ASSUME NEW w, NEW o, TunnelOK(w, o), Fresh(w), NEW data \in Seq(Unit)
    PROVE  TunnelOK(OnReceiveData(w, data), o)
<1>1. PICK b \in Seq(Unit) : b = w.clientBuffer \o data
  BY TunnelFields, Cat, Zenon DEF TunnelOK
<1>2. PICK v : v = [w EXCEPT !.clientBuffer = b]
  BY Zenon
<1>3. TunnelOK(v, o) /\ Fresh(v)
  BY <1>1, <1>2, TunnelBuffersSet, Zenon DEF Fresh
<1>4. PICK x : x = ForwarderTurn(v)
  OBVIOUS
<1>5. TunnelOK(x, o) /\ Fresh(x)
  BY <1>3, <1>4, ForwarderTurnOK
<1>6. PICK y : y = ForwarderTurn(x)
  OBVIOUS
<1>7. TunnelOK(y, o) /\ Fresh(y)
  BY <1>5, <1>6, ForwarderTurnOK
<1>8. TunnelOK(ForwarderTurn(y), o)
  BY <1>7, ForwarderTurnOK
<1>9. OnReceiveData(w, data) = ForwarderTurn(y)
  BY <1>1, <1>2, <1>4, <1>6 DEF OnReceiveData
<1> QED
  BY <1>8, <1>9

LEMMA ReplyOK ==
    ASSUME NEW w, NEW o, TunnelOK(w, o), NEW data \in Seq(Unit)
    PROVE  TunnelOK(ForwarderStreamData(w, data), o)
<1>1. PICK v, r : v = Sending(w, "acceptor", data) /\ r = ForwarderStreamData(w, data)
  OBVIOUS
<1>2. TunnelOK(v, o) /\ v.state = w.state
  BY <1>1, SendingNear
<1>3. CASE w.state = "Connecting"
  <2>1. PICK x : x = [v EXCEPT !.state = "Connected"]
    OBVIOUS
  <2>2. "Connected" \in States /\ Talking(v)
    BY <1>2, <1>3 DEF States, Talking
  <2>3. TunnelOK(x, o) /\ x.state = "Connected"
    BY <1>2, <2>1, <2>2, TunnelStateSet
  <2>4. r = ForwardToStream(x)
    BY <1>1, <1>3, <2>1 DEF ForwarderStreamData
  <2> QED
    BY <1>1, <2>3, <2>4, ForwardToStreamOK DEF Talking
<1>4. CASE w.state = "Connected"
  <2>1. r = v
    BY <1>1, <1>4 DEF ForwarderStreamData
  <2> QED
    BY <1>1, <1>2, <2>1
<1>5. CASE w.state \notin {"Connecting", "Connected"}
  <2>1. r = w
    BY <1>1, <1>5 DEF ForwarderStreamData
  <2> QED
    BY <1>1, <2>1
<1> QED
  BY <1>3, <1>4, <1>5

(* The target could not be reached: an error reply, and the end.           *)
LEMMA ConnectFailedOK ==
    ASSUME NEW w, NEW o, TunnelOK(w, o), Talking(w), w.connector.fd = "none",
           w.far.known, ~w.far.localClosed, w.handler \in {"Connecting", "Connected"}
    PROVE  TunnelOK(ConnectFailed(w), o)
<1>1. PICK data \in Seq(Unit) : data = <<"error">>
  BY UnitNames, Zenon
<1>2. PICK v : v = SendToStream(w, "far", data)
  OBVIOUS
<1>3. TunnelHalf(v, o) /\ Alike(w, v) /\ Told(v)
  BY <1>2, StreamSent DEF TunnelOK
<1>4. Talking(v) /\ ~IsOpen(v.connector)
  BY <1>3 DEF Alike, Talking, IsOpen
<1>5. ~IsOpen(v.acceptor) => v.near.localClosed \/ v.near.remoteClosed
  BY <1>3, <1>4 DEF Told
<1>6. TunnelOK(CloseStream(v, "far", FALSE), o)
  BY <1>3, <1>4, <1>5, FarCloses, Zenon DEF Alike
<1> QED
  BY <1>1, <1>2, <1>6, Zenon DEF ConnectFailed

(* The handler asks for the target: how its socket becomes something.      *)
LEMMA HandlerAsks ==
    ASSUME NEW w, NEW o, TunnelOK(w, o), Talking(w), NEW c, SockOK(c),
           NEW r \in TunnelObjs, r.acceptor = w.acceptor, r.connector = c,
           r.state = w.state, r.hasStreamId = w.hasStreamId, r.handler = "Connecting",
           r.near = w.near, r.far = w.far, r.up = w.up, r.down = w.down,
           w.far.known, ~w.far.localClosed, c.fd # "closed",
           ~c.readPaused, IsOpen(c) /\ w.far.remoteClosed => o
    PROVE  TunnelOK(r, o)
<1>1. EndsOK(r) /\ LinesOK(r) /\ Talking(r)
  BY DEF TunnelOK, TunnelHalf, EndsOK, PausesAlone, LinesOK, Talking
<1>2. NearOK(r)
  BY DEF TunnelOK, TunnelHalf, NearOK
<1>3. FarOK(r, o)
  BY DEF TunnelOK, TunnelHalf, FarOK, NotYet
<1>4. Told(r)
  BY DEF TunnelOK, Told, Talking
<1> QED
  BY <1>1, <1>2, <1>3, <1>4 DEF TunnelOK, TunnelHalf

LEMMA HandlerDataOK ==
    ASSUME NEW w, NEW o, TunnelOK(w, o), Talking(w), w.far.known, ~w.far.remoteClosed,
           NEW data \in Seq(Unit), NEW result \in ConnectResults
    PROVE  TunnelOK(HandlerStreamData(w, data, result), o)
<1>1. PICK r : r = HandlerStreamData(w, data, result)
  OBVIOUS
<1>0. w \in TunnelObjs /\ FarOK(w, o) /\ TunnelHalf(w, o)
  BY DEF TunnelOK, TunnelHalf
<1>2. CASE w.handler = "WaitingRequest"
  <2>1. PICK b \in Seq(Unit) : b = w.buffer \o data
    BY <1>0, TunnelFields, Cat, Zenon
  <2>2. PICK got : got = [w EXCEPT !.buffer = b]
    BY Zenon
  <2>3. /\ TunnelOK(got, o) /\ got.buffer = b /\ got \in TunnelObjs /\ got.state = w.state
        /\ got.acceptor = w.acceptor /\ got.connector = w.connector /\ got.far = w.far
        /\ got.near = w.near /\ got.hasStreamId = w.hasStreamId
        /\ got.up = w.up /\ got.down = w.down
    <3>1. TunnelOK(got, o)
      BY <2>1, <2>2, HandlerBufferSet, Zenon
    <3>2. /\ got \in TunnelObjs /\ got.buffer = b /\ got.state = w.state
          /\ got.acceptor = w.acceptor /\ got.connector = w.connector /\ got.far = w.far
          /\ got.near = w.near /\ got.hasStreamId = w.hasStreamId
          /\ got.up = w.up /\ got.down = w.down
      BY <1>0, <2>1, <2>2, SetBuffer, ZenonT(60)
    <3> QED
      BY <3>1, <3>2
  <2>4. PICK c : c = ConnectTo(w.connector, result)
    OBVIOUS
  <2>5. SockOK(w.connector) /\ w.connector.fd = "none" /\ ~w.far.localClosed
        /\ w.connector.readPaused \in BOOLEAN
    BY <1>0, <1>2, TunnelFields, Fields DEF FarOK
  <2>6. /\ SockOK(c) /\ c.readPaused = w.connector.readPaused
        /\ c.fd = IF result = "inProgress" THEN "open" ELSE "none"
    BY <2>4, <2>5, ConnectToOp
  <2>7. PICK rest \in Seq(Unit) : rest = Rest(b, 2)
    BY <2>1, TwoLess
  <2>8. PICK v1 : v1 = [got EXCEPT !.handler = "Connecting"]
    OBVIOUS
  <2>9. PICK v2 : v2 = [v1 EXCEPT !.buffer = rest]
    OBVIOUS
  <2>10. PICK asked : asked = [v2 EXCEPT !.connector = c]
    OBVIOUS
  <2>11. "Connecting" \in Handlers /\ c \in Socket
    BY <2>6 DEF Handlers, SockOK
  <2>12. /\ v1 \in TunnelObjs /\ v1.acceptor = w.acceptor /\ v1.connector = w.connector
         /\ v1.handler = "Connecting" /\ v1.far = w.far /\ v1.up = w.up /\ v1.down = w.down
         /\ v1.near = w.near /\ v1.hasStreamId = w.hasStreamId /\ v1.state = w.state
         /\ v1.buffer = b
    BY <2>3, <2>8, <2>11, SetHandler
  <2>13. /\ v2 \in TunnelObjs /\ v2.acceptor = w.acceptor /\ v2.connector = w.connector
         /\ v2.handler = "Connecting" /\ v2.far = w.far /\ v2.up = w.up /\ v2.down = w.down
         /\ v2.near = w.near /\ v2.hasStreamId = w.hasStreamId /\ v2.state = w.state
    BY <2>7, <2>9, <2>12, SetBuffer
  <2>14. /\ asked \in TunnelObjs /\ asked.acceptor = w.acceptor /\ asked.connector = c
         /\ asked.handler = "Connecting" /\ asked.far = w.far /\ asked.up = w.up
         /\ asked.near = w.near /\ asked.hasStreamId = w.hasStreamId /\ asked.state = w.state
         /\ asked.down = w.down
    BY <2>10, <2>11, <2>13, SetConnector
  <2>15. asked = [got EXCEPT !.handler = "Connecting", !.buffer = Rest(@, 2),
                             !.connector = ConnectTo(@, result)]
    BY <2>3, <2>4, <2>7, <2>8, <2>9, <2>10, <2>12, <2>13
  <2>16. r = IF Len(b) < 2 THEN got
             ELSE IF result \in {"failed", "refused", "noRequest"} THEN ConnectFailed(asked)
             ELSE asked
    BY <1>1, <1>2, <2>1, <2>2, <2>3, <2>15 DEF HandlerStreamData
  <2>17. TunnelOK(asked, o)
    <3>1. ~c.readPaused
      BY <1>0, <2>5, <2>6 DEF TunnelHalf, EndsOK, PausesAlone, SockOK, Untouched
    <3>2. c.fd # "closed"
      BY <2>6
    <3> QED
      BY <2>5, <2>6, <2>14, <3>1, <3>2, HandlerAsks
  <2>18. result \in {"failed", "refused", "noRequest"} => TunnelOK(ConnectFailed(asked), o)
    <3>1. result \in {"failed", "refused", "noRequest"} => asked.connector.fd = "none"
      BY <2>6, <2>14
    <3> QED
      BY <2>5, <2>14, <2>17, <3>1, ConnectFailedOK DEF Talking
  <2> QED
    BY <1>1, <2>3, <2>16, <2>17, <2>18
<1>3. CASE w.handler = "Connected"
  <2>1. r = Sending(w, "connector", data)
    BY <1>1, <1>3 DEF HandlerStreamData
  <2> QED
    BY <1>1, <1>3, <2>1, SendingFar
<1>4. CASE w.handler \notin {"WaitingRequest", "Connected"}
  <2>1. r = w
    BY <1>1, <1>4 DEF HandlerStreamData
  <2> QED
    BY <1>1, <2>1
<1> QED
  BY <1>2, <1>3, <1>4

LEMMA TunnelConnectedOK ==
    ASSUME NEW w, NEW o, TunnelOK(w, o), InHandshake(w.connector)
    PROVE  TunnelOK(ConnectorConnected([w EXCEPT !.connector.status = "Connected"]), o)
<1>0. /\ w \in TunnelObjs /\ TunnelHalf(w, o) /\ IsOpen(w.connector) /\ SockOK(w.connector)
      /\ w.connector.status = "Connecting" /\ w.buffer \in Seq(Unit) /\ w.connector.fd = "open"
  BY TunnelFields DEF TunnelOK, InHandshake, TunnelHalf, IsOpen
<1>t. Talking(w) /\ FarOK(w, o)
  BY <1>0 DEF TunnelHalf, Unopened
<1>1. PICK c : c = [w.connector EXCEPT !.status = "Connected"]
  OBVIOUS
<1>2. /\ c \in Socket /\ c.status = "Connected" /\ c.fd = w.connector.fd
      /\ c.writeQueue = w.connector.writeQueue /\ c.readPaused = w.connector.readPaused
      /\ c.shut = w.connector.shut /\ c.pendingClose = w.connector.pendingClose
      /\ c.room = w.connector.room /\ c.reset = w.connector.reset
  BY <1>0, <1>1 DEF SockOK, Socket, Statuses
<1>3. SockOK(c)
  BY <1>0, <1>2 DEF SockOK, IsOpen, Untouched, Full
<1>4. PICK v0 : v0 = [w EXCEPT !.connector = c]
  OBVIOUS
<1>5. /\ v0 \in TunnelObjs /\ v0.connector = c /\ v0.acceptor = w.acceptor
      /\ v0.state = w.state /\ v0.hasStreamId = w.hasStreamId /\ v0.buffer = w.buffer
      /\ v0.near = w.near /\ v0.far = w.far /\ v0.up = w.up /\ v0.down = w.down
  BY <1>0, <1>2, <1>4, SetConnector
<1>6. PICK v : v = [v0 EXCEPT !.handler = "Connected"]
  OBVIOUS
<1>7. "Connected" \in Handlers
  BY DEF Handlers
<1>8. /\ v \in TunnelObjs /\ v.connector = c /\ v.acceptor = w.acceptor
      /\ v.state = w.state /\ v.hasStreamId = w.hasStreamId /\ v.buffer = w.buffer
      /\ v.near = w.near /\ v.far = w.far /\ v.up = w.up /\ v.down = w.down
      /\ v.handler = "Connected"
  BY <1>5, <1>6, <1>7, SetHandler
<1>9. EndsOK(v) /\ LinesOK(v) /\ Talking(v)
  BY <1>0, <1>2, <1>3, <1>8, <1>t DEF TunnelHalf, EndsOK, PausesAlone, Full, LinesOK, Talking
<1>10. NearOK(v)
  BY <1>0, <1>t, <1>8 DEF TunnelHalf, NearOK
<1>11. FarOK(v, o)
  BY <1>0, <1>t, <1>2, <1>8 DEF FarOK, IsOpen
<1>12. Told(v)
  BY <1>0, <1>t, <1>2, <1>8 DEF TunnelOK, Told
<1>13. TunnelOK(v, o)
  BY <1>0, <1>8, <1>9, <1>10, <1>11, <1>12 DEF TunnelOK, TunnelHalf
<1>14. PICK data \in Seq(Unit) : data = <<"success">>
  BY UnitNames
<1>15. PICK x : x = SendToStream(v, "far", data)
  OBVIOUS
<1>16. TunnelOK(x, o) /\ x.handler = "Connected"
  BY <1>8, <1>13, <1>15, StreamSent DEF TunnelOK, Alike
<1>17. PICK y : y = Sending(x, "connector", w.buffer)
  OBVIOUS
<1>18. TunnelOK(y, o)
  BY <1>0, <1>16, <1>17, SendingFar
<1>19. PICK b \in Seq(Unit) : b = << >>
  BY Cat
<1>20. TunnelOK([y EXCEPT !.buffer = b], o)
  BY <1>18, HandlerBufferSet
<1>21. ConnectorConnected(v0) = [y EXCEPT !.buffer = << >>]
  BY <1>5, <1>6, <1>14, <1>15, <1>17 DEF ConnectorConnected
<1>22. v0 = [w EXCEPT !.connector.status = "Connected"]
  BY <1>1, <1>4
<1> QED
  BY <1>19, <1>20, <1>21, <1>22

LEMMA TunnelLookupOK ==
    ASSUME NEW w, NEW o, TunnelOK(w, o), HandlerLooksUp(w), w.far.remoteClosed => o
    PROVE  /\ TunnelOK([w EXCEPT !.connector.fd = "open"], o)
           /\ TunnelOK(ConnectFailed([w EXCEPT !.connector.status = "Closed"]), o)
<1>0. /\ w \in TunnelObjs /\ TunnelHalf(w, o) /\ SockOK(w.connector) /\ w.connector \in Socket
      /\ w.connector.fd = "none" /\ w.connector.status = "Connecting" /\ ~w.far.localClosed
      /\ Untouched(w.connector) /\ ~w.connector.reset
  <2>1. /\ w.connector.fd = "none" /\ w.connector.status = "Connecting" /\ ~w.far.localClosed
        /\ TunnelHalf(w, o)
    BY DEF TunnelOK, HandlerLooksUp, InLookup
  <2> QED
    BY <2>1, TunnelFields DEF SockOK, TunnelHalf
<1>t. Talking(w) /\ FarOK(w, o)
  BY <1>0 DEF TunnelHalf, Unopened
<1>h. w.handler = "Connecting" /\ w.far.known
  <2>1. w.handler = "Connecting"
    BY <1>0, <1>t, TunnelFields DEF FarOK, Handlers
  <2> QED
    BY <1>0, <1>t, <2>1 DEF FarOK
<1>p. w.connector.readPaused = FALSE
  BY <1>0, Fields DEF TunnelHalf, EndsOK, PausesAlone, Untouched
<1>1. TunnelOK([w EXCEPT !.connector.fd = "open"], o)
  <2>1. PICK c : c = [w.connector EXCEPT !.fd = "open"]
    OBVIOUS
  <2>2. /\ c \in Socket /\ c.status = "Connecting" /\ c.fd = "open"
        /\ c.writeQueue = w.connector.writeQueue /\ c.readPaused = FALSE
        /\ c.shut = w.connector.shut /\ c.pendingClose = w.connector.pendingClose
        /\ c.room = w.connector.room /\ c.reset = w.connector.reset
        /\ c.inbox = w.connector.inbox /\ c.fin = w.connector.fin /\ c.got = w.connector.got
    BY <1>0, <1>p, <2>1 DEF Socket
  <2>3. SockOK(c)
    BY <1>0, <2>2 DEF SockOK, Untouched, Full
  <2>4. PICK r : r = [w EXCEPT !.connector = c]
    OBVIOUS
  <2>5. /\ r \in TunnelObjs /\ r.connector = c /\ r.acceptor = w.acceptor
        /\ r.state = w.state /\ r.hasStreamId = w.hasStreamId /\ r.handler = w.handler
        /\ r.near = w.near /\ r.far = w.far /\ r.up = w.up /\ r.down = w.down
    BY <1>0, <2>2, <2>4, SetConnector
  <2>6. TunnelOK(r, o)
    BY <1>0, <1>t, <1>h, <2>2, <2>3, <2>5, HandlerAsks
  <2>7. r = [w EXCEPT !.connector.fd = "open"]
    BY <2>1, <2>4
  <2> QED
    BY <2>6, <2>7
<1>2. TunnelOK(ConnectFailed([w EXCEPT !.connector.status = "Closed"]), o)
  <2>1. PICK c : c = [w.connector EXCEPT !.status = "Closed"]
    OBVIOUS
  <2>2. /\ c \in Socket /\ c.status = "Closed" /\ c.fd = "none"
        /\ c.writeQueue = w.connector.writeQueue /\ c.readPaused = FALSE
        /\ c.shut = w.connector.shut /\ c.pendingClose = w.connector.pendingClose
        /\ c.room = w.connector.room /\ c.reset = w.connector.reset
        /\ c.inbox = w.connector.inbox /\ c.fin = w.connector.fin /\ c.got = w.connector.got
    BY <1>0, <1>p, <2>1 DEF Socket, Statuses
  <2>3. SockOK(c)
    BY <1>0, <2>2 DEF SockOK, Untouched, Full
  <2>4. PICK r : r = [w EXCEPT !.connector = c]
    OBVIOUS
  <2>5. /\ r \in TunnelObjs /\ r.connector = c /\ r.acceptor = w.acceptor
        /\ r.state = w.state /\ r.hasStreamId = w.hasStreamId /\ r.handler = w.handler
        /\ r.near = w.near /\ r.far = w.far /\ r.up = w.up /\ r.down = w.down
    BY <1>0, <2>2, <2>4, SetConnector
  <2>6. TunnelOK(r, o)
    BY <1>0, <1>t, <1>h, <2>2, <2>3, <2>5, HandlerAsks DEF IsOpen
  <2>7. r = [w EXCEPT !.connector.status = "Closed"]
    BY <2>1, <2>4
  <2>8. Talking(r)
    BY <1>t, <2>5 DEF Talking
  <2>9. TunnelOK(ConnectFailed(r), o)
    BY <1>0, <1>h, <2>2, <2>5, <2>6, <2>8, ConnectFailedOK
  <2> QED
    BY <2>7, <2>9
<1> QED
  BY <1>1, <1>2

LEMMA TunnelOther ==
    ASSUME NEW w, NEW o, TunnelOK(w, o), NEW p \in BOOLEAN, (o => p) \/ ~IsOpen(w.connector)
    PROVE  TunnelOK(w, p)
  BY DEF TunnelOK, TunnelHalf, FarOK

(* A frame has arrived at the near end.                                    *)
LEMMA NearFrame ==
    ASSUME NEW w, NEW o, TunnelOK(w, o), w.down # << >>, NEW result \in ConnectResults
    PROVE  TunnelOK(HandleFrame(w, "near", result), o)
<1>0. w \in TunnelObjs /\ TunnelHalf(w, o) /\ w.down \in Seq(Frames) /\ EndsOK(w) /\ LinesOK(w)
      /\ Told(w)
  BY TunnelFields DEF TunnelOK, TunnelHalf
<1>t. Talking(w) /\ FarOK(w, o) /\ NearOK(w)
  BY <1>0 DEF TunnelHalf, Unopened
<1>1. PICK x, g : x = Head(w.down) /\ g = Tail(w.down)
  OBVIOUS
<1>2. /\ x \in Frames /\ g \in Seq(Frames) /\ (Ended(w.down) <=> Ends(x) \/ Ended(g))
      /\ NoSyn(g) /\ x.kind # "SYN"
  BY <1>0, <1>1, EndedTail DEF LinesOK
<1>3. PICK rest : rest = [w EXCEPT !.down = g]
  BY Zenon
<1>4. /\ rest \in TunnelObjs /\ rest.connector = w.connector /\ rest.acceptor = w.acceptor
      /\ rest.state = w.state /\ rest.hasStreamId = w.hasStreamId /\ rest.handler = w.handler
      /\ rest.near = w.near /\ rest.far = w.far /\ rest.up = w.up /\ rest.down = g
  BY <1>0, <1>2, <1>3, SetDown
<1>5. w.near.remoteClosed \/ ~Ends(x) => TunnelOK(rest, o)
  <2>1. EndsOK(rest) /\ LinesOK(rest) /\ Talking(rest) /\ NearOK(rest) /\ Told(rest)
    BY <1>0, <1>t, <1>2, <1>4 DEF EndsOK, PausesAlone, LinesOK, Talking, NearOK, Told
  <2>2. w.near.remoteClosed \/ ~Ends(x) => FarOK(rest, o)
    BY <1>t, <1>2, <1>4 DEF FarOK
  <2> QED
    BY <1>0, <1>4, <2>1, <2>2 DEF TunnelOK, TunnelHalf
<1>6. PICK r : r = HandleFrame(w, "near", result)
  OBVIOUS
<1>7. [w EXCEPT !.down = Tail(@)] = rest
  BY <1>1, <1>3
<1>8. w["near"] = w.near /\ rest["near"] = rest.near
  OBVIOUS
<1>9. CASE ~w.near.known \/ w.near.remoteClosed
  <2>1. w.near.remoteClosed
    BY <1>t, <1>9 DEF NearOK
  <2>2. r = rest
    BY <1>1, <1>2, <1>6, <1>7, <1>8, <1>9 DEF HandleFrame
  <2> QED
    BY <1>5, <1>6, <2>1, <2>2
<1>10. CASE w.near.known /\ ~w.near.remoteClosed /\ x.kind = "Data"
  <2>1. ~Ends(x) /\ x.data \in Seq(Unit)
    BY <1>2, <1>10 DEF Ends, Frames
  <2>2. r = ForwarderStreamData(rest, x.data)
    BY <1>1, <1>2, <1>6, <1>7, <1>8, <1>10 DEF HandleFrame
  <2> QED
    BY <1>5, <1>6, <2>1, <2>2, ReplyOK
<1>11. CASE w.near.known /\ ~w.near.remoteClosed /\ x.kind # "Data"
  <2>0. Ends(x)
    BY <1>2, <1>11 DEF Ends, Frames, Kinds
  <2>1. PICK n : n = [w.near EXCEPT !.remoteClosed = TRUE]
    OBVIOUS
  <2>2. n \in Streams /\ n.remoteClosed /\ n.known = w.near.known /\ n.localClosed = w.near.localClosed
    BY <1>0, <2>1, TunnelFields DEF Streams
  <2>3. PICK heard : heard = [rest EXCEPT !.near = n]
    OBVIOUS
  <2>4. /\ heard \in TunnelObjs /\ heard.connector = w.connector /\ heard.acceptor = w.acceptor
        /\ heard.state = w.state /\ heard.hasStreamId = w.hasStreamId
        /\ heard.handler = w.handler
        /\ heard.near = n /\ heard.far = w.far /\ heard.up = w.up /\ heard.down = g
    BY <1>4, <2>2, <2>3, SetNear
  <2>5. heard = [rest EXCEPT !["near"].remoteClosed = TRUE]
    BY <1>4, <2>1, <2>3
  <2>6. r = StreamClosed(rest, "near")
    BY <1>1, <1>2, <1>6, <1>7, <1>8, <1>11 DEF HandleFrame
  <2>7. r = IF n.localClosed THEN heard ELSE ForwarderStreamClose(heard)
    BY <2>4, <2>5, <2>6 DEF StreamClosed
  <2>8. PICK a : a = Close(w.acceptor, TRUE)
    BY Zenon
  <2>9. Op(w.acceptor, a) /\ a.readPaused = w.acceptor.readPaused /\ ~IsOpen(a)
    <3>1. SockOK(w.acceptor) /\ TRUE \in BOOLEAN
      BY <1>0, TunnelFields
    <3>2. /\ Op(w.acceptor, a) /\ a.readPaused = w.acceptor.readPaused
          /\ IsOpen(w.acceptor) => a.fd = "closed"
          /\ ~IsOpen(w.acceptor) => a = w.acceptor
      BY <2>8, <3>1, CloseOp
    <3> QED
      BY <3>2 DEF IsOpen
  <2>10. a \in Socket /\ SockOK(a) /\ a.fd # "none" /\ a.status # "Connecting"
    BY <1>0, <2>9 DEF Op, SockOK, EndsOK, IsOpen
  <2>11. n.localClosed => w.acceptor = a
    BY <1>t, <2>2, <2>9 DEF NearOK, Op
  <2>12. /\ r \in TunnelObjs /\ r.connector = w.connector /\ r.acceptor = a
         /\ r.state = w.state /\ r.handler = w.handler
         /\ r.near = n /\ r.far = w.far /\ r.up = w.up /\ r.down = g
    <3>1. CASE n.localClosed
      BY <2>4, <2>7, <2>11, <3>1
    <3>2. CASE ~n.localClosed
      <4>1. PICK v : v = [heard EXCEPT !.hasStreamId = FALSE]
        OBVIOUS
      <4>2. FALSE \in BOOLEAN
        OBVIOUS
      <4>3. /\ v \in TunnelObjs /\ v.connector = w.connector /\ v.acceptor = w.acceptor
            /\ v.state = w.state /\ v.handler = w.handler
            /\ v.near = n /\ v.far = w.far /\ v.up = w.up /\ v.down = g
        BY <2>4, <4>1, <4>2, SetHasStreamId, Zenon
      <4>4. r = [v EXCEPT !.acceptor = a]
        BY <2>4, <2>7, <2>8, <3>2, <4>1, <4>3 DEF ForwarderStreamClose
      <4> QED
        BY <2>10, <4>3, <4>4, SetAcceptor
    <3> QED
      BY <3>1, <3>2
  <2>13. EndsOK(r) /\ LinesOK(r) /\ Talking(r) /\ Told(r)
    BY <1>0, <1>t, <1>2, <2>2, <2>9, <2>10, <2>12 DEF EndsOK, PausesAlone, LinesOK, Talking, Told
  <2>14. NearOK(r)
    <3>1. w.far.localClosed
      BY <1>0, <1>2, <2>0 DEF LinesOK
    <3> QED
      BY <1>t, <2>2, <2>9, <2>12, <3>1 DEF NearOK
  <2>15. FarOK(r, o)
    BY <1>t, <2>2, <2>12 DEF FarOK
  <2> QED
    BY <1>0, <1>6, <2>12, <2>13, <2>14, <2>15 DEF TunnelOK, TunnelHalf
<1> QED
  BY <1>9, <1>10, <1>11

(* A frame has arrived at the far end.                                     *)
LEMMA FarFrame ==
    ASSUME NEW w, NEW o, TunnelOK(w, o), w.up # << >>, NEW result \in ConnectResults
    PROVE  TunnelOK(HandleFrame(w, "far", result), o)
<1>0. w \in TunnelObjs /\ TunnelHalf(w, o) /\ w.up \in Seq(Frames) /\ EndsOK(w) /\ LinesOK(w)
      /\ Told(w) /\ o \in BOOLEAN
  BY TunnelFields DEF TunnelOK, TunnelHalf
<1>t. Talking(w) /\ FarOK(w, o) /\ NearOK(w)
  BY <1>0 DEF TunnelHalf, Unopened
<1>1. PICK x, g : x = Head(w.up) /\ g = Tail(w.up)
  OBVIOUS
<1>2. /\ x \in Frames /\ g \in Seq(Frames) /\ (Ended(w.up) <=> Ends(x) \/ Ended(g))
      /\ NoSyn(g) /\ x = w.up[1] /\ (x.kind = "SYN" => NotYet(w.far))
  BY <1>0, <1>1, EndedTail DEF LinesOK
<1>3. PICK rest : rest = [w EXCEPT !.up = g]
  OBVIOUS
<1>4. /\ rest \in TunnelObjs /\ rest.connector = w.connector /\ rest.acceptor = w.acceptor
      /\ rest.state = w.state /\ rest.hasStreamId = w.hasStreamId /\ rest.handler = w.handler
      /\ rest.near = w.near /\ rest.far = w.far /\ rest.up = g /\ rest.down = w.down
  BY <1>0, <1>2, <1>3, SetUp
<1>g. \A stream : SynFirst(g, stream)
  BY <1>2, NoSynFirst
<1>5. EndsOK(rest) /\ LinesOK(rest) /\ Talking(rest) /\ Told(rest)
  BY <1>0, <1>t, <1>g, <1>4 DEF EndsOK, PausesAlone, LinesOK, Talking, Told
<1>6. x.kind # "SYN" /\ (w.far.remoteClosed \/ ~Ends(x)) => TunnelOK(rest, o)
  <2>1. w.far.remoteClosed \/ ~Ends(x) => NearOK(rest)
    BY <1>t, <1>2, <1>4 DEF NearOK
  <2>2. x.kind # "SYN" => FarOK(rest, o)
    BY <1>t, <1>2, <1>4 DEF FarOK
  <2> QED
    BY <1>0, <1>4, <1>5, <2>1, <2>2 DEF TunnelOK, TunnelHalf
<1>7. PICK r : r = HandleFrame(w, "far", result)
  OBVIOUS
<1>8. [w EXCEPT !.up = Tail(@)] = rest
  BY <1>1, <1>3
<1>9. w["far"] = w.far /\ rest["far"] = rest.far
  OBVIOUS
<1>10. CASE x.kind = "SYN"
  <2>1. PICK open : open = OpenStream
    OBVIOUS
  <2>2. open \in Streams /\ Standing(open)
    BY <2>1 DEF OpenStream, NoStream, Streams, Standing
  <2>3. PICK v : v = [rest EXCEPT !.far = open]
    OBVIOUS
  <2>4. /\ v \in TunnelObjs /\ v.connector = w.connector /\ v.acceptor = w.acceptor
        /\ v.state = w.state /\ v.hasStreamId = w.hasStreamId
        /\ v.near = w.near /\ v.far = open /\ v.up = g /\ v.down = w.down
    BY <1>4, <2>2, <2>3, SetFar
  <2>5. r = [v EXCEPT !.handler = "WaitingRequest"]
    BY <1>1, <1>7, <1>8, <1>10, <2>1, <2>3 DEF HandleFrame
  <2>6. "WaitingRequest" \in Handlers
    BY DEF Handlers
  <2>7. /\ r \in TunnelObjs /\ r.connector = w.connector /\ r.acceptor = w.acceptor
        /\ r.state = w.state /\ r.hasStreamId = w.hasStreamId /\ r.handler = "WaitingRequest"
        /\ r.near = w.near /\ r.far = open /\ r.up = g /\ r.down = w.down
    BY <2>4, <2>5, <2>6, SetHandler
  <2>8. NotYet(w.far) /\ w.handler = "none"
    BY <1>t, <1>2, <1>10 DEF FarOK
  <2>9. ~Ends(x) /\ ~Ended(w.down)
    BY <1>0, <1>10, <2>8 DEF Ends, LinesOK, NotYet
  <2>10. EndsOK(r) /\ LinesOK(r) /\ Talking(r) /\ Told(r)
    <3>1. w.connector.fd = "none"
      BY <1>t, <2>8 DEF FarOK
    <3> QED
      BY <1>0, <1>t, <1>g, <2>7, <2>9, <3>1 DEF EndsOK, PausesAlone, LinesOK, Talking, Told
  <2>11. NearOK(r)
    BY <1>t, <1>2, <2>2, <2>7, <2>8, <2>9 DEF NearOK, NotYet, Standing
  <2>12. FarOK(r, o)
    BY <1>t, <2>2, <2>7, <2>8 DEF FarOK, NotYet, Standing
  <2> QED
    BY <1>0, <1>7, <2>7, <2>10, <2>11, <2>12 DEF TunnelOK, TunnelHalf
<1>11. CASE x.kind # "SYN" /\ (~w.far.known \/ w.far.remoteClosed)
  <2>1. w.far.remoteClosed
    BY <1>t, <1>2, <1>11 DEF FarOK
  <2>2. r = rest
    BY <1>1, <1>7, <1>8, <1>9, <1>11 DEF HandleFrame
  <2> QED
    BY <1>6, <1>7, <1>11, <2>1, <2>2
<1>12. CASE w.far.known /\ ~w.far.remoteClosed /\ x.kind = "Data"
  <2>1. ~Ends(x) /\ x.data \in Seq(Unit)
    BY <1>2, <1>12 DEF Ends, Frames
  <2>2. r = HandlerStreamData(rest, x.data, result)
    BY <1>1, <1>7, <1>8, <1>9, <1>12 DEF HandleFrame
  <2>3. TunnelOK(rest, o)
    BY <1>6, <1>12, <2>1
  <2> QED
    BY <1>4, <1>5, <1>7, <1>12, <2>1, <2>2, <2>3, HandlerDataOK
<1>13. CASE w.far.known /\ ~w.far.remoteClosed /\ x.kind \notin {"SYN", "Data"}
  <2>0. Ends(x)
    BY <1>2, <1>13 DEF Ends, Frames, Kinds
  <2>1. PICK n : n = [w.far EXCEPT !.remoteClosed = TRUE]
    OBVIOUS
  <2>2. n \in Streams /\ n.remoteClosed /\ n.known /\ n.localClosed = w.far.localClosed
    BY <1>0, <1>13, <2>1, TunnelFields DEF Streams
  <2>3. PICK heard : heard = [rest EXCEPT !.far = n]
    OBVIOUS
  <2>4. /\ heard \in TunnelObjs /\ heard.connector = w.connector /\ heard.acceptor = w.acceptor
        /\ heard.state = w.state /\ heard.hasStreamId = w.hasStreamId
        /\ heard.handler = w.handler
        /\ heard.near = w.near /\ heard.far = n /\ heard.up = g /\ heard.down = w.down
    BY <1>4, <2>2, <2>3, SetFar
  <2>5. heard = [rest EXCEPT !["far"].remoteClosed = TRUE]
    BY <1>4, <2>1, <2>3
  <2>6. r = StreamClosed(rest, "far")
    BY <1>1, <1>7, <1>8, <1>9, <1>13 DEF HandleFrame
  <2>7. r = IF n.localClosed THEN heard ELSE HandlerStreamClose(heard)
    BY <2>4, <2>5, <2>6 DEF StreamClosed
  <2>8. EndsOK(heard) /\ LinesOK(heard) /\ Talking(heard) /\ Told(heard)
    BY <1>0, <1>t, <1>g, <2>2, <2>4 DEF EndsOK, PausesAlone, LinesOK, Talking, Told
  <2>9. NearOK(heard)
    BY <1>t, <2>2, <2>4 DEF NearOK
  <2>10. FarOK(heard, TRUE)
    BY <1>t, <1>13, <2>2, <2>4 DEF FarOK, NotYet
  <2>11. TunnelOK(heard, TRUE)
    BY <2>4, <2>8, <2>9, <2>10 DEF TunnelOK, TunnelHalf
  <2>12. CASE n.localClosed
    <3>1. r = heard /\ ~IsOpen(heard.connector)
      BY <1>t, <2>2, <2>4, <2>7, <2>12 DEF FarOK
    <3> QED
      BY <1>0, <1>7, <2>11, <3>1, TunnelOther, Zenon
  <2>13. CASE ~n.localClosed
    <3>1. PICK s : s = Close(heard.connector, TRUE)
      OBVIOUS
    <3>2. SockOK(heard.connector) /\ TRUE \in BOOLEAN
      BY <2>8 DEF EndsOK
    <3>3. /\ Op(heard.connector, s)
          /\ IsOpen(heard.connector) => s.fd = "closed"
          /\ ~IsOpen(heard.connector) => s = heard.connector
      BY <3>1, <3>2, CloseOp
    <3>4. ~IsOpen(s)
      BY <3>3 DEF IsOpen
    <3>5. r = Update(heard, "connector", s)
      BY <2>7, <2>13, <3>1 DEF HandlerStreamClose
    <3>6. TunnelOK(r, TRUE) /\ r.connector = s
      BY <2>11, <3>3, <3>5, UpdateFar, Zenon
    <3> QED
      BY <1>0, <1>7, <3>4, <3>6, TunnelOther, Zenon
  <2> QED
    BY <2>12, <2>13
<1> QED
  BY <1>10, <1>11, <1>12, <1>13

-----------------------------------------------------------------------------
(* What is beneath a socket changes; its owner is not told.                *)
Swapped(w, side, s) == [w EXCEPT ![side] = s]

LEMMA TunnelBeneath ==
    ASSUME NEW w, NEW o, TunnelOK(w, o), NEW side \in Sides, NEW s, Beneath(w[side], s)
    PROVE  LET r == Swapped(w, side, s)
           IN  TunnelOK(r, o) /\ r[side] = s /\ r.state = w.state /\ r.far = w.far
<1>0. w \in TunnelObjs /\ TunnelHalf(w, o) /\ w["acceptor"] = w.acceptor
      /\ w["connector"] = w.connector
  BY TunnelFields DEF TunnelOK, TunnelHalf
<1>1. s \in Socket /\ SockOK(s)
  BY DEF Beneath, SockOK
<1>2. PICK r : r = Swapped(w, side, s)
  OBVIOUS
<1>3. CASE side = "acceptor"
  <2>1. r = [w EXCEPT !.acceptor = s] /\ Beneath(w.acceptor, s)
    BY <1>0, <1>2, <1>3, Zenon DEF Swapped
  <2>2. /\ r \in TunnelObjs /\ r.acceptor = s /\ r.connector = w.connector
        /\ r.state = w.state /\ r.hasStreamId = w.hasStreamId /\ r.handler = w.handler
        /\ r.near = w.near /\ r.far = w.far /\ r.up = w.up /\ r.down = w.down
    BY <1>0, <1>1, <2>1, SetAcceptor
  <2>3. TunnelOK(r, o)
    BY <1>0, <2>1, <2>2 DEF TunnelOK, TunnelHalf, Told, EndsOK, PausesAlone, LinesOK, Unopened,
                            NearOK, FarOK, Talking, Beneath, IsOpen, Full
  <2> QED
    BY <1>2, <1>3, <2>2, <2>3
<1>4. CASE side = "connector"
  <2>1. r = [w EXCEPT !.connector = s] /\ Beneath(w.connector, s)
    BY <1>0, <1>2, <1>4, Zenon DEF Swapped
  <2>2. /\ r \in TunnelObjs /\ r.connector = s /\ r.acceptor = w.acceptor
        /\ r.state = w.state /\ r.hasStreamId = w.hasStreamId /\ r.handler = w.handler
        /\ r.near = w.near /\ r.far = w.far /\ r.up = w.up /\ r.down = w.down
    BY <1>0, <1>1, <2>1, SetConnector
  <2>3. TunnelOK(r, o)
    BY <1>0, <2>1, <2>2 DEF TunnelOK, TunnelHalf, Told, EndsOK, PausesAlone, LinesOK, Unopened,
                            NearOK, FarOK, Talking, Beneath, IsOpen, Full
  <2> QED
    BY <1>2, <1>4, <2>2, <2>3
<1> QED
  BY <1>3, <1>4, TwoSides

LEMMA TunnelUpdate ==
    ASSUME NEW w, NEW o, TunnelOK(w, o), NEW side \in Sides, NEW s, Op(w[side], s)
    PROVE  LET r == Update(w, side, s)
           IN  TunnelOK(r, o) /\ r[side] = s
<1>1. CASE side = "acceptor"
  <2>1. Op(w.acceptor, s)
    BY <1>1
  <2> QED
    BY <1>1, <2>1, UpdateNear
<1>2. CASE side = "connector"
  <2>1. Op(w.connector, s)
    BY <1>2
  <2> QED
    BY <1>2, <2>1, UpdateFar
<1> QED
  BY <1>1, <1>2, TwoSides

Refilled(w, side) == IF ResumesReading(w[side])
                     THEN Update(w, side, [w[side] EXCEPT !.readPaused = FALSE]) ELSE w

LEMMA TunnelWritable ==
    ASSUME NEW w, NEW o, TunnelOK(w, o), NEW side \in Sides, Writable(w[side])
    PROVE  TunnelOK(Refilled(Update(w, side, OnWritable(w[side])), side), o)
<1>1. PICK s, t, d : s = w[side] /\ t = OnWritable(w[side]) /\ d = Drained(w[side])
  OBVIOUS
<1>2. w \in TunnelObjs /\ side \in DOMAIN w
  BY TwoSides DEF TunnelOK, TunnelHalf, TunnelObjs
<1>3. SockOK(s) /\ Writable(s)
  BY <1>1, TwoSides, TunnelFields DEF TunnelOK
<1>4. Op(s, d)
  BY <1>1, <1>3, DrainedOp
<1>5. SockOK(t)
  BY <1>1, <1>3, WritableOp
<1>6. TunnelOK(Update(w, side, d), o) /\ Update(w, side, d)[side] = d
  BY <1>1, <1>4, TunnelUpdate
<1>7. PICK v : v = Update(w, side, t)
  OBVIOUS
<1>8. CASE ResumesReading(t)
  <2>1. PICK u : u = [t EXCEPT !.readPaused = FALSE]
    OBVIOUS
  <2>2. u = d /\ u.status = t.status /\ t.status # "Closed"
    BY <1>1, <1>5, <1>8, <2>1 DEF Drained, ResumesReading, IsOpen, SockOK, Socket
  <2>3. v = [w EXCEPT ![side] = t] /\ Update(w, side, u) = [w EXCEPT ![side] = u]
    BY <1>7, <2>2 DEF Update
  <2>4. v[side] = t
    BY <1>2, <2>3
  <2>5. Refilled(v, side) = Update(v, side, u)
    BY <1>8, <2>1, <2>4 DEF Refilled
  <2>6. Update(v, side, u) = [v EXCEPT ![side] = u]
    BY <2>2 DEF Update
  <2>7. [v EXCEPT ![side] = u] = [w EXCEPT ![side] = u]
    BY <1>2, <2>3
  <2> QED
    BY <1>1, <1>6, <1>7, <2>2, <2>3, <2>5, <2>6, <2>7
<1>9. CASE ~ResumesReading(t)
  <2>1. d = t
    BY <1>1, <1>9 DEF Drained
  <2>2. v[side] = t
    BY <1>6, <1>7, <2>1
  <2>3. Refilled(v, side) = v
    BY <1>9, <2>2 DEF Refilled
  <2> QED
    BY <1>1, <1>6, <1>7, <2>1, <2>3
<1> QED
  BY <1>8, <1>9

-----------------------------------------------------------------------------
(* A handler that still looks its target up, though the stream has ended,  *)
(* is the case the orphan is about.                                        *)
TunnelInv(w, o) == TunnelOK(w, o) /\ (w.far.remoteClosed /\ HandlerLooksUp(w) => o)

LEMMA TunnelBecomes ==
    ASSUME ~IsProxy, NEW w, TunnelOK(w, orphan), Becomes(w)
    PROVE  TunnelInv(obj', orphan')
<1>1. /\ obj' = w /\ w.far.remoteClosed \in BOOLEAN /\ orphan \in BOOLEAN
      /\ orphan' = (orphan \/ (w.far.remoteClosed /\ HandlerLooksUp(w)))
  BY TunnelFields DEF Becomes, HeardOfEnd, Asks, TunnelOK, Streams
<1>2. orphan' \in BOOLEAN /\ (orphan => orphan')
  BY <1>1
<1>3. TunnelOK(w, orphan')
  BY <1>2, TunnelOther
<1> QED
  BY <1>1, <1>3 DEF TunnelInv

LEMMA TunnelIs ==
    ASSUME TunnelInv(obj, orphan)
    PROVE  /\ ~IsProxy /\ obj \in TunnelObjs /\ TunnelOK(obj, orphan)
           /\ obj["acceptor"] = obj.acceptor /\ obj["connector"] = obj.connector
           /\ SockOK(obj.acceptor) /\ SockOK(obj.connector)
           /\ "acceptor" \in DOMAIN obj /\ "connector" \in DOMAIN obj
<1>1. TunnelHalf(obj, orphan) /\ TunnelOK(obj, orphan)
  BY DEF TunnelInv, TunnelOK
<1>2. obj \in TunnelObjs
  BY <1>1 DEF TunnelHalf
<1>3. obj.program = "tunnel" /\ "acceptor" \in DOMAIN obj /\ "connector" \in DOMAIN obj
  BY <1>2 DEF TunnelObjs
<1> QED
  BY <1>1, <1>2, <1>3, TunnelFields DEF IsProxy

LEMMA TunnelReads ==
    ASSUME TunnelInv(obj, orphan), NEW side \in Sides, ReadChunk(side)
    PROVE  TunnelInv(obj', orphan')
<1>1. PICK n \in 1 .. Len(obj[side].inbox), result \in ConnectResults :
          Becomes(Received([obj EXCEPT ![side] = Read(@, n)], side,
                           SubSeq(obj[side].inbox, 1, n), result))
  BY DEF ReadChunk
<1>2. PICK s, data : s = Read(obj[side], n) /\ data = SubSeq(obj[side].inbox, 1, n)
  OBVIOUS
<1>3. MayRead(obj[side]) /\ SockOK(obj[side])
  BY TwoSides, TunnelIs DEF ReadChunk
<1>4. /\ Beneath(obj[side], s) /\ s.reset = obj[side].reset /\ data \in Seq(Unit)
      /\ IsOpen(obj[side]) /\ ~obj[side].reset
  BY <1>2, <1>3, ReadOp
<1>5. PICK v : v = [obj EXCEPT ![side] = s]
  OBVIOUS
<1>6. TunnelOK(v, orphan) /\ v[side] = s
  <2>1. TunnelOK(obj, orphan)
    BY TunnelIs
  <2>2. v = Swapped(obj, side, s)
    BY <1>5 DEF Swapped
  <2> QED
    BY <1>4, <2>1, <2>2, TunnelBeneath
<1>7. [obj EXCEPT ![side] = Read(@, n)] = v
  BY <1>2, <1>5, TwoSides, TunnelIs
<1>8. Becomes(Received(v, side, data, result))
  BY <1>1, <1>2, <1>7
<1>9. CASE side = "acceptor"
  <2>1. Fresh(v)
    BY <1>4, <1>6, <1>9 DEF Fresh, Beneath, IsOpen
  <2>2. PICK r : r = OnReceiveData(v, data)
    OBVIOUS
  <2>3. TunnelOK(r, orphan)
    BY <1>4, <1>6, <2>1, <2>2, ForwarderDataOK
  <2>4. Received(v, side, data, result) = r
    BY <1>9, <2>2, TunnelIs DEF Received
  <2> QED
    BY <1>8, <2>3, <2>4, TunnelIs, TunnelBecomes
<1>10. CASE side = "connector"
  <2>1. PICK r : r = SendToStream(v, "far", data)
    OBVIOUS
  <2>2. TunnelHalf(v, orphan) /\ Told(v)
    BY <1>6 DEF TunnelOK
  <2>3. TunnelOK(r, orphan)
    BY <1>4, <2>1, <2>2, StreamSent DEF TunnelOK
  <2>4. Received(v, side, data, result) = r
    BY <1>10, <2>1, TunnelIs DEF Received
  <2> QED
    BY <1>8, <2>3, <2>4, TunnelIs, TunnelBecomes
<1> QED
  BY <1>9, <1>10, TwoSides

(* What the reactor reports of a socket, other than data.                  *)
LEMMA TunnelEvent ==
    ASSUME TunnelInv(obj, orphan), NEW side \in Sides,
           WritableEvent(side) \/ FinishedEvent(side) \/ FailureEvent(side)
    PROVE  TunnelInv(obj', orphan')
<1>1. SockOK(obj[side]) /\ TunnelOK(obj, orphan)
  BY TwoSides, TunnelIs
<1>2. CASE WritableEvent(side)
  <2>1. PICK w : w = Update(obj, side, OnWritable(obj[side]))
    OBVIOUS
  <2>2. Writable(obj[side]) /\ Becomes(Refilled(w, side))
    BY <1>2, <2>1, TunnelIs DEF WritableEvent, After, Refilled
  <2>3. TunnelOK(Refilled(w, side), orphan)
    BY <1>1, <2>1, <2>2, TunnelWritable
  <2> QED
    BY <2>2, <2>3, TunnelIs, TunnelBecomes
<1>3. CASE FinishedEvent(side)
  <2>1. PICK s : s = OnFinished(obj[side])
    OBVIOUS
  <2>2. Finished(obj[side]) /\ Becomes(Update(obj, side, s))
    BY <1>3, <2>1, TunnelIs DEF FinishedEvent, After
  <2>3. Op(obj[side], s)
    BY <1>1, <2>1, <2>2, FinishedOp
  <2>4. TunnelOK(Update(obj, side, s), orphan)
    BY <1>1, <2>3, TunnelUpdate
  <2> QED
    BY <2>2, <2>4, TunnelIs, TunnelBecomes
<1>4. CASE FailureEvent(side)
  <2>1. PICK s : s = Close(obj[side], TRUE)
    OBVIOUS
  <2>2. Becomes(Update(obj, side, s))
    BY <1>4, <2>1, TunnelIs DEF FailureEvent, After
  <2>3. Op(obj[side], s)
    BY <1>1, <2>1, CloseOp
  <2>4. TunnelOK(Update(obj, side, s), orphan)
    BY <1>1, <2>3, TunnelUpdate
  <2> QED
    BY <2>2, <2>4, TunnelIs, TunnelBecomes
<1> QED
  BY <1>2, <1>3, <1>4

LEMMA TunnelPeer ==
    ASSUME TunnelInv(obj, orphan), NEW side \in Sides, NEW s, Beneath(obj[side], s),
           PeerStep(side, s)
    PROVE  TunnelInv(obj', orphan')
<1>1. PICK r : r = [obj EXCEPT ![side] = s]
  OBVIOUS
<1>2. obj' = r /\ orphan' = orphan
  BY <1>1 DEF PeerStep
<1>3. TunnelOK(r, orphan) /\ r.far = obj.far /\ r[side] = s
  <2>1. TunnelOK(obj, orphan)
    BY TunnelIs
  <2>2. r = Swapped(obj, side, s)
    BY <1>1 DEF Swapped
  <2> QED
    BY <2>1, <2>2, TunnelBeneath
<1>4. r.connector.status = obj.connector.status /\ r.connector.fd = obj.connector.fd
  <2>1. CASE side = "acceptor"
    BY <1>1, <2>1, TunnelIs
  <2>2. CASE side = "connector"
    BY <1>3, <2>2, TunnelIs DEF Beneath
  <2> QED
    BY <2>1, <2>2, TwoSides
<1> QED
  BY <1>2, <1>3, <1>4 DEF TunnelInv, HandlerLooksUp, InLookup

LEMMA TunnelNext ==
    ASSUME TunnelInv(obj, orphan), sentUp \in Nat, sentDown \in Nat, Next
    PROVE  TunnelInv(obj', orphan') /\ sentUp' \in Nat /\ sentDown' \in Nat
<1>1. CASE Peers
  <2>1. /\ \E side \in Sides : \E s : Beneath(obj[side], s) /\ PeerStep(side, s)
        /\ sentUp' \in Nat /\ sentDown' \in Nat
    BY <1>1, TunnelIs, PeersBeneath
  <2>2. PICK side \in Sides : \E s : Beneath(obj[side], s) /\ PeerStep(side, s)
    BY <2>1
  <2>3. PICK s : Beneath(obj[side], s) /\ PeerStep(side, s)
    BY <2>2
  <2> QED
    BY <2>1, <2>3, TunnelPeer
<1>2. CASE LookupAnswered
  <2>1. HandlerLooksUp(obj) /\ TunnelOK(obj, orphan) /\ (obj.far.remoteClosed => orphan)
    BY <1>2, TunnelIs DEF LookupAnswered, Asks, TunnelInv
  <2>2. PICK w : w = [obj EXCEPT !.connector.fd = "open"]
    OBVIOUS
  <2>3. PICK r : r = ConnectFailed([obj EXCEPT !.connector.status = "Closed"])
    OBVIOUS
  <2>4. TunnelOK(w, orphan) /\ TunnelOK(r, orphan)
    BY <2>1, <2>2, <2>3, TunnelLookupOK
  <2>5. Becomes(w) \/ Becomes(r)
    BY <1>2, <2>2, <2>3, TunnelIs DEF LookupAnswered
  <2> QED
    BY <2>4, <2>5, TunnelIs, TunnelBecomes DEF Becomes
<1>3. CASE HandshakeDone
  <2>1. PICK r : r = ConnectorConnected([obj EXCEPT !.connector.status = "Connected"])
    OBVIOUS
  <2>2. Becomes(r) /\ InHandshake(obj.connector)
    BY <1>3, <2>1, TunnelIs DEF HandshakeDone
  <2>3. TunnelOK(r, orphan)
    BY <2>1, <2>2, TunnelIs, TunnelConnectedOK
  <2> QED
    BY <2>2, <2>3, TunnelIs, TunnelBecomes DEF Becomes
<1>4. ASSUME NEW end \in {"near", "far"}, FrameArrives(end)
      PROVE  TunnelInv(obj', orphan') /\ UNCHANGED <<sentUp, sentDown>>
  <2>1. PICK result \in ConnectResults : Becomes(HandleFrame(obj, end, result))
    BY <1>4 DEF FrameArrives
  <2>2. IF end = "near" THEN obj.down # << >> ELSE obj.up # << >>
    BY <1>4 DEF FrameArrives
  <2>3. PICK r : r = HandleFrame(obj, end, result)
    OBVIOUS
  <2>4. TunnelOK(r, orphan)
    BY <2>2, <2>3, TunnelIs, NearFrame, FarFrame
  <2> QED
    BY <2>1, <2>3, <2>4, TunnelIs, TunnelBecomes DEF Becomes
<1>5. ASSUME NEW side \in Sides, ReadChunk(side)
      PROVE  TunnelInv(obj', orphan') /\ UNCHANGED <<sentUp, sentDown>>
  BY <1>5, TunnelReads DEF ReadChunk, Becomes
<1>6. ASSUME NEW side \in Sides, WritableEvent(side) \/ FinishedEvent(side) \/ FailureEvent(side)
      PROVE  TunnelInv(obj', orphan') /\ UNCHANGED <<sentUp, sentDown>>
  BY <1>6, TunnelEvent DEF WritableEvent, FinishedEvent, FailureEvent, Becomes
<1> QED
  BY <1>1, <1>2, <1>3, <1>4, <1>5, <1>6 DEF Next, Peers

LEMMA TunnelInit ==
    ASSUME NEW kind \in Clients
    PROVE  TunnelInv(Forwarding(kind), FALSE)
<1>1. PICK a, c : a = AcceptedSocket /\ c = ReadySocket
  OBVIOUS
<1>2. /\ SockOK(a) /\ a.status = "Connected" /\ a.fd = "open" /\ a.readPaused = FALSE
  BY <1>1, AcceptedSocketOK
<1>3. SockOK(c) /\ c.status = "Ready" /\ c.fd = "none" /\ c.readPaused = FALSE
  BY <1>1, ReadySocketOK
<1>4. a \in Socket /\ c \in Socket
  BY <1>2, <1>3 DEF SockOK
<1>5. PICK w : w = Forwarding(kind)
  OBVIOUS
<1>6. << >> \in Seq(Unit) /\ << >> \in Seq(Frames)
  OBVIOUS
<1>7. PICK none : none = NoStream
  OBVIOUS
<1>n. none \in Streams /\ NotYet(none) /\ none.remoteClosed = FALSE
  BY <1>7 DEF NoStream, Streams, NotYet
<1>8. /\ w \in TunnelObjs /\ w.acceptor = a /\ w.connector = c /\ w.state = "Greeting"
      /\ w.up = << >> /\ w.down = << >> /\ w.near = none /\ w.far = none
      /\ w.hasStreamId = FALSE /\ w.handler = "none"
  BY <1>1, <1>4, <1>5, <1>6, <1>7, <1>n DEF Forwarding, TunnelObjs, States, Handlers
<1>9. EndsOK(w)
  BY <1>2, <1>3, <1>8 DEF EndsOK, PausesAlone
<1>10. LinesOK(w)
  BY <1>8 DEF LinesOK, SynFirst, NoSyn, Ended
<1>11. Unopened(w) /\ ~Talking(w)
  BY <1>3, <1>7, <1>n, <1>8 DEF Unopened, Talking
<1> QED
  BY <1>5, <1>7, <1>n, <1>8, <1>9, <1>10, <1>11 DEF TunnelInv, TunnelOK, TunnelHalf, Told

-----------------------------------------------------------------------------
(* The invariant of either program.                                        *)
Inv == /\ sentUp \in Nat /\ sentDown \in Nat /\ reused \in BOOLEAN
       /\ ProxyInv(obj, orphan) \/ TunnelInv(obj, orphan)

(* A number is the acceptor's or it is not.                                *)
LEMMA ReusedIs ==
    ASSUME reused \in BOOLEAN, Next
    PROVE  reused' \in BOOLEAN
<1>1. ASSUME NEW w, Becomes(w) PROVE reused' \in BOOLEAN
  BY <1>1 DEF Becomes
<1>2. ASSUME NEW side, NEW s, PeerStep(side, s) PROVE reused' \in BOOLEAN
  BY <1>2 DEF PeerStep
<1>3. ASSUME ClientSends \/ TargetSends PROVE reused' \in BOOLEAN
  BY <1>2, <1>3 DEF ClientSends, TargetSends
<1>4. ASSUME LookupAnswered \/ HandshakeDone PROVE reused' \in BOOLEAN
  BY <1>1, <1>4 DEF LookupAnswered, HandshakeDone
<1>5. ASSUME NEW end \in {"near", "far"}, FrameArrives(end) PROVE reused' \in BOOLEAN
  BY <1>1, <1>5 DEF FrameArrives
<1>6. ASSUME NEW side \in Sides, PeerTakes(side) \/ PeerFinishes(side) \/ PeerFails(side)
      PROVE  reused' \in BOOLEAN
  BY <1>2, <1>6 DEF PeerTakes, PeerFinishes, PeerFails
<1>7. ASSUME NEW side \in Sides,
             ReadChunk(side) \/ WritableEvent(side) \/ FinishedEvent(side) \/ FailureEvent(side)
      PROVE  reused' \in BOOLEAN
  BY <1>1, <1>7 DEF ReadChunk, WritableEvent, FinishedEvent, FailureEvent
<1> QED
  BY <1>3, <1>4, <1>5, <1>6, <1>7 DEF Next

LEMMA Starts == Init => Inv
<1> SUFFICES ASSUME Init PROVE Inv
  OBVIOUS
<1>1. sentUp \in Nat /\ sentDown \in Nat /\ orphan = FALSE /\ reused = FALSE
  BY DEF Init
<1>2. PICK kind \in Clients : obj = Proxy(kind) \/ obj = Forwarding(kind)
  BY DEF Init
<1>3. ProxyInv(Proxy(kind), FALSE) /\ TunnelInv(Forwarding(kind), FALSE)
  BY ProxyInit, TunnelInit
<1> QED
  BY <1>1, <1>2, <1>3 DEF Inv

LEMMA Steps == Inv /\ [Next]_vars => Inv'
<1> SUFFICES ASSUME Inv, [Next]_vars PROVE Inv'
  OBVIOUS
<1>1. CASE UNCHANGED vars
  BY <1>1 DEF vars, Inv
<1>2. CASE Next /\ ProxyInv(obj, orphan)
  BY <1>2, ProxyNext, ReusedIs DEF Inv
<1>3. CASE Next /\ TunnelInv(obj, orphan)
  BY <1>3, TunnelNext, ReusedIs DEF Inv
<1> QED
  BY <1>1, <1>2, <1>3 DEF Inv

(* Both programs keep their invariant: how far the handshake is, what the  *)
(* descriptor, the status and the queue of each socket tell of each other, *)
(* and what each connection, and each end of the stream, knows of the      *)
(* other.                                                                  *)
THEOREM Invariant == Spec => []Inv
<1> QED
  BY Starts, Steps, PTL DEF Spec

LEMMA ProxyPauses ==
    ASSUME ProxyInv(obj, orphan)
    PROVE  PausedForCause
<1>1. PausePair(obj.acceptor, obj.connector)
  BY ProxyIs DEF Linked, Couple
<1> QED
  BY <1>1, ProxyIs, TwoSides DEF PausedForCause, PausePair, Full

LEMMA TunnelPauses ==
    ASSUME TunnelInv(obj, orphan)
    PROVE  PausedForCause
<1>1. PausesAlone(obj)
  BY DEF TunnelInv, TunnelOK, TunnelHalf, EndsOK
<1> QED
  BY <1>1, TunnelIs, TwoSides DEF PausedForCause, PausesAlone, Full, IsOpen

LEMMA ProxyEndsTogether ==
    ASSUME ProxyInv(obj, orphan)
    PROVE  EndTogether
<1>1. EndPair(obj.acceptor, obj.connector, orphan)
  BY ProxyIs DEF Linked, Couple
<1> QED
  BY <1>1, ProxyIs, TwoSides DEF EndTogether, EndPair

LEMMA TunnelEndsTogether ==
    ASSUME TunnelInv(obj, orphan)
    PROVE  EndTogether
<1>1. TunnelHalf(obj, orphan) /\ Told(obj)
  BY DEF TunnelInv, TunnelOK
<1>2. ASSUME obj.acceptor.fd = "closed", IsOpen(obj.connector)
      PROVE  orphan \/ Ended(obj.up)
  <2>1. Talking(obj)
    BY <1>1, <1>2 DEF TunnelHalf, Unopened, IsOpen
  <2>2. NearOK(obj) /\ FarOK(obj, orphan) /\ (obj.near.localClosed \/ obj.near.remoteClosed)
    BY <1>1, <1>2, <2>1 DEF TunnelHalf, Told, IsOpen
  <2> QED
    BY <1>2, <2>2 DEF NearOK, FarOK
<1>3. ASSUME obj.connector.fd = "closed", IsOpen(obj.acceptor)
      PROVE  Ended(obj.down)
  <2>1. Talking(obj)
    BY <1>1, <1>3 DEF TunnelHalf, Unopened
  <2>2. NearOK(obj) /\ FarOK(obj, orphan) /\ obj.far.localClosed
    BY <1>1, <1>3, <2>1 DEF TunnelHalf, Told
  <2> QED
    BY <1>3, <2>2 DEF NearOK, FarOK
<1> QED
  BY <1>2, <1>3, TunnelIs, TwoSides DEF EndTogether

(* Reading stopped for a full queue always has a queue left to drain: a    *)
(* socket is paused only while it, or in a proxy its peer, has data that   *)
(* waits for the kernel, so no client is stopped for good.                 *)
THEOREM PausesHaveCause == Spec => []PausedForCause
<1>1. Inv => PausedForCause
  BY ProxyPauses, TunnelPauses DEF Inv
<1> QED
  BY <1>1, Invariant, PTL

(* Neither connection outlives the other, for either program and whatever  *)
(* the order in which they fail, finish and drain: the one that is left is *)
(* about to be closed, or was the target of a client that left while its   *)
(* name was looked up.                                                     *)
THEOREM NeitherOutlives == Spec => []EndTogether
<1>1. Inv => EndTogether
  BY ProxyEndsTogether, TunnelEndsTogether DEF Inv
<1> QED
  BY <1>1, Invariant, PTL

=============================================================================
