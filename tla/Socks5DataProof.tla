-------------------------- MODULE Socks5DataProof ----------------------------
(***************************************************************************)
(* More theorems about Socks5: the data.  Where what one peer sent is, on  *)
(* its way to the other, and that none of it is lost, repeated or out of   *)
(* order, for any size of the send buffers and any watermarks.             *)
(***************************************************************************)
EXTENDS Socks5Proof

-----------------------------------------------------------------------------
(* Sequences joined, and one field of the objects replaced: in these words *)
(* the provers need not look into either.                                  *)
Reassoc(u, v, x) == (u \o v) \o x = u \o (v \o x)
ClientHas(w, b) == [w EXCEPT !.clientBuffer = b]
ConnectorHas(w, b) == [w EXCEPT !.connectorBuffer = b]
HandlerHas(w, b) == [w EXCEPT !.buffer = b]
UpHas(w, f) == [w EXCEPT !.up = f]

LEMMA CatAssoc == \A u, v, x \in Seq(Unit) : Reassoc(u, v, x)
  BY Cat, Zenon DEF Reassoc

LEMMA CatIn == \A u, v \in Seq(Unit) : u \o v \in Seq(Unit)
  BY Cat, Zenon

LEMMA CatNone == \A u \in Seq(Unit) : u \o << >> = u /\ << >> \o u = u
  BY Cat, Zenon

LEMMA ProxyBuffers ==
    ASSUME NEW w, NEW o, Linked(w, o), NEW b \in Seq(Unit)
    PROVE  /\ LET r == ClientHas(w, b)
              IN  /\ Linked(r, o) /\ r.state = w.state /\ r.acceptor = w.acceptor
                  /\ r.connector = w.connector /\ r.client = w.client
                  /\ r.clientBuffer = b /\ r.connectorBuffer = w.connectorBuffer
           /\ LET r == ConnectorHas(w, b)
              IN  /\ Linked(r, o) /\ r.state = w.state /\ r.acceptor = w.acceptor
                  /\ r.connector = w.connector /\ r.client = w.client
                  /\ r.clientBuffer = w.clientBuffer /\ r.connectorBuffer = b
  BY DEF Linked, ProxyObjs, ClientHas, ConnectorHas

LEMMA TunnelFieldSet ==
    ASSUME NEW w \in TunnelObjs, NEW b \in Seq(Unit), NEW f \in Seq(Frames)
    PROVE  /\ LET r == ClientHas(w, b)
              IN  /\ r \in TunnelObjs /\ r.clientBuffer = b /\ r.acceptor = w.acceptor
                  /\ r.connector = w.connector /\ r.state = w.state
                  /\ r.handler = w.handler /\ r.buffer = w.buffer /\ r.near = w.near
                  /\ r.far = w.far /\ r.up = w.up /\ r.down = w.down
           /\ LET r == HandlerHas(w, b)
              IN  /\ r \in TunnelObjs /\ r.buffer = b /\ r.acceptor = w.acceptor
                  /\ r.connector = w.connector /\ r.state = w.state
                  /\ r.clientBuffer = w.clientBuffer /\ r.hasStreamId = w.hasStreamId
                  /\ r.handler = w.handler /\ r.near = w.near
                  /\ r.far = w.far /\ r.up = w.up /\ r.down = w.down
           /\ LET r == UpHas(w, f)
              IN  /\ r \in TunnelObjs /\ r.up = f /\ r.acceptor = w.acceptor
                  /\ r.connector = w.connector /\ r.state = w.state
                  /\ r.clientBuffer = w.clientBuffer /\ r.handler = w.handler
                  /\ r.buffer = w.buffer /\ r.near = w.near
                  /\ r.far = w.far /\ r.down = w.down
<1>1. LET r == ClientHas(w, b)
      IN  /\ r \in TunnelObjs /\ r.clientBuffer = b /\ r.acceptor = w.acceptor
          /\ r.connector = w.connector /\ r.state = w.state
          /\ r.handler = w.handler /\ r.buffer = w.buffer /\ r.near = w.near
          /\ r.far = w.far /\ r.up = w.up /\ r.down = w.down
  BY DEF TunnelObjs, ClientHas
<1>2. LET r == HandlerHas(w, b)
      IN  /\ r \in TunnelObjs /\ r.buffer = b /\ r.acceptor = w.acceptor
          /\ r.connector = w.connector /\ r.state = w.state
          /\ r.clientBuffer = w.clientBuffer /\ r.hasStreamId = w.hasStreamId
          /\ r.handler = w.handler /\ r.near = w.near
          /\ r.far = w.far /\ r.up = w.up /\ r.down = w.down
  BY DEF TunnelObjs, HandlerHas
<1>3. LET r == UpHas(w, f)
      IN  /\ r \in TunnelObjs /\ r.up = f /\ r.acceptor = w.acceptor
          /\ r.connector = w.connector /\ r.state = w.state
          /\ r.clientBuffer = w.clientBuffer /\ r.handler = w.handler
          /\ r.buffer = w.buffer /\ r.near = w.near
          /\ r.far = w.far /\ r.down = w.down
  BY DEF TunnelObjs, UpHas
<1> QED
  BY <1>1, <1>2, <1>3

-----------------------------------------------------------------------------
(* The data in what is sent: the units that are neither handshake nor      *)
(* replies.                                                                *)
Marks(units) == [i \in DOMAIN units |-> IF units[i] \in Payload THEN <<units[i]>> ELSE << >>]

LEMMA PayloadUnits ==
    /\ Payload \subseteq Unit
    /\ \A p \in Seq(Payload) : p \in Seq(Unit)
<1>1. Payload \subseteq Unit
  BY DEF Payload, Unit
<1>2. ASSUME NEW p \in Seq(Payload) PROVE p \in Seq(Unit)
  <2>1. Len(p) \in Nat /\ p = [i \in 1 .. Len(p) |-> p[i]] /\ \A i \in 1 .. Len(p) : p[i] \in Payload
    OBVIOUS
  <2>2. \A i \in 1 .. Len(p) : p[i] \in Unit
    BY <1>1, <2>1
  <2> QED
    BY <2>1, <2>2
<1> QED
  BY <1>1, <1>2

LEMMA MarksIn ==
    ASSUME NEW p \in Seq(Unit)
    PROVE  /\ Marks(p) \in Buffers /\ Len(Marks(p)) = Len(p)
           /\ \A i \in 1 .. Len(p) : Marks(p)[i] = IF p[i] \in Payload THEN <<p[i]>> ELSE << >>
<1>1. DOMAIN p = 1 .. Len(p) /\ Len(p) \in Nat /\ \A i \in 1 .. Len(p) : p[i] \in Unit
  OBVIOUS
<1>2. \A u \in Unit : <<u>> \in Seq(Unit)
  BY OneUnit
<1>3. \A i \in 1 .. Len(p) : (IF p[i] \in Payload THEN <<p[i]>> ELSE << >>) \in Seq(Unit)
  BY <1>1, <1>2
<1>4. Marks(p) = [i \in 1 .. Len(p) |-> IF p[i] \in Payload THEN <<p[i]>> ELSE << >>]
  BY <1>1 DEF Marks
<1> QED
  BY <1>1, <1>3, <1>4 DEF Buffers

LEMMA MarksBoth ==
    ASSUME NEW p \in Seq(Unit), NEW q \in Seq(Unit)
    PROVE  Marks(p \o q) = Marks(p) \o Marks(q)
<1>1. PICK a, b, c, m, k : /\ a = Marks(p) /\ b = Marks(q) /\ c = Marks(p \o q)
                           /\ m = Len(p) /\ k = Len(q)
  OBVIOUS
<1>2. /\ p \o q \in Seq(Unit) /\ Len(p \o q) = m + k /\ m \in Nat /\ k \in Nat
      /\ \A i \in 1 .. m + k : (p \o q)[i] = IF i <= m THEN p[i] ELSE q[i - m]
  BY <1>1, ConcatProperties
<1>3. /\ a \in Seq(Seq(Unit)) /\ Len(a) = m
      /\ \A i \in 1 .. m : a[i] = IF p[i] \in Payload THEN <<p[i]>> ELSE << >>
  BY <1>1, MarksIn DEF Buffers
<1>4. /\ b \in Seq(Seq(Unit)) /\ Len(b) = k
      /\ \A i \in 1 .. k : b[i] = IF q[i] \in Payload THEN <<q[i]>> ELSE << >>
  BY <1>1, MarksIn DEF Buffers
<1>5. /\ c \in Seq(Seq(Unit)) /\ Len(c) = m + k
      /\ \A i \in 1 .. m + k : c[i] = IF (p \o q)[i] \in Payload THEN <<(p \o q)[i]>> ELSE << >>
  BY <1>1, <1>2, MarksIn DEF Buffers
<1>6. /\ a \o b \in Seq(Seq(Unit)) /\ Len(a \o b) = m + k
      /\ \A i \in 1 .. m + k : (a \o b)[i] = IF i <= m THEN a[i] ELSE b[i - m]
  <2>1. /\ a \o b \in Seq(Seq(Unit)) /\ Len(a \o b) = Len(a) + Len(b)
        /\ \A i \in 1 .. Len(a) + Len(b) :
               (a \o b)[i] = IF i <= Len(a) THEN a[i] ELSE b[i - Len(a)]
    <3>1. PICK S : S = Seq(Unit)
      OBVIOUS
    <3>2. a \in Seq(S) /\ b \in Seq(S)
      BY <1>3, <1>4, <3>1
    <3> QED
      BY <3>1, <3>2, ConcatProperties
  <2> QED
    BY <1>3, <1>4, <2>1
<1>7. ASSUME NEW i \in 1 .. m + k PROVE c[i] = (a \o b)[i]
  <2>1. CASE i <= m
    <3>1. i \in 1 .. m
      BY <1>2, <2>1
    <3>2. (p \o q)[i] = p[i] /\ (a \o b)[i] = a[i]
      BY <1>2, <1>6, <2>1, Zenon
    <3> QED
      BY <1>3, <1>5, <3>1, <3>2, Zenon
  <2>2. CASE ~(i <= m)
    <3>1. i - m \in 1 .. k
      BY <1>2, <2>2
    <3> QED
      BY <1>2, <1>4, <1>5, <1>6, <2>2, <3>1, Zenon
  <2> QED
    BY <2>1, <2>2
<1>8. c = a \o b
  <2>1. PICK d, S : d = a \o b /\ S = Seq(Unit)
    OBVIOUS
  <2>2. c \in Seq(S) /\ d \in Seq(S) /\ Len(d) = Len(c) /\ \A i \in 1 .. Len(c) : c[i] = d[i]
    BY <1>5, <1>6, <1>7, <2>1
  <2>3. c = d
    BY <2>2
  <2> QED
    BY <2>1, <2>3
<1> QED
  BY <1>1, <1>8

LEMMA DataIs == \A p : DataIn(p) = FlattenSeq(Marks(p))
  BY DEF DataIn, Marks

LEMMA DataNone == DataIn(<< >>) = << >>
<1>0. PICK p : p = << >>
  OBVIOUS
<1>1. p \in Seq(Unit) /\ p = << >>
  BY <1>0
<1>2. Marks(p) \in Buffers /\ Len(Marks(p)) = 0
  BY <1>1, MarksIn
<1>3. Marks(<< >>) = << >>
  BY <1>1, <1>2 DEF Buffers
<1> QED
  BY <1>3, DataIs, FlattenEmpty

LEMMA DataCat ==
    ASSUME NEW p \in Seq(Unit), NEW q \in Seq(Unit)
    PROVE  DataIn(p \o q) = DataIn(p) \o DataIn(q)
<1>1. FlattenSeq(Marks(p) \o Marks(q)) = FlattenSeq(Marks(p)) \o FlattenSeq(Marks(q))
  BY MarksIn, FlattenBoth
<1> QED
  BY <1>1, MarksBoth, DataIs

LEMMA DataTyped ==
    ASSUME NEW p \in Seq(Unit)
    PROVE  DataIn(p) \in Seq(Unit)
  BY MarksIn, FlattenIn, DataIs

LEMMA DataOne ==
    ASSUME NEW u \in Unit
    PROVE  DataIn(<<u>>) = IF u \in Payload THEN <<u>> ELSE << >>
<1>1. PICK x : x = IF u \in Payload THEN <<u>> ELSE << >>
  OBVIOUS
<1>2. PICK p : p = <<u>>
  OBVIOUS
<1>3. p \in Seq(Unit) /\ Len(p) = 1 /\ p[1] = u /\ x \in Seq(Unit)
  BY <1>1, <1>2, OneUnit
<1>4. Marks(p) \in Buffers /\ Len(Marks(p)) = 1 /\ Marks(p)[1] = x
  BY <1>1, <1>3, MarksIn
<1>5. Marks(p) = <<x>>
  BY <1>4 DEF Buffers
<1> QED
  BY <1>1, <1>2, <1>3, <1>5, DataIs, FlattenOne

LEMMA DataAll ==
    ASSUME NEW p \in Seq(Payload)
    PROVE  DataIn(p) = p
<1> DEFINE G == {s \in Seq(Payload) : DataIn(s) = s}
<1>1. << >> \in G
  BY DataNone
<1>2. ASSUME NEW s \in Seq(Payload), NEW e \in Payload, s \in G
      PROVE  Append(s, e) \in G
  <2>1. s \in Seq(Unit) /\ e \in Unit /\ <<e>> \in Seq(Unit)
    BY PayloadUnits, OneUnit
  <2>2. Append(s, e) = s \o <<e>> /\ Append(s, e) \in Seq(Payload)
    OBVIOUS
  <2>3. DataIn(s \o <<e>>) = DataIn(s) \o DataIn(<<e>>)
    BY <2>1, DataCat
  <2>4. DataIn(<<e>>) = <<e>> /\ DataIn(s) = s
    BY <1>2, <2>1, DataOne
  <2> QED
    BY <2>2, <2>3, <2>4
<1>3. Seq(Payload) \subseteq G
  <2> HIDE DEF G
  <2> QED
    BY <1>1, <1>2, ClimbSeq
<1> QED
  BY <1>3

(* What is ahead in a stream.                                              *)
Begins(a, b) == \E c \in Seq(Unit) : a \o c = b

LEMMA BeginsSelf ==
    ASSUME NEW a \in Seq(Unit)
    PROVE  Begins(a, a)
  BY Cat DEF Begins

LEMMA BeginsMore ==
    ASSUME NEW a \in Seq(Unit), NEW b \in Seq(Unit)
    PROVE  Begins(a, a \o b)
  BY DEF Begins

LEMMA BeginsTrans ==
    ASSUME NEW a \in Seq(Unit), NEW b \in Seq(Unit), NEW d, Begins(a, b), Begins(b, d)
    PROVE  Begins(a, d)
<1>1. PICK c \in Seq(Unit) : a \o c = b
  BY DEF Begins
<1>2. PICK e \in Seq(Unit) : b \o e = d
  BY Zenon DEF Begins
<1>3. c \o e \in Seq(Unit) /\ (a \o c) \o e = a \o (c \o e)
  BY Cat
<1>4. a \o (c \o e) = d
  BY <1>1, <1>2, <1>3, Zenon
<1> QED
  BY <1>3, <1>4 DEF Begins

LEMMA BeginsBehind ==
    ASSUME NEW a \in Seq(Unit), NEW b \in Seq(Unit), NEW p \in Seq(Unit), Begins(a, b)
    PROVE  Begins(p \o a, p \o b)
<1>1. PICK c \in Seq(Unit) : a \o c = b
  BY Zenon DEF Begins
<1>2. (p \o a) \o c = p \o (a \o c)
  BY CatAssoc, Zenon DEF Reassoc
<1> QED
  BY <1>1, <1>2, Zenon DEF Begins

LEMMA BeginsData ==
    ASSUME NEW a \in Seq(Unit), NEW b \in Seq(Unit), Begins(a, b)
    PROVE  Begins(DataIn(a), DataIn(b))
<1>1. PICK c \in Seq(Unit) : a \o c = b
  BY DEF Begins
<1>2. DataIn(a) \o DataIn(c) = DataIn(b) /\ DataIn(c) \in Seq(Unit)
  BY <1>1, DataCat, DataTyped
<1> QED
  BY <1>2, Zenon DEF Begins

LEMMA BeginsPrefix ==
    ASSUME NEW a \in Seq(Unit), NEW b \in Seq(Unit), Begins(a, b)
    PROVE  IsPrefix(a, b)
<1>1. PICK c \in Seq(Unit) : a \o c = b
  BY DEF Begins
<1>2. PICK n, m : n = Len(a) /\ m = Len(b)
  OBVIOUS
<1>3. /\ n \in Nat /\ m \in Nat /\ n <= m /\ \A i \in 1 .. n : b[i] = a[i]
  BY <1>1, <1>2, ConcatProperties
<1>4. n \in 0 .. Len(b) /\ n \in 0 .. Len(a)
  BY <1>2, <1>3
<1>5. PICK u, v : u = SubSeq(a, 1, n) /\ v = SubSeq(b, 1, n)
  OBVIOUS
<1>6. u \in Seq(Unit) /\ Len(u) = n /\ \A i \in 1 .. n : u[i] = a[i]
  BY <1>2, <1>3, <1>5
<1>7. v \in Seq(Unit) /\ Len(v) = n /\ \A i \in 1 .. n : v[i] = b[i]
  BY <1>2, <1>3, <1>5
<1>8. u = v
  BY <1>3, <1>6, <1>7
<1> QED
  BY <1>2, <1>3, <1>5, <1>8 DEF IsPrefix

-----------------------------------------------------------------------------
(* What the client has sent after its first k units, and the target.       *)
Left(k, n) == SubSeq(ClientScript, k + 1, n)
Had(m) == SubSeq(TargetScript, 1, m)

LEMMA ScriptUnits ==
    /\ \A i \in 1 .. 4 : ClientScript[i] \notin Payload
    /\ \A i \in 5 .. 7 : ClientScript[i] \in Payload
    /\ TargetScript[1] \in Payload /\ TargetScript[2] \in Payload
<1>1. PICK h, d : h = Handshake /\ d = <<"a", "b", "c">>
  BY Zenon
<1>2. /\ Len(h) = 4 /\ h[1] = "greeting" /\ h[2] = "methods" /\ h[3] = "request"
      /\ h[4] = "address"
  BY <1>1 DEF Handshake
<1>3. Len(d) = 3 /\ d[1] = "a" /\ d[2] = "b" /\ d[3] = "c"
  BY <1>1
<1>4. h \in Seq(Unit) /\ d \in Seq(Unit)
  BY <1>1 DEF Handshake, Unit
<1>5. /\ \A i \in 1 .. 4 : ClientScript[i] = h[i]
      /\ \A i \in 5 .. 7 : ClientScript[i] = d[i - 4]
  <2>1. \A i \in 1 .. 7 : (h \o d)[i] = IF i <= 4 THEN h[i] ELSE d[i - 4]
    <3>1. PICK m, l : m = Len(h) /\ l = Len(d)
      OBVIOUS
    <3>2. \A i \in 1 .. m + l : (h \o d)[i] = IF i <= m THEN h[i] ELSE d[i - m]
      BY <1>4, <3>1, ConcatProperties
    <3>3. m = 4 /\ m + l = 7
      BY <1>2, <1>3, <3>1
    <3> QED
      BY <3>2, <3>3
  <2>2. ClientScript = h \o d
    BY <1>1 DEF ClientScript
  <2>3. \A i \in 1 .. 4 : i \in 1 .. 7 /\ i <= 4
    OBVIOUS
  <2>4. \A i \in 5 .. 7 : i \in 1 .. 7 /\ ~(i <= 4)
    OBVIOUS
  <2> QED
    BY <2>1, <2>2, <2>3, <2>4
<1>6. \A i \in 1 .. 4 : h[i] \notin Payload
  BY <1>2 DEF Payload
<1>7. \A i \in 5 .. 7 : d[i - 4] \in Payload
  BY <1>3 DEF Payload
<1>8. TargetScript[1] = "x" /\ TargetScript[2] = "y"
  BY DEF TargetScript
<1> QED
  BY <1>5, <1>6, <1>7, <1>8 DEF Payload

LEMMA LeftIs ==
    ASSUME NEW k \in 0 .. 7, NEW n \in 0 .. 7, k <= n
    PROVE  /\ Left(k, n) \in Seq(Unit) /\ Len(Left(k, n)) = n - k
           /\ \A i \in 1 .. n - k : Left(k, n)[i] = ClientScript[k + i]
<1>1. PICK q : q = ClientScript
  OBVIOUS
<1>2. q \in Seq(Unit) /\ Len(q) = 7 /\ \A i \in 1 .. 7 : q[i] \in Unit
  BY <1>1, Scripts
<1>3. PICK a : a = k + 1
  OBVIOUS
<1>4. a \in 1 .. 8 /\ \A i \in a .. n : q[i] \in Unit
  BY <1>2, <1>3
<1>5. /\ SubSeq(q, a, n) \in Seq(Unit)
      /\ Len(SubSeq(q, a, n)) = IF a <= n THEN n - a + 1 ELSE 0
      /\ \A i \in 1 .. n - a + 1 : SubSeq(q, a, n)[i] = q[a + i - 1]
  BY <1>4, SubSeqProperties
<1>6. \A i \in 1 .. n - k : a + i - 1 = k + i
  BY <1>3
<1> QED
  BY <1>1, <1>3, <1>5, <1>6 DEF Left

LEMMA LeftMore ==
    ASSUME NEW k \in 0 .. 7, NEW n \in 0 .. 6, k <= n
    PROVE  /\ Left(k, n + 1) = Left(k, n) \o <<ClientScript[n + 1]>>
           /\ <<ClientScript[n + 1]>> \in Seq(Unit)
<1>0. /\ Left(k, n) \in Seq(Unit) /\ Len(Left(k, n)) = n - k
      /\ \A i \in 1 .. n - k : Left(k, n)[i] = ClientScript[k + i]
  <2>1. n \in 0 .. 7
    OBVIOUS
  <2> QED
    BY <2>1, LeftIs
<1>1. /\ Left(k, n + 1) \in Seq(Unit) /\ Len(Left(k, n + 1)) = n + 1 - k
      /\ \A i \in 1 .. n + 1 - k : Left(k, n + 1)[i] = ClientScript[k + i]
  <2>1. PICK j \in 0 .. 7 : j = n + 1
    OBVIOUS
  <2>2. k <= j
    BY <2>1
  <2>3. /\ Left(k, j) \in Seq(Unit) /\ Len(Left(k, j)) = j - k
        /\ \A i \in 1 .. j - k : Left(k, j)[i] = ClientScript[k + i]
    BY <2>2, LeftIs
  <2> QED
    BY <2>1, <2>3
<1>2. PICK a, b, u : a = Left(k, n) /\ b = Left(k, n + 1) /\ u = ClientScript[n + 1]
  OBVIOUS
<1>3. u \in Unit
  <2>1. n + 1 \in 1 .. 7
    OBVIOUS
  <2> QED
    BY <1>2, <2>1, Scripts
<1>4. PICK c : c = Append(a, u)
  OBVIOUS
<1>5. /\ c \in Seq(Unit) /\ Len(c) = n - k + 1 /\ c[n - k + 1] = u
      /\ \A i \in 1 .. n - k : c[i] = a[i]
  BY <1>0, <1>2, <1>3, <1>4
<1>6. ASSUME NEW i \in 1 .. n + 1 - k PROVE b[i] = c[i]
  <2>1. b[i] = ClientScript[k + i]
    BY <1>1, <1>2
  <2>2. CASE i = n - k + 1
    <3>1. k + i = n + 1
      BY <2>2
    <3> QED
      BY <1>2, <1>5, <2>1, <2>2, <3>1
  <2>3. CASE i # n - k + 1
    <3>1. i \in 1 .. n - k
      BY <2>3
    <3> QED
      BY <1>0, <1>2, <1>5, <2>1, <3>1
  <2> QED
    BY <2>2, <2>3
<1>7. b = c
  <2>1. b \in Seq(Unit) /\ c \in Seq(Unit) /\ Len(b) = Len(c) /\ Len(b) = n + 1 - k
    BY <1>1, <1>2, <1>5
  <2>2. \A i \in 1 .. Len(b) : b[i] = c[i]
    BY <1>6, <2>1
  <2> QED
    BY <2>1, <2>2, SeqEqual
<1>8. Append(a, u) = a \o <<u>> /\ <<u>> \in Seq(Unit)
  BY <1>0, <1>2, <1>3, OneUnit
<1> QED
  BY <1>2, <1>4, <1>7, <1>8

LEMMA LeftBegins ==
    ASSUME NEW k \in 0 .. 7, NEW n \in 0 .. 7, k <= n
    PROVE  Begins(Left(k, n), Left(k, 7))
<1> DEFINE G == {j \in 0 .. 7 : n <= j => Begins(Left(k, n), Left(k, j))}
<1>1. \A j \in 0 .. 7 : k <= j => Left(k, j) \in Seq(Unit)
  BY LeftIs
<1>2. ASSUME NEW j \in 0 .. 6, j \in G PROVE j + 1 \in G
  <2>1. CASE n <= j
    <3>1. Begins(Left(k, n), Left(k, j)) /\ k <= j
      BY <1>2, <2>1
    <3>2. PICK a, b, x : a = Left(k, n) /\ b = Left(k, j) /\ x = <<ClientScript[j + 1]>>
      BY Zenon
    <3>0. j \in 0 .. 7 /\ n \in 0 .. 7 /\ k <= n /\ k <= j
      BY <3>1
    <3>3. a \in Seq(Unit) /\ b \in Seq(Unit)
      BY <1>1, <3>0, <3>2, Zenon
    <3>4. x \in Seq(Unit) /\ Left(k, j + 1) = b \o x
      BY <3>1, <3>2, LeftMore
    <3>5. Begins(a, b \o x)
      BY <3>1, <3>2, <3>3, <3>4, BeginsMore, BeginsTrans
    <3>6. Begins(Left(k, n), Left(k, j + 1))
      BY <3>2, <3>4, <3>5
    <3>7. j + 1 \in 0 .. 7
      OBVIOUS
    <3> QED
      BY <3>6, <3>7
  <2>2. CASE ~(n <= j)
    <3>1. n <= j + 1 => n = j + 1
      BY <2>2
    <3>2. Begins(Left(k, n), Left(k, n))
      BY <1>1, BeginsSelf
    <3> QED
      BY <3>1, <3>2
  <2> QED
    BY <2>1, <2>2
<1>3. 0 \in G
  <2>1. n <= 0 => n = 0
    OBVIOUS
  <2>2. Begins(Left(k, n), Left(k, n))
    BY <1>1, BeginsSelf
  <2> QED
    BY <2>1, <2>2
<1>4. 7 \in G
  <2> HIDE DEF G
  <2>1. 1 \in G /\ 2 \in G
    <3>1. 0 + 1 = 1 /\ 1 + 1 = 2 /\ 0 \in 0 .. 6 /\ 1 \in 0 .. 6
      OBVIOUS
    <3> QED
      BY <1>2, <1>3, <3>1
  <2>2. 3 \in G /\ 4 \in G
    <3>1. 2 + 1 = 3 /\ 3 + 1 = 4 /\ 2 \in 0 .. 6 /\ 3 \in 0 .. 6
      OBVIOUS
    <3> QED
      BY <1>2, <2>1, <3>1
  <2>3. 5 \in G /\ 6 \in G
    <3>1. 4 + 1 = 5 /\ 5 + 1 = 6 /\ 4 \in 0 .. 6 /\ 5 \in 0 .. 6
      OBVIOUS
    <3> QED
      BY <1>2, <2>2, <3>1
  <2>4. 6 + 1 = 7 /\ 6 \in 0 .. 6
    OBVIOUS
  <2> QED
    BY <1>2, <2>3, <2>4
<1> QED
  BY <1>4

LEMMA DataLess ==
    ASSUME NEW p \in Seq(Unit \ Payload)
    PROVE  DataIn(p) = << >> /\ p \in Seq(Unit)
<1> DEFINE G == {s \in Seq(Unit \ Payload) : DataIn(s) = << >> /\ s \in Seq(Unit)}
<1>1. << >> \in G
  BY DataNone
<1>2. ASSUME NEW s \in Seq(Unit \ Payload), NEW e \in Unit \ Payload, s \in G
      PROVE  Append(s, e) \in G
  <2>1. s \in Seq(Unit) /\ e \in Unit /\ <<e>> \in Seq(Unit)
    BY <1>2, OneUnit
  <2>2. Append(s, e) = s \o <<e>> /\ Append(s, e) \in Seq(Unit \ Payload)
    OBVIOUS
  <2>3. DataIn(s \o <<e>>) = DataIn(s) \o DataIn(<<e>>) /\ s \o <<e>> \in Seq(Unit)
    BY <2>1, DataCat, Cat
  <2>4. DataIn(<<e>>) = << >> /\ DataIn(s) = << >>
    BY <1>2, <2>1, DataOne
  <2>5. << >> \o << >> = << >>
    BY Cat
  <2> QED
    BY <2>2, <2>3, <2>4, <2>5
<1>3. Seq(Unit \ Payload) \subseteq G
  <2> HIDE DEF G
  <2> QED
    BY <1>1, <1>2, ClimbSeq
<1> QED
  BY <1>3

LEMMA AllItems ==
    ASSUME NEW S, NEW R, NEW p \in Seq(S), \A i \in 1 .. Len(p) : p[i] \in R
    PROVE  p \in Seq(R)
<1>1. Len(p) \in Nat /\ p = [i \in 1 .. Len(p) |-> p[i]]
  OBVIOUS
<1> QED
  BY <1>1

LEMMA Parts ==
    ASSUME NEW a \in Seq(Unit), NEW b \in Seq(Unit), a \o b \in Seq(Payload)
    PROVE  a \in Seq(Payload) /\ b \in Seq(Payload)
<1>1. PICK m, l, c : m = Len(a) /\ l = Len(b) /\ c = a \o b
  OBVIOUS
<1>2. /\ m \in Nat /\ l \in Nat /\ Len(c) = m + l
      /\ \A i \in 1 .. m + l : c[i] = IF i <= m THEN a[i] ELSE b[i - m]
  BY <1>1, ConcatProperties
<1>3. \A i \in 1 .. m + l : c[i] \in Payload
  BY <1>1, <1>2
<1>4. \A i \in 1 .. m : a[i] \in Payload
  <2> SUFFICES ASSUME NEW i \in 1 .. m PROVE a[i] \in Payload
    OBVIOUS
  <2>1. i \in 1 .. m + l /\ i <= m
    BY <1>2
  <2> QED
    BY <1>2, <1>3, <2>1
<1>5. \A i \in 1 .. l : b[i] \in Payload
  <2> SUFFICES ASSUME NEW i \in 1 .. l PROVE b[i] \in Payload
    OBVIOUS
  <2>1. m + i \in 1 .. m + l /\ ~(m + i <= m) /\ (m + i) - m = i
    BY <1>2
  <2> QED
    BY <1>2, <1>3, <2>1
<1> QED
  BY <1>1, <1>4, <1>5, AllItems

LEMMA CatItems ==
    ASSUME NEW a \in Seq(Unit), NEW b \in Seq(Unit)
    PROVE  /\ Len(a) \in Nat /\ Len(b) \in Nat /\ Len(a \o b) = Len(a) + Len(b)
           /\ \A i \in 1 .. Len(a) + Len(b) :
                  (a \o b)[i] = IF i <= Len(a) THEN a[i] ELSE b[i - Len(a)]
  BY ConcatProperties

(* What is taken off the front of what the client sends.                   *)
LEMMA LeftRest ==
    ASSUME NEW k \in {0, 2}, NEW n \in 0 .. 7, k <= n,
           NEW s \in Seq(Unit), Len(s) = 2, NEW y \in Seq(Unit), s \o y = Left(k, n)
    PROVE  k + 2 <= n /\ y = Left(k + 2, n) /\ DataIn(s) = << >>
<1>0. k \in 0 .. 7 /\ k + 2 \in 0 .. 7
  OBVIOUS
<1>1. PICK a, l : a = Left(k, n) /\ l = Len(y)
  OBVIOUS
<1>2. /\ a \in Seq(Unit) /\ Len(a) = n - k
      /\ \A i \in 1 .. n - k : a[i] = ClientScript[k + i]
  BY <1>0, <1>1, LeftIs
<1>3. /\ l \in Nat /\ Len(a) = 2 + l
      /\ \A i \in 1 .. 2 + l : a[i] = IF i <= 2 THEN s[i] ELSE y[i - 2]
  <2>1. PICK m : m = Len(s)
    OBVIOUS
  <2>2. /\ l \in Nat /\ Len(s \o y) = m + l
        /\ \A i \in 1 .. m + l : (s \o y)[i] = IF i <= m THEN s[i] ELSE y[i - m]
    BY <1>1, <2>1, CatItems
  <2>3. m = 2 /\ s \o y = a
    BY <1>1, <2>1
  <2> QED
    BY <2>2, <2>3
<1>4. k + 2 <= n /\ l = n - (k + 2) /\ n - k = 2 + l
  BY <1>2, <1>3
<1>5. y = Left(k + 2, n)
  <2>1. PICK j \in 0 .. 7 : j = k + 2
    BY <1>0
  <2>2. PICK b : b = Left(j, n)
    OBVIOUS
  <2>3. /\ b \in Seq(Unit) /\ Len(b) = n - j
        /\ \A i \in 1 .. n - j : b[i] = ClientScript[j + i]
    BY <1>4, <2>1, <2>2, LeftIs
  <2>4. Len(b) = Len(y)
    BY <1>1, <1>4, <2>1, <2>3
  <2>5. ASSUME NEW i \in 1 .. Len(y) PROVE y[i] = b[i]
    <3>1. /\ i \in 1 .. n - j /\ 2 + i \in 1 .. 2 + l /\ ~(2 + i <= 2) /\ (2 + i) - 2 = i
          /\ k + (2 + i) = j + i /\ 2 + i \in 1 .. n - k
      BY <1>1, <1>3, <1>4, <2>1
    <3>2. a[2 + i] = y[i]
      BY <1>3, <3>1
    <3>3. a[2 + i] = ClientScript[j + i]
      BY <1>2, <3>1
    <3> QED
      BY <2>3, <3>1, <3>2, <3>3
  <2>6. y = b
    BY <2>3, <2>4, <2>5, SeqEqual
  <2> QED
    BY <2>1, <2>2, <2>6
<1>6. DataIn(s) = << >>
  <2>1. ASSUME NEW i \in 1 .. Len(s) PROVE s[i] \in Unit \ Payload
    <3>1. i \in 1 .. 2 /\ i \in 1 .. 2 + l /\ i <= 2 /\ i \in 1 .. n - k /\ k + i \in 1 .. 4
      BY <1>3, <1>4
    <3>2. s[i] = ClientScript[k + i]
      BY <1>2, <1>3, <3>1
    <3>3. s[i] \notin Payload
      BY <3>1, <3>2, ScriptUnits
    <3>4. s[i] \in Unit
      BY ElementOfSeq
    <3> QED
      BY <3>3, <3>4
  <2> QED
    BY <2>1, AllItems, DataLess
<1> QED
  BY <1>4, <1>5, <1>6

TwoAhead(k, n, s) == \A y \in Seq(Unit) : s \o y = Left(k, n) =>
    k + 2 <= n /\ y = Left(k + 2, n) /\ DataIn(s) = << >>

LEMMA TwoFirst ==
    ASSUME NEW k \in {0, 2}, NEW n \in 0 .. 7, k <= n,
           NEW s \in Seq(Unit), Len(s) = 2
    PROVE  TwoAhead(k, n, s)
  BY LeftRest, Zenon DEF TwoAhead

LEMMA TwoTaken ==
    ASSUME NEW k \in {0, 2}, NEW n \in 0 .. 7, k <= n,
           NEW s \in Seq(Unit), Len(s) = 2, NEW x \in Seq(Unit), Begins(s \o x, Left(k, n))
    PROVE  /\ k + 2 <= n /\ Begins(x, Left(k + 2, n))
           /\ s \o x = Left(k, n) => x = Left(k + 2, n)
<1>1. PICK c \in Seq(Unit) : (s \o x) \o c = Left(k, n)
  BY Zenon DEF Begins
<1>2. PICK y : y = x \o c
  OBVIOUS
<1>3. y \in Seq(Unit) /\ s \o y = Left(k, n)
  <2>1. Reassoc(s, x, c) /\ x \o c \in Seq(Unit)
    BY CatAssoc, CatIn, Zenon
  <2> QED
    BY <1>1, <1>2, <2>1, Zenon DEF Reassoc
<1>t. TwoAhead(k, n, s)
  BY TwoFirst
<1>4. k + 2 <= n /\ y = Left(k + 2, n)
  BY <1>t, <1>3, Zenon DEF TwoAhead
<1>5. Begins(x, Left(k + 2, n))
  BY <1>2, <1>4, Zenon DEF Begins
<1>6. ASSUME s \o x = Left(k, n) PROVE x = Left(k + 2, n)
  BY <1>t, <1>6, Zenon DEF TwoAhead
<1> QED
  BY <1>4, <1>5, <1>6

LEMMA DataLeft ==
    ASSUME NEW n \in 0 .. 7, NEW k \in {0, 2, 4}, k <= n
    PROVE  DataIn(Left(k, n)) = DataIn(Left(0, n))
<1>1. ASSUME NEW j \in {0, 2}, j + 2 <= n
      PROVE  DataIn(Left(j, n)) = DataIn(Left(j + 2, n))
  <2>1. j \in 0 .. 7 /\ j <= n
    BY <1>1
  <2>2. PICK a, s, y : a = Left(j, n) /\ s = SubSeq(a, 1, 2) /\ y = Rest(a, 2)
    OBVIOUS
  <2>3. a \in Seq(Unit) /\ Len(a) = n - j
    BY <2>1, <2>2, LeftIs, Zenon
  <2>4. 2 \in 0 .. Len(a)
    BY <1>1, <2>3
  <2>5. s \in Seq(Unit) /\ Len(s) = 2 /\ y \in Seq(Unit) /\ s \o y = a
    BY <2>2, <2>3, <2>4, Splits, RestLen, Zenon
  <2>6. y = Left(j + 2, n) /\ DataIn(s) = << >>
    <3>1. s \o y = Left(j, n)
      BY <2>2, <2>5
    <3> QED
      BY <2>1, <2>5, <3>1, LeftRest, Zenon
  <2>7. DataIn(a) = DataIn(s) \o DataIn(y) /\ DataIn(y) \in Seq(Unit)
    BY <2>5, DataCat, DataTyped
  <2> QED
    BY <2>2, <2>6, <2>7, Cat
<1>2. 2 <= n => DataIn(Left(0, n)) = DataIn(Left(2, n))
  <2>1. 0 + 2 = 2
    OBVIOUS
  <2> QED
    BY <1>1, <2>1
<1>3. 4 <= n => DataIn(Left(2, n)) = DataIn(Left(4, n))
  <2>1. 2 + 2 = 4
    OBVIOUS
  <2> QED
    BY <1>1, <2>1
<1> QED
  BY <1>2, <1>3

LEMMA LeftData ==
    ASSUME NEW n \in 4 .. 7
    PROVE  Left(4, n) \in Seq(Payload) /\ DataIn(Left(4, n)) = Left(4, n)
<1>0. 4 \in 0 .. 7 /\ n \in 0 .. 7 /\ 4 <= n
  OBVIOUS
<1>1. /\ Left(4, n) \in Seq(Unit) /\ Len(Left(4, n)) = n - 4
      /\ \A i \in 1 .. n - 4 : Left(4, n)[i] = ClientScript[4 + i]
  BY <1>0, LeftIs
<1>2. ASSUME NEW i \in 1 .. n - 4 PROVE Left(4, n)[i] \in Payload
  <2>1. 4 + i \in 5 .. 7
    OBVIOUS
  <2> QED
    BY <1>1, <2>1, ScriptUnits
<1>3. Left(4, n) \in Seq(Payload)
  BY <1>1, <1>2, AllItems
<1> QED
  BY <1>3, DataAll

LEMMA ScriptData ==
    /\ DataIn(ClientScript) = Left(4, 7)
    /\ \A n \in 0 .. 7 : SubSeq(ClientScript, 1, n) = Left(0, n)
<1>1. \A n \in 0 .. 7 : SubSeq(ClientScript, 1, n) = Left(0, n)
  BY DEF Left
<1>2. PICK q : q = ClientScript
  OBVIOUS
<1>3. q \in Seq(Unit) /\ Len(q) = 7
  BY <1>2, Scripts
<1>4. SubSeq(q, 1, 7) = q
  <2>0. 7 \in 0 .. Len(q)
    BY <1>3
  <2>1. SubSeq(q, 1, 7) \in Seq(Unit) /\ Len(SubSeq(q, 1, 7)) = 7
    BY <1>3, <2>0, Splits, Zenon
  <2>2. \A i \in 1 .. 7 : SubSeq(q, 1, 7)[i] = q[i]
    BY <1>3
  <2> QED
    BY <1>3, <2>1, <2>2, SeqEqual
<1>5. 7 \in 4 .. 7 /\ 7 \in 0 .. 7 /\ 4 <= 7
  OBVIOUS
<1>6. DataIn(Left(0, 7)) = Left(4, 7)
  BY <1>5, LeftData, DataLeft
<1> QED
  BY <1>1, <1>2, <1>4, <1>5, <1>6

LEMMA HadIs ==
    ASSUME NEW m \in 0 .. 2
    PROVE  /\ Had(m) \in Seq(Payload) /\ Had(m) \in Seq(Unit)
           /\ Begins(Had(m), TargetScript)
           /\ m < 2 => /\ Had(m + 1) = Had(m) \o <<TargetScript[m + 1]>>
                       /\ <<TargetScript[m + 1]>> \in Seq(Payload)
<1>1. PICK q, a, b : q = TargetScript /\ a = SubSeq(q, 1, m) /\ b = Rest(q, m)
  OBVIOUS
<1>2. /\ q \in Seq(Unit) /\ Len(q) = 2 /\ m \in 0 .. Len(q) /\ m \in Nat
      /\ q[1] \in Payload /\ q[2] \in Payload
  BY <1>1, Scripts, ScriptUnits
<1>3. a \in Seq(Unit) /\ b \in Seq(Unit) /\ a \o b = q /\ Len(a) = m
  BY <1>1, <1>2, Splits, RestLen
<1>4. \A i \in 1 .. m : a[i] = q[i]
  BY <1>1, <1>2
<1>5. a \in Seq(Payload)
  <2>1. \A i \in 1 .. m : a[i] \in Payload
    BY <1>2, <1>4
  <2> QED
    BY <1>3, <2>1, AllItems
<1>6. ASSUME m < 2 PROVE SubSeq(q, 1, m + 1) = a \o <<q[m + 1]>> /\ <<q[m + 1]>> \in Seq(Payload)
  <2>1. PICK j, u : j = m + 1 /\ u = q[j]
    OBVIOUS
  <2>2. j \in {1, 2} /\ u \in Payload /\ u \in Unit /\ j \in 0 .. Len(q) /\ j \in Nat
    BY <1>2, <1>6, <2>1, PayloadUnits
  <2>3. PICK c, d : c = SubSeq(q, 1, j) /\ d = Append(a, u)
    OBVIOUS
  <2>4. c \in Seq(Unit) /\ Len(c) = j /\ \A i \in 1 .. j : c[i] = q[i]
    <3>1. c \in Seq(Unit) /\ Len(c) = j
      BY <1>2, <2>2, <2>3, Splits
    <3> QED
      BY <1>2, <2>2, <2>3, <3>1
  <2>5. /\ d \in Seq(Unit) /\ Len(d) = j /\ d[j] = u
        /\ \A i \in 1 .. m : d[i] = a[i]
    BY <1>2, <1>3, <2>1, <2>2, <2>3
  <2>6. \A i \in 1 .. j : c[i] = d[i]
    <3> SUFFICES ASSUME NEW i \in 1 .. j PROVE c[i] = d[i]
      OBVIOUS
    <3>1. i = j \/ i \in 1 .. m
      BY <1>2, <2>1
    <3> QED
      BY <1>4, <2>1, <2>4, <2>5, <3>1
  <2>7. c = d
    BY <2>4, <2>5, <2>6, SeqEqual
  <2>8. Append(a, u) = a \o <<u>> /\ <<u>> \in Seq(Payload)
    BY <1>3, <2>2
  <2> QED
    BY <2>1, <2>3, <2>7, <2>8
<1>7. Begins(a, q)
  BY <1>3 DEF Begins
<1> QED
  BY <1>1, <1>3, <1>5, <1>6, <1>7 DEF Had

-----------------------------------------------------------------------------
(* The units x are what there is of whole, unless some were lost at the    *)
(* end.                                                                    *)
Runs(x, whole, lossy) == Begins(x, whole) /\ (~lossy => x = whole)

(* The data among what a peer has been sent and will be.                   *)
Heard(s) == DataIn(Out(s))

(* A socket that has at most lost what was queued; ...                     *)
Quiet(s, r) ==
    /\ SockOK(r) /\ r.inbox = s.inbox /\ r.reset = s.reset /\ Begins(Out(r), Out(s))
    /\ r.fd # "closed" => s.fd # "closed" /\ Out(r) = Out(s)
    /\ r.status = "Connected" => s.status = "Connected"
    /\ r.status = "Closing" => s.status \in {"Connected", "Closing"}

(* ... or has been sent what is no data.                                   *)
Hears(s, r) ==
    /\ SockOK(r) /\ r.inbox = s.inbox /\ r.reset = s.reset /\ Begins(Heard(r), Heard(s))
    /\ r.fd # "closed" => s.fd # "closed" /\ Heard(r) = Heard(s)
    /\ r.status = "Connected" => s.status = "Connected"

LEMMA HeardIn ==
    ASSUME NEW s, SockOK(s)
    PROVE  Heard(s) \in Seq(Unit) /\ Out(s) \in Seq(Unit) /\ s.inbox \in Seq(Unit)
  BY OutIn, DataTyped, Fields DEF Heard

LEMMA QuietHears ==
    ASSUME NEW s, SockOK(s), NEW r, Quiet(s, r)
    PROVE  Hears(s, r)
<1>1. Out(s) \in Seq(Unit) /\ Out(r) \in Seq(Unit)
  BY OutIn DEF Quiet
<1>2. Begins(Heard(r), Heard(s))
  BY <1>1, BeginsData DEF Quiet, Heard
<1> QED
  BY <1>2 DEF Quiet, Hears, Heard

LEMMA QuietSame ==
    ASSUME NEW s, SockOK(s)
    PROVE  Quiet(s, s) /\ Hears(s, s)
<1>1. Quiet(s, s)
  BY HeardIn, BeginsSelf DEF Quiet
<1> QED
  BY <1>1, QuietHears

LEMMA QuietTrans ==
    ASSUME NEW s, SockOK(s), NEW r, Quiet(s, r), NEW t, Quiet(r, t)
    PROVE  Quiet(s, t)
<1>1. Out(s) \in Seq(Unit) /\ Out(r) \in Seq(Unit) /\ Out(t) \in Seq(Unit)
  BY OutIn DEF Quiet
<1>2. Begins(Out(t), Out(s))
  BY <1>1, BeginsTrans DEF Quiet
<1> QED
  BY <1>2 DEF Quiet

LEMMA HearsTrans ==
    ASSUME NEW s, SockOK(s), NEW r, Hears(s, r), NEW t, Hears(r, t)
    PROVE  Hears(s, t)
<1>1. Heard(s) \in Seq(Unit) /\ Heard(r) \in Seq(Unit) /\ Heard(t) \in Seq(Unit)
  BY HeardIn DEF Hears
<1>2. Begins(Heard(t), Heard(s))
  BY <1>1, BeginsTrans DEF Hears
<1> QED
  BY <1>2 DEF Hears

(* A socket that is closed, or was, has sent what it got.                  *)
LEMMA QuietClosed ==
    ASSUME NEW s, SockOK(s), NEW r, SockOK(r), r.fd = "closed",
           r.inbox = s.inbox, r.reset = s.reset, Begins(r.got, Out(s))
    PROVE  Quiet(s, r)
<1>1. Out(r) = r.got /\ r.status = "Closed"
  BY OutIn DEF SockOK
<1> QED
  BY <1>1 DEF Quiet

LEMMA GotBegins ==
    ASSUME NEW s, SockOK(s)
    PROVE  Begins(s.got, Out(s))
  BY OutIn, BeginsMore DEF Out

LEMMA QuietClose ==
    ASSUME NEW s, SockOK(s), NEW force \in BOOLEAN
    PROVE  Quiet(s, Close(s, force))
<1>1. PICK r : r = Close(s, force)
  OBVIOUS
<1>2. /\ Op(s, r) /\ (~IsOpen(s) => r = s) /\ (IsOpen(r) => r.status = "Closing")
      /\ (IsOpen(s) /\ (force \/ ~Full(s)) => r.fd = "closed")
      /\ r.got = s.got /\ r.inbox = s.inbox /\ r.reset = s.reset
      /\ (IsOpen(r) => r.writeQueue = s.writeQueue)
  BY <1>1, CloseOp
<1>3. CASE ~IsOpen(s)
  BY <1>1, <1>2, <1>3, QuietSame
<1>4. CASE IsOpen(s) /\ r.fd = "closed"
  BY <1>1, <1>2, <1>4, QuietClosed, GotBegins DEF Op
<1>5. CASE IsOpen(s) /\ r.fd # "closed"
  <2>1. IsOpen(r) /\ Full(s) /\ SockOK(r)
    BY <1>2, <1>5 DEF Op
  <2>2. Out(r) = Out(s) /\ s.status \in {"Connected", "Closing"}
    BY <1>2, <1>5, <2>1 DEF Out, Queued, SockOK, Untouched, IsOpen
  <2>3. Begins(Out(r), Out(s))
    BY <2>2, HeardIn, BeginsSelf
  <2> QED
    BY <1>1, <1>2, <1>5, <2>1, <2>2, <2>3 DEF Quiet, IsOpen
<1> QED
  BY <1>3, <1>4, <1>5

LEMMA QuietBeside ==
    ASSUME NEW s, SockOK(s), NEW r, Beside(s, r)
    PROVE  Quiet(s, r)
<1>1. SockOK(r) /\ r.inbox = s.inbox /\ r.reset = s.reset /\ r.got = s.got
  BY DEF Beside
<1>2. CASE r.fd = "closed"
  BY <1>1, <1>2, QuietClosed, GotBegins
<1>3. CASE r.fd = "open"
  <2>1. s.fd = "open" /\ r.status \in {s.status, "Closing"} /\ r.writeQueue = s.writeQueue
    BY <1>3 DEF Beside, IsOpen
  <2>2. Out(r) = Out(s)
    BY <1>1, <2>1 DEF Out, Queued
  <2>3. r.status = "Closing" => s.status \in {"Connected", "Closing"}
    BY <1>1, <1>3, <2>1 DEF SockOK, Full, Untouched
  <2>4. Begins(Out(r), Out(s))
    BY <2>2, HeardIn, BeginsSelf
  <2> QED
    BY <1>1, <1>3, <2>1, <2>2, <2>3, <2>4 DEF Quiet
<1>4. CASE r.fd = "none"
  <2>1. s.fd = "none" /\ r.status = s.status
    BY <1>4 DEF Beside, IsOpen
  <2>2. ~Full(s) /\ ~Full(r)
    BY <1>1, <1>4, <2>1 DEF SockOK, Untouched
  <2>3. Out(r) = Out(s)
    BY <1>1, <2>2, OutIn
  <2>4. Begins(Out(r), Out(s))
    BY <2>3, HeardIn, BeginsSelf
  <2>5. r.status \notin {"Connected", "Closing"}
    BY <1>1, <1>4 DEF SockOK
  <2> QED
    BY <1>1, <1>4, <2>1, <2>3, <2>4, <2>5 DEF Quiet
<1> QED
  BY <1>1, <1>2, <1>3, <1>4, Fields

LEMMA QuietDrained ==
    ASSUME NEW s, SockOK(s), Writable(s)
    PROVE  Quiet(s, Drained(s))
<1>1. PICK r : r = Drained(s)
  OBVIOUS
<1>2. /\ Op(s, r) /\ r.inbox = s.inbox /\ r.reset = s.reset
      /\ (IsOpen(r) => r.status = s.status /\ Out(r) = Out(s))
      /\ \E lost \in Seq(Unit) : r.got \o lost = Out(s)
  BY <1>1, DrainedOp
<1>3. IsOpen(s) /\ s.fd = "open" /\ SockOK(r) /\ (IsOpen(r) \/ r.fd = "closed")
  BY <1>2 DEF Op, Writable, IsOpen
<1>4. CASE r.fd = "closed"
  <2>1. Begins(r.got, Out(s))
    BY <1>2 DEF Begins
  <2> QED
    BY <1>1, <1>2, <1>3, <1>4, <2>1, QuietClosed
<1>5. CASE IsOpen(r)
  <2>1. r.fd = "open" /\ r.status = s.status /\ Out(r) = Out(s)
    BY <1>2, <1>5 DEF IsOpen
  <2>2. Begins(Out(r), Out(s))
    BY <2>1, HeardIn, BeginsSelf
  <2> QED
    BY <1>1, <1>2, <1>3, <2>1, <2>2 DEF Quiet
<1> QED
  BY <1>3, <1>4, <1>5

LEMMA QuietFinished ==
    ASSUME NEW s, SockOK(s), Finished(s)
    PROVE  Quiet(s, OnFinished(s))
<1>1. PICK r : r = OnFinished(s)
  OBVIOUS
<1>2. /\ Op(s, r) /\ r.inbox = s.inbox /\ r.reset = s.reset /\ r.got = s.got
      /\ (IsOpen(r) => Out(r) = Out(s))
  BY <1>1, FinishedOp
<1>3. IsOpen(s) /\ s.fd = "open" /\ SockOK(r) /\ (IsOpen(r) \/ r.fd = "closed")
  BY <1>2 DEF Op, Finished, IsOpen
<1>4. CASE r.fd = "closed"
  BY <1>1, <1>2, <1>3, <1>4, QuietClosed, GotBegins
<1>5. CASE IsOpen(r)
  <2>1. r.fd = "open" /\ r.status \in {s.status, "Closing"} /\ Out(r) = Out(s)
    BY <1>2, <1>3, <1>5 DEF Op, IsOpen
  <2>2. Begins(Out(r), Out(s))
    BY <2>1, HeardIn, BeginsSelf
  <2>3. s.status \in {"Connected", "Closing"}
    BY <1>3 DEF SockOK, Untouched, Finished
  <2> QED
    BY <1>1, <1>2, <1>3, <2>1, <2>2, <2>3 DEF Quiet
<1> QED
  BY <1>3, <1>4, <1>5

(* A socket that has been sent data.                                       *)
Passes(s, r, data) ==
    /\ SockOK(r) /\ r.inbox = s.inbox /\ r.reset = s.reset /\ Begins(Out(r), Out(s) \o data)
    /\ r.fd # "closed" => s.fd = r.fd
    /\ IsOpen(r) => Out(r) = Out(s) \o data /\ IsOpen(s)
    /\ ~IsOpen(s) => r = s
    /\ r.status = "Connected" => s.status = "Connected"
    /\ r.status = "Closing" => s.status = "Closing"

LEMMA SendPasses ==
    ASSUME NEW s, SockOK(s), NEW data \in Seq(Unit), IsOpen(s) => s.status # "Connecting"
    PROVE  Passes(s, Send(s, data), data)
<1>1. PICK r : r = Send(s, data)
  OBVIOUS
<1>2. /\ Op(s, r) /\ r.inbox = s.inbox /\ r.reset = s.reset
      /\ (IsOpen(r) => r.status = s.status /\ (IsOpen(s) => Out(r) = Out(s) \o data))
      /\ (~IsOpen(r) => ~Full(r) /\ r.got = s.got)
  BY <1>1, SendOp
<1>3. SockOK(r) /\ (~IsOpen(s) => r = s) /\ (IsOpen(s) => IsOpen(r) \/ r.fd = "closed")
  BY <1>2 DEF Op
<1>4. Out(s) \in Seq(Unit) /\ Begins(Out(s), Out(s) \o data)
  BY HeardIn, BeginsMore
<1>5. Begins(s.got, Out(s) \o data)
  BY <1>4, GotBegins, BeginsTrans, Fields
<1>6. CASE IsOpen(r)
  <2>1. IsOpen(s) /\ Out(r) = Out(s) \o data /\ Out(r) \in Seq(Unit)
    BY <1>2, <1>3, <1>6, HeardIn
  <2>2. Begins(Out(r), Out(s) \o data)
    BY <2>1, BeginsSelf
  <2> QED
    BY <1>1, <1>2, <1>3, <1>6, <2>1, <2>2 DEF Passes, IsOpen
<1>7. CASE ~IsOpen(r) /\ IsOpen(s)
  <2>1. r.fd = "closed" /\ r.status = "Closed" /\ Out(r) = s.got
    BY <1>2, <1>3, <1>7, OutIn DEF SockOK
  <2> QED
    BY <1>1, <1>2, <1>3, <1>5, <1>7, <2>1 DEF Passes
<1>8. CASE ~IsOpen(s)
  BY <1>1, <1>2, <1>3, <1>4, <1>8 DEF Passes
<1> QED
  BY <1>6, <1>7, <1>8

LEMMA HearsReply ==
    ASSUME NEW s, SockOK(s), NEW u \in Unit \ Payload, IsOpen(s) => s.status # "Connecting"
    PROVE  Hears(s, Send(s, <<u>>))
<1>1. PICK data, r : data = <<u>> /\ r = Send(s, data)
  OBVIOUS
<1>2. data \in Seq(Unit) /\ DataIn(data) = << >>
  BY <1>1, OneUnit, DataOne
<1>3. Passes(s, r, data)
  BY <1>1, <1>2, SendPasses
<1>4. Out(s) \in Seq(Unit) /\ Heard(s) \in Seq(Unit) /\ Out(r) \in Seq(Unit)
  BY <1>3, HeardIn DEF Passes
<1>5. DataIn(Out(s) \o data) = Heard(s) /\ Out(s) \o data \in Seq(Unit)
  <2>1. DataIn(Out(s) \o data) = Heard(s) \o << >>
    BY <1>2, <1>4, DataCat, Zenon DEF Heard
  <2> QED
    BY <1>2, <1>4, <2>1, Cat
<1>6. Begins(Heard(r), Heard(s))
  BY <1>3, <1>4, <1>5, BeginsData, Zenon DEF Passes, Heard
<1>7. r.fd # "closed" => Heard(r) = Heard(s)
  BY <1>3, <1>5 DEF Passes, Heard, IsOpen
<1> QED
  BY <1>1, <1>3, <1>6, <1>7 DEF Passes, Hears

LEMMA Replies ==
    /\ "error" \in Unit \ Payload /\ "success" \in Unit \ Payload
    /\ "method" \in Unit \ Payload /\ "noMethod" \in Unit \ Payload
  BY DEF Unit, Payload

-----------------------------------------------------------------------------
(* The data of a proxy.  Of what the client sent, the handshake is taken   *)
(* first; what follows is for the target: unread, in clientBuffer, in      *)
(* connectorBuffer until it is connected, or sent.                         *)
Unread(w) == w.clientBuffer \o w.acceptor.inbox
Coming(w) == w.connectorBuffer \o Unread(w)
ProxyUp(w, n) ==
    /\ n \in 0 .. 7
    /\ w.state = "Greeting" /\ ~w.acceptor.reset => Unread(w) = Left(0, n)
    /\ w.state = "Request" /\ ~w.acceptor.reset => 2 <= n /\ Unread(w) = Left(2, n)
    /\ w.state \in {"Greeting", "Request"} => w.connectorBuffer = << >>
    /\ w.state \in {"Connecting", "Connected"} =>
          /\ 4 <= n
          /\ w.connector.fd # "closed" =>
                Runs(Out(w.connector) \o Coming(w), Left(4, n), w.acceptor.reset)
    /\ w.connector.status \in {"Connected", "Closing"} => w.state = "Connected"
Delivered(w, m) ==
    /\ m \in 0 .. 2
    /\ Begins(Out(w.connector), Left(4, 7))
    /\ w.connector.inbox \in Seq(Payload)
    /\ Begins(Heard(w.acceptor), TargetScript)
    /\ w.acceptor.status = "Connected" =>
          Runs(Heard(w.acceptor) \o w.connector.inbox, Had(m), w.connector.reset)
Emptied(w) ==
    w.state = "Connected" /\ w.connector.status = "Connected" => w.connectorBuffer = << >>
ProxyData(w, n, m) == ProxyUp(w, n) /\ Delivered(w, m)

LEMMA Units ==
    /\ TargetScript \in Seq(Unit) /\ Left(4, 7) \in Seq(Unit)
    /\ \A k, n \in 0 .. 7 : k <= n => Left(k, n) \in Seq(Unit)
    /\ \A m \in 0 .. 2 : Had(m) \in Seq(Unit)
<1>1. 4 \in 0 .. 7 /\ 7 \in 0 .. 7 /\ 4 <= 7
  OBVIOUS
<1> QED
  BY <1>1, Scripts, LeftIs, HadIs

LEMMA DeliveredKept ==
    ASSUME NEW w, NEW r, NEW m, SockOK(w.acceptor), SockOK(w.connector), Delivered(w, m),
           Hears(w.acceptor, r.acceptor), Quiet(w.connector, r.connector)
    PROVE  Delivered(r, m)
<1>1. Begins(Out(r.connector), Left(4, 7))
  BY OutIn, BeginsTrans, Units DEF Delivered, Quiet
<1>2. Begins(Heard(r.acceptor), TargetScript)
  BY HeardIn, BeginsTrans, Units DEF Delivered, Hears
<1>3. r.connector.inbox = w.connector.inbox /\ r.connector.reset = w.connector.reset
  BY DEF Quiet
<1>4. r.acceptor.status = "Connected" =>
         w.acceptor.status = "Connected" /\ Heard(r.acceptor) = Heard(w.acceptor)
  BY DEF Hears, SockOK
<1> QED
  BY <1>1, <1>2, <1>3, <1>4 DEF Delivered

LEMMA ProxyQuiet ==
    ASSUME NEW w, NEW o, Linked(w, o), NEW n, NEW m, ProxyData(w, n, m),
           NEW r, Rests(w, r),
           Hears(w.acceptor, r.acceptor), Quiet(w.connector, r.connector)
    PROVE  ProxyData(r, n, m) /\ (Emptied(w) => Emptied(r))
<1>1. Delivered(r, m)
  BY ProxyFields, DeliveredKept DEF ProxyData
<1>2. /\ r.state = w.state /\ r.clientBuffer = w.clientBuffer
      /\ r.connectorBuffer = w.connectorBuffer
      /\ r.acceptor.inbox = w.acceptor.inbox /\ r.acceptor.reset = w.acceptor.reset
  BY DEF Rests, Hears
<1>3. Unread(r) = Unread(w) /\ Coming(r) = Coming(w)
  BY <1>2 DEF Unread, Coming
<1>4. /\ r.connector.fd # "closed" => /\ w.connector.fd # "closed"
                                      /\ Out(r.connector) = Out(w.connector)
      /\ r.connector.status \in {"Connected", "Closing"} =>
            w.connector.status \in {"Connected", "Closing"}
      /\ r.connector.status = "Connected" => w.connector.status = "Connected"
  BY DEF Quiet
<1>5. ProxyUp(r, n)
  BY <1>2, <1>3, <1>4 DEF ProxyData, ProxyUp
<1>6. Emptied(w) => Emptied(r)
  BY <1>2, <1>4 DEF Emptied
<1> QED
  BY <1>1, <1>5, <1>6 DEF ProxyData

LEMMA ErrorData ==
    ASSUME NEW w, NEW r, NEW n \in 0 .. 7, NEW m,
           SockOK(w.acceptor), SockOK(w.connector), Delivered(w, m),
           Hears(w.acceptor, r.acceptor), Quiet(w.connector, r.connector),
           r.state = "Error", r.connector.fd = "none"
    PROVE  ProxyData(r, n, m) /\ Emptied(r)
<1>1. Delivered(r, m)
  BY DeliveredKept
<1>2. r.connector.status \notin {"Connected", "Closing"}
  BY DEF Quiet, SockOK
<1> QED
  BY <1>1, <1>2 DEF ProxyData, ProxyUp, Emptied

(* What an answer, and an answer with a close, are for the two sockets.    *)
LEMMA AnswerHeard ==
    ASSUME NEW w, NEW o, Linked(w, o), NEW u \in Unit \ Payload
    PROVE  LET r == SendOn(w, "acceptor", <<u>>)
           IN  /\ Linked(r, o) /\ Rests(w, r) /\ r.acceptor = Send(w.acceptor, <<u>>)
               /\ Hears(w.acceptor, r.acceptor) /\ Quiet(w.connector, r.connector)
               /\ Beside(w.connector, r.connector)
<1>1. PICK data, s, r : /\ data = <<u>> /\ s = Send(w.acceptor, data)
                        /\ r = SendOn(w, "acceptor", data)
  OBVIOUS
<1>2. data \in Seq(Unit)
  BY <1>1, OneUnit
<1>3. Op(w.acceptor, s)
  BY <1>1, <1>2, ProxyFields, SendOp
<1>4. r = With(w, "acceptor", s)
  BY <1>1, ProxyFields DEF SendOn
<1>5. Linked(r, o) /\ Rests(w, r) /\ r.acceptor = s /\ Beside(w.connector, r.connector)
  BY <1>3, <1>4, OnAcceptor
<1>6. Hears(w.acceptor, s)
  BY <1>1, ProxyFields, HearsReply
<1>7. Quiet(w.connector, r.connector)
  BY <1>5, ProxyFields, QuietBeside
<1> QED
  BY <1>1, <1>5, <1>6, <1>7

LEMMA CloseHeard ==
    ASSUME NEW w, NEW o, Linked(w, o), NEW force \in BOOLEAN
    PROVE  LET r == CloseIt(w, "acceptor", force)
           IN  /\ Linked(r, o) /\ Rests(w, r)
               /\ Hears(w.acceptor, r.acceptor) /\ Quiet(w.connector, r.connector)
               /\ Beside(w.connector, r.connector)
<1>1. PICK s, r : s = Close(w.acceptor, force) /\ r = CloseIt(w, "acceptor", force)
  OBVIOUS
<1>2. Op(w.acceptor, s) /\ r = With(w, "acceptor", s)
  BY <1>1, ProxyFields, CloseOp DEF CloseIt
<1>3. Linked(r, o) /\ Rests(w, r) /\ r.acceptor = s /\ Beside(w.connector, r.connector)
  BY <1>2, OnAcceptor
<1>4. Hears(w.acceptor, s) /\ Quiet(w.connector, r.connector)
  BY <1>1, <1>3, ProxyFields, QuietClose, QuietHears, QuietBeside
<1> QED
  BY <1>1, <1>3, <1>4

LEMMA FailData ==
    ASSUME NEW w, NEW o, Linked(w, o), w.connector.fd = "none", NEW force \in BOOLEAN,
           NEW n \in 0 .. 7, NEW m, Delivered(w, m)
    PROVE  LET r == Fail(w, force)
           IN  /\ ProxyData(r, n, m) /\ Emptied(r) /\ Linked(r, o) /\ r.state = "Error"
               /\ r.connector.fd = "none" /\ r.connector.status = w.connector.status
               /\ Hears(w.acceptor, r.acceptor) /\ Quiet(w.connector, r.connector)
               /\ r.clientBuffer = w.clientBuffer /\ r.connectorBuffer = w.connectorBuffer
<1>1. PICK v : v = [w EXCEPT !.state = "Error"]
  OBVIOUS
<1>2. /\ Linked(v, o) /\ v.state = "Error" /\ v.connector = w.connector
      /\ v.acceptor = w.acceptor
      /\ v.clientBuffer = w.clientBuffer /\ v.connectorBuffer = w.connectorBuffer
  BY <1>1, StateSet DEF States
<1>3. PICK u : u = "error"
  OBVIOUS
<1>4. u \in Unit \ Payload
  BY <1>3, Replies
<1>5. PICK x, r : x = SendOn(v, "acceptor", <<u>>) /\ r = CloseIt(x, "acceptor", force)
  OBVIOUS
<1>6. /\ Linked(x, o) /\ Rests(v, x)
      /\ Hears(v.acceptor, x.acceptor) /\ Quiet(v.connector, x.connector)
  BY <1>2, <1>4, <1>5, AnswerHeard
<1>7. /\ Linked(r, o) /\ Rests(x, r)
      /\ Hears(x.acceptor, r.acceptor) /\ Quiet(x.connector, r.connector)
  BY <1>5, <1>6, CloseHeard
<1>8. Hears(w.acceptor, r.acceptor) /\ Quiet(w.connector, r.connector)
  BY <1>2, <1>6, <1>7, ProxyFields, HearsTrans, QuietTrans
<1>9. r = Fail(w, force)
  BY <1>1, <1>3, <1>5 DEF Fail
<1>10. /\ r.state = "Error" /\ r.clientBuffer = w.clientBuffer
       /\ r.connectorBuffer = w.connectorBuffer
  BY <1>2, <1>6, <1>7 DEF Rests
<1>11. r.connector.fd = "none" /\ r.connector.status = w.connector.status
  BY <1>9, FailOK
<1>12. ProxyData(r, n, m) /\ Emptied(r)
  BY <1>8, <1>10, <1>11, ProxyFields, ErrorData
<1> QED
  BY <1>7, <1>8, <1>9, <1>10, <1>11, <1>12

LEMMA GreetingData ==
    ASSUME NEW w, NEW o, ProxyOK(w, o), Fresh(w), w.state = "Greeting",
           NEW n, NEW m, ProxyData(w, n, m), Emptied(w)
    PROVE  ProxyData(ProcessGreeting(w), n, m) /\ Emptied(ProcessGreeting(w))
<1>1. PICK r : r = ProcessGreeting(w)
  OBVIOUS
<1>f. /\ Linked(w, o) /\ w.connector.fd = "none" /\ w.connector.status = "Ready"
      /\ ~w.acceptor.reset /\ n \in 0 .. 7 /\ Delivered(w, m)
      /\ Unread(w) = Left(0, n) /\ w.connectorBuffer = << >>
  BY DEF ProxyOK, ProxyPhase, Unasked, Fresh, ProxyData, ProxyUp
<1>g. /\ w.clientBuffer \in Seq(Unit) /\ Len(w.clientBuffer) \in Nat
      /\ SockOK(w.acceptor) /\ SockOK(w.connector) /\ w.acceptor.inbox \in Seq(Unit)
  BY <1>f, ProxyFields, Fields
<1>2. CASE Len(w.clientBuffer) < 2
  <2>1. ~(Len(w.clientBuffer) >= 2)
    BY <1>2, <1>g
  <2>2. r = w
    BY <1>1, <1>2, <2>1 DEF ProcessGreeting
  <2> QED
    BY <1>1, <2>2
<1>3. CASE ~(Len(w.clientBuffer) < 2) /\ w.client = "oldVersion"
  <2>0. Len(w.clientBuffer) >= 2
    BY <1>3, <1>g
  <2>1. r = Fail(w, FALSE)
    BY <1>1, <1>3, <2>0 DEF ProcessGreeting
  <2> QED
    BY <1>1, <1>f, <2>1, FailData, Zenon
<1>4. PICK a, b : a = SubSeq(w.clientBuffer, 1, 2) /\ b = Rest(w.clientBuffer, 2)
  OBVIOUS
<1>5. b \in Seq(Unit)
  BY <1>g, <1>4, TwoLess
<1>6. PICK taken : taken = ClientHas(w, b)
  OBVIOUS
<1>7. /\ Linked(taken, o) /\ taken.state = w.state /\ taken.acceptor = w.acceptor
      /\ taken.connector = w.connector /\ taken.clientBuffer = b
      /\ taken.connectorBuffer = w.connectorBuffer
  BY <1>f, <1>5, <1>6, ProxyBuffers
<1>8. [w EXCEPT !.clientBuffer = Rest(@, 2)] = taken
  BY <1>4, <1>6 DEF ClientHas
<1>9. CASE ~(Len(w.clientBuffer) < 2) /\ w.client = "noAuthRefused"
  <2>0. Len(w.clientBuffer) >= 2
    BY <1>9, <1>g
  <2>1. PICK x : x = "noMethod"
    OBVIOUS
  <2>2. PICK u : u = SendOn(taken, "acceptor", <<x>>)
    OBVIOUS
  <2>3. PICK v : v = [u EXCEPT !.state = "Error"]
    OBVIOUS
  <2>4. r = CloseIt(v, "acceptor", FALSE)
    BY <1>1, <1>8, <1>9, <2>0, <2>1, <2>2, <2>3, Zenon DEF ProcessGreeting
  <2>5. /\ Linked(u, o) /\ Hears(w.acceptor, u.acceptor) /\ Quiet(w.connector, u.connector)
        /\ Beside(w.connector, u.connector)
    BY <1>7, <2>1, <2>2, Replies, AnswerHeard
  <2>6. Linked(v, o) /\ v.state = "Error" /\ v.connector = u.connector /\ v.acceptor = u.acceptor
    BY <2>3, <2>5, StateSet, Zenon DEF States
  <2>7. /\ Linked(r, o) /\ Hears(u.acceptor, r.acceptor) /\ Quiet(u.connector, r.connector)
        /\ Beside(u.connector, r.connector) /\ r.state = "Error"
    BY <2>4, <2>6, CloseHeard, Zenon DEF Rests
  <2>8. r.connector.fd = "none"
    BY <1>f, <2>5, <2>7 DEF Beside, IsOpen
  <2>9. Hears(w.acceptor, r.acceptor) /\ Quiet(w.connector, r.connector)
    BY <1>g, <2>5, <2>7, HearsTrans, QuietTrans
  <2> QED
    BY <1>1, <1>f, <1>g, <2>7, <2>8, <2>9, ErrorData
<1>10. CASE ~(Len(w.clientBuffer) < 2) /\ w.client \notin {"oldVersion", "noAuthRefused"}
  <2>0. Len(w.clientBuffer) >= 2
    BY <1>10, <1>g
  <2>1. PICK x : x = "method"
    OBVIOUS
  <2>2. PICK u : u = SendOn(taken, "acceptor", <<x>>)
    OBVIOUS
  <2>3. r = [u EXCEPT !.state = "Request"]
    BY <1>1, <1>8, <1>10, <2>0, <2>1, <2>2, Zenon DEF ProcessGreeting
  <2>4. /\ Linked(u, o) /\ Hears(w.acceptor, u.acceptor) /\ Quiet(w.connector, u.connector)
        /\ Rests(taken, u)
    BY <1>7, <2>1, <2>2, Replies, AnswerHeard
  <2>5. /\ r.state = "Request" /\ r.acceptor = u.acceptor /\ r.connector = u.connector
        /\ r.clientBuffer = b /\ r.connectorBuffer = << >>
    BY <1>7, <1>f, <2>3, <2>4, StateSet DEF States, Rests
  <2>6. Delivered(r, m)
    BY <1>f, <1>g, <2>4, <2>5, DeliveredKept
  <2>7. Unread(r) = b \o w.acceptor.inbox
    BY <2>4, <2>5, Zenon DEF Unread, Hears
  <2>8. a \in Seq(Unit) /\ Len(a) = 2 /\ a \o b = w.clientBuffer
    <3>1. 2 \in 0 .. Len(w.clientBuffer)
      BY <1>g, <2>0
    <3> QED
      BY <1>g, <1>4, <3>1, Splits, Zenon
  <2>9. PICK y : y = b \o w.acceptor.inbox
    BY Zenon
  <2>10. y \in Seq(Unit) /\ a \o y = Left(0, n)
    <3>1. (a \o b) \o w.acceptor.inbox = a \o (b \o w.acceptor.inbox)
      <4>1. Reassoc(a, b, w.acceptor.inbox)
        BY <1>g, <1>5, <2>8, CatAssoc
      <4> QED
        BY <4>1, Zenon DEF Reassoc
    <3> QED
      BY <1>f, <1>g, <1>5, <2>8, <2>9, <3>1, Cat, Zenon DEF Unread
  <2>11. 2 <= n /\ y = Left(2, n)
    <3>1. 0 \in {0, 2} /\ 0 <= n /\ 0 + 2 = 2
      BY <1>f
    <3> QED
      BY <1>f, <2>8, <2>10, <3>1, LeftRest
  <2>12. r.connector.status \notin {"Connected", "Closing"}
    BY <1>f, <2>4, <2>5 DEF Quiet
  <2>13. ProxyUp(r, n) /\ Emptied(r)
    BY <1>f, <2>5, <2>7, <2>9, <2>11, <2>12 DEF ProxyUp, Emptied
  <2> QED
    BY <1>1, <2>6, <2>13 DEF ProxyData
<1> QED
  BY <1>2, <1>3, <1>9, <1>10

(* The target is asked for: what follows the request is for it.            *)
LEMMA AskedData ==
    ASSUME NEW r, NEW n \in 4 .. 7, NEW m, Delivered(r, m), r.state = "Connecting",
           r.connector.status \notin {"Connected", "Closing"},
           Out(r.connector) = << >>, r.connectorBuffer = << >>, Unread(r) = Left(4, n)
    PROVE  ProxyData(r, n, m) /\ Emptied(r)
<1>1. n \in 0 .. 7 /\ 4 <= n /\ 4 \in 0 .. 7
  OBVIOUS
<1>2. PICK x : x = Left(4, n)
  OBVIOUS
<1>3. x \in Seq(Unit)
  BY <1>1, <1>2, Units
<1>4. Out(r.connector) \o Coming(r) = x
  <2>1. Coming(r) = << >> \o x
    BY <1>2 DEF Coming
  <2>2. << >> \o x = x
    BY <1>3, Cat
  <2> QED
    BY <2>1, <2>2
<1>5. Runs(x, x, r.acceptor.reset)
  BY <1>3, BeginsSelf DEF Runs
<1>6. ProxyUp(r, n)
  BY <1>1, <1>2, <1>4, <1>5 DEF ProxyUp
<1> QED
  BY <1>6 DEF ProxyData, Emptied

LEMMA RequestData ==
    ASSUME NEW w, NEW o, ProxyOK(w, o), Fresh(w), w.state = "Request",
           NEW n, NEW m, ProxyData(w, n, m), Emptied(w), NEW result \in ConnectResults
    PROVE  ProxyData(ProcessRequest(w, result), n, m) /\ Emptied(ProcessRequest(w, result))
<1>1. PICK r : r = ProcessRequest(w, result)
  OBVIOUS
<1>f. /\ Linked(w, o) /\ Unasked(w) /\ w.connector.fd = "none" /\ w.connector.status = "Ready"
      /\ ~w.acceptor.reset /\ IsOpen(w.acceptor) /\ n \in 0 .. 7 /\ Delivered(w, m)
      /\ 2 <= n /\ Unread(w) = Left(2, n) /\ w.connectorBuffer = << >>
  BY DEF ProxyOK, ProxyPhase, Unasked, Fresh, ProxyData, ProxyUp
<1>g. /\ w.clientBuffer \in Seq(Unit) /\ Len(w.clientBuffer) \in Nat
      /\ SockOK(w.acceptor) /\ SockOK(w.connector) /\ w.acceptor.inbox \in Seq(Unit)
      /\ ~w.connector.readPaused /\ Untouched(w.connector)
  BY <1>f, ProxyFields, Fields DEF Unasked, NonePaused, SockOK
<1>2. CASE Len(w.clientBuffer) < 2
  <2>1. ~(Len(w.clientBuffer) >= 2)
    BY <1>2, <1>g
  <2>2. r = w
    BY <1>1, <1>2, <2>1 DEF ProcessRequest
  <2> QED
    BY <1>1, <2>2
<1>3. CASE Len(w.clientBuffer) >= 2 /\ w.client = "badRequest"
  <2>0. ~(Len(w.clientBuffer) < 2)
    BY <1>3, <1>g
  <2>1. r = Fail(w, FALSE)
    BY <1>1, <1>3, <2>0 DEF ProcessRequest
  <2> QED
    BY <1>1, <1>f, <2>1, FailData
<1>4. CASE Len(w.clientBuffer) >= 2 /\ w.client # "badRequest"
  <2>0. ~(Len(w.clientBuffer) < 2)
    BY <1>4, <1>g
  <2>1. PICK a, b : a = SubSeq(w.clientBuffer, 1, 2) /\ b = Rest(w.clientBuffer, 2)
    OBVIOUS
  <2>b. b \in Seq(Unit)
    BY <1>g, <2>1, TwoLess
  <2>2. PICK c : c = ConnectTo(w.connector, result)
    OBVIOUS
  <2>3. /\ SockOK(c) /\ ~c.readPaused /\ c.inbox = w.connector.inbox
        /\ c.got = w.connector.got /\ c.writeQueue = w.connector.writeQueue
        /\ c.reset = w.connector.reset
        /\ c.status = IF result \in {"failed", "refused"} THEN "Closed" ELSE "Connecting"
        /\ c.fd = IF result = "inProgress" THEN "open" ELSE "none"
    BY <1>f, <1>g, <2>2, ConnectToOp
  <2>4. PICK asked : asked = [w EXCEPT !.clientBuffer = b, !.connector = c]
    OBVIOUS
  <2>5. /\ asked \in ProxyObjs /\ asked.acceptor = w.acceptor /\ asked.connector = c
        /\ asked.state = w.state /\ asked.clientBuffer = b /\ asked.connectorBuffer = << >>
        /\ asked = [w EXCEPT !.clientBuffer = Rest(@, 2), !.connector = ConnectTo(@, result)]
    BY <1>f, <2>1, <2>b, <2>2, <2>3, <2>4 DEF Linked, ProxyObjs, SockOK
  <2>6. Linked(asked, o)
    <3>1. SockOK(asked.connector) /\ ~asked.connector.readPaused /\ asked.connector.fd # "closed"
      BY <2>3, <2>5
    <3> QED
      BY <1>f, <2>5, <3>1, AskedOK, Zenon
  <2>7. Out(c) = << >> /\ Out(w.connector) = << >>
    BY <1>g, <2>3, OutIn DEF Untouched, Full
  <2>8. Quiet(w.connector, c)
    <3>1. Begins(Out(c), Out(w.connector))
      BY <1>g, <2>7, HeardIn, BeginsSelf
    <3>2. w.connector.fd # "closed" /\ c.status \notin {"Connected", "Closing"}
      BY <1>f, <2>3
    <3> QED
      BY <2>3, <2>7, <3>1, <3>2 DEF Quiet
  <2>9. Delivered(asked, m)
    BY <1>f, <1>g, <2>5, <2>8, QuietSame, DeliveredKept
  <2>10. a \in Seq(Unit) /\ Len(a) = 2 /\ a \o b = w.clientBuffer
    <3>1. 2 \in 0 .. Len(w.clientBuffer)
      BY <1>g, <1>4
    <3> QED
      BY <1>g, <2>1, <3>1, Splits, Zenon
  <2>11. PICK y : y = b \o w.acceptor.inbox
    BY Zenon
  <2>12. y \in Seq(Unit) /\ a \o y = Left(2, n)
    <3>1. (a \o b) \o w.acceptor.inbox = a \o (b \o w.acceptor.inbox)
      <4>1. Reassoc(a, b, w.acceptor.inbox)
        BY <1>g, <2>b, <2>10, CatAssoc
      <4> QED
        BY <4>1, Zenon DEF Reassoc
    <3> QED
      BY <1>f, <1>g, <2>b, <2>10, <2>11, <3>1, Cat DEF Unread
  <2>13. n \in 4 .. 7 /\ y = Left(4, n)
    <3>1. 2 \in {0, 2} /\ 2 + 2 = 4
      OBVIOUS
    <3>2. 4 <= n /\ y = Left(4, n)
      BY <1>f, <2>10, <2>12, <3>1, LeftRest, Zenon
    <3> QED
      BY <1>f, <3>2
  <2>14. PICK failed : failed = IF result \in {"failed", "refused"} THEN Fail(asked, TRUE)
                                ELSE asked
    OBVIOUS
  <2>15. r = IF result \in {"refused", "noRequest"} THEN Fail(failed, TRUE)
             ELSE [failed EXCEPT !.state = "Connecting"]
    BY <1>1, <1>4, <2>0, <2>5, <2>14 DEF ProcessRequest, OnConnectFailed
  <2>16. CASE result \in {"failed", "refused"}
    <3>0. asked.connector.fd = "none" /\ c.status = "Closed" /\ failed = Fail(asked, TRUE)
      BY <2>3, <2>5, <2>14, <2>16
    <3>1. /\ ProxyData(failed, n, m) /\ Linked(failed, o) /\ failed.connector.fd = "none"
          /\ failed.connector.status = "Closed"
          /\ Hears(w.acceptor, failed.acceptor) /\ Quiet(c, failed.connector)
          /\ failed.clientBuffer = b /\ failed.connectorBuffer = << >>
      <4>1. /\ ProxyData(failed, n, m) /\ Linked(failed, o) /\ failed.connector.fd = "none"
            /\ failed.connector.status = asked.connector.status
            /\ Hears(asked.acceptor, failed.acceptor)
            /\ Quiet(asked.connector, failed.connector)
            /\ failed.clientBuffer = asked.clientBuffer
            /\ failed.connectorBuffer = asked.connectorBuffer
        BY <1>f, <2>6, <2>9, <3>0, FailData, Zenon
      <4> QED
        BY <2>5, <3>0, <4>1
    <3>2. Delivered(failed, m)
      BY <3>1 DEF ProxyData
    <3>3. CASE result = "refused"
      <4>1. r = Fail(failed, TRUE)
        BY <2>15, <3>3
      <4> QED
        BY <1>1, <1>f, <3>1, <3>2, <4>1, FailData, Zenon
    <3>4. CASE result = "failed"
      <4>1. r = [failed EXCEPT !.state = "Connecting"]
        BY <2>15, <3>4
      <4>2. /\ r.state = "Connecting" /\ r.connector = failed.connector
            /\ r.acceptor = failed.acceptor /\ r.clientBuffer = b /\ r.connectorBuffer = << >>
        BY <3>1, <4>1, StateSet DEF States
      <4>3. Unread(r) = Left(4, n)
        BY <2>11, <2>13, <3>1, <4>2, Zenon DEF Unread, Hears
      <4>4. Out(r.connector) = << >> /\ r.connector.status = "Closed"
        BY <2>7, <3>1, <4>2 DEF Quiet
      <4>5. Delivered(r, m)
        BY <3>2, <4>2 DEF Delivered
      <4> QED
        BY <1>1, <2>13, <4>2, <4>3, <4>4, <4>5, AskedData
    <3> QED
      BY <2>16, <3>3, <3>4
  <2>17. CASE result = "noRequest"
    <3>1. r = Fail(asked, TRUE) /\ asked.connector.fd = "none"
      BY <2>3, <2>5, <2>14, <2>15, <2>17
    <3> QED
      BY <1>1, <1>f, <2>6, <2>9, <3>1, FailData, Zenon
  <2>18. CASE result \in {"lookup", "inProgress"}
    <3>1. r = [asked EXCEPT !.state = "Connecting"] /\ c.status = "Connecting"
      BY <2>3, <2>14, <2>15, <2>18
    <3>2. /\ r.state = "Connecting" /\ r.connector = c /\ r.acceptor = w.acceptor
          /\ r.clientBuffer = b /\ r.connectorBuffer = << >>
      BY <2>5, <2>6, <3>1, StateSet DEF States
    <3>3. Unread(r) = Left(4, n)
      BY <2>11, <2>13, <3>2 DEF Unread
    <3>4. Delivered(r, m)
      BY <2>5, <2>9, <3>2 DEF Delivered
    <3> QED
      BY <1>1, <2>7, <2>13, <3>1, <3>2, <3>3, <3>4, AskedData, Zenon
  <2> QED
    BY <2>16, <2>17, <2>18 DEF ConnectResults
<1> QED
  BY <1>2, <1>3, <1>4, <1>g

(* The target is sent what was next for it.                                *)
LEMMA UpPassed ==
    ASSUME NEW c, SockOK(c), IsOpen(c), NEW data \in Seq(Unit), NEW tail \in Seq(Unit),
           NEW n \in 0 .. 7, 4 <= n, NEW lossy \in BOOLEAN,
           Runs(Out(c) \o (data \o tail), Left(4, n), lossy),
           NEW s, Passes(c, s, data)
    PROVE  /\ s.fd # "closed" => Runs(Out(s) \o tail, Left(4, n), lossy)
           /\ Begins(Out(s), Left(4, 7))
<1>1. PICK x, y : x = Left(4, n) /\ y = Left(4, 7)
  OBVIOUS
<1>2. x \in Seq(Unit) /\ y \in Seq(Unit) /\ Begins(x, y)
  <2>1. 4 \in 0 .. 7 /\ 7 \in 0 .. 7 /\ 4 <= 7
    OBVIOUS
  <2> QED
    BY <1>1, <2>1, Units, LeftBegins, Zenon
<1>3. Out(c) \in Seq(Unit) /\ Out(s) \in Seq(Unit)
  BY HeardIn DEF Passes
<1>4. (Out(c) \o data) \o tail = Out(c) \o (data \o tail) /\ Out(c) \o data \in Seq(Unit)
  BY <1>3, Cat
<1>5. s.fd # "closed" => Runs(Out(s) \o tail, Left(4, n), lossy)
  <2> SUFFICES ASSUME s.fd # "closed" PROVE Runs(Out(s) \o tail, Left(4, n), lossy)
    OBVIOUS
  <2>1. Out(s) = Out(c) \o data
    BY DEF Passes, IsOpen
  <2> QED
    BY <1>4, <2>1, Zenon
<1>6. Begins(Out(s), y)
  <2>1. PICK d : d = Out(c) \o data
    OBVIOUS
  <2>2. d \in Seq(Unit) /\ Begins(Out(s), d) /\ Begins(d \o tail, x)
    BY <1>1, <1>4, <2>1 DEF Passes, Runs
  <2>3. d \o tail \in Seq(Unit) /\ Begins(d, d \o tail)
    BY <2>2, Cat, BeginsMore
  <2>4. Begins(d, x)
    BY <1>2, <2>2, <2>3, BeginsTrans
  <2>5. Begins(d, y)
    BY <1>2, <2>2, <2>4, BeginsTrans
  <2> QED
    BY <1>3, <2>2, <2>5, BeginsTrans
<1> QED
  BY <1>1, <1>5, <1>6

LEMMA DeliveredOn ==
    ASSUME NEW w, NEW r, NEW m, SockOK(w.acceptor), SockOK(w.connector), Delivered(w, m),
           Hears(w.acceptor, r.acceptor), Begins(Out(r.connector), Left(4, 7)),
           r.connector.inbox = w.connector.inbox, r.connector.reset = w.connector.reset
    PROVE  Delivered(r, m)
<1>1. Begins(Heard(r.acceptor), TargetScript)
  BY HeardIn, BeginsTrans, Units DEF Delivered, Hears
<1>2. r.acceptor.status = "Connected" =>
         w.acceptor.status = "Connected" /\ Heard(r.acceptor) = Heard(w.acceptor)
  BY DEF Hears, SockOK
<1> QED
  BY <1>1, <1>2 DEF Delivered

LEMMA ForwardData ==
    ASSUME NEW w, NEW o, ProxyOK(w, o), w.state \in {"Connecting", "Connected"},
           NEW n, NEW m, ProxyData(w, n, m), Emptied(w)
    PROVE  ProxyData(ForwardToConnector(w), n, m) /\ Emptied(ForwardToConnector(w))
<1>1. PICK r : r = ForwardToConnector(w)
  OBVIOUS
<1>f. /\ Linked(w, o) /\ n \in 0 .. 7 /\ 4 <= n /\ Delivered(w, m)
      /\ w.connector.fd # "closed" =>
            Runs(Out(w.connector) \o Coming(w), Left(4, n), w.acceptor.reset)
      /\ w.connector.status \in {"Connected", "Closing"} => w.state = "Connected"
  BY DEF ProxyOK, ProxyData, ProxyUp
<1>g. /\ SockOK(w.connector) /\ SockOK(w.acceptor) /\ w.clientBuffer \in Seq(Unit)
      /\ w.connectorBuffer \in Seq(Unit) /\ w.acceptor.inbox \in Seq(Unit)
      /\ w.acceptor.reset \in BOOLEAN /\ << >> \in Seq(Unit)
  BY <1>f, ProxyFields, Fields, Cat
<1>2. PICK in : in = w.acceptor.inbox
  OBVIOUS
<1>3. CASE w.connector.status = "Connected" /\ w.state = "Connected"
  <2>1. PICK v : v = SendOn(w, "connector", w.clientBuffer)
    OBVIOUS
  <2>2. PICK s : s = Send(w.connector, w.clientBuffer)
    OBVIOUS
  <2>3. Op(w.connector, s) /\ Passes(w.connector, s, w.clientBuffer)
    BY <1>3, <1>g, <2>2, SendOp, SendPasses
  <2>4. v = With(w, "connector", s)
    BY <1>f, <2>1, <2>2, ProxyFields DEF SendOn
  <2>5. Linked(v, o) /\ Rests(w, v) /\ v.connector = s /\ Beside(w.acceptor, v.acceptor)
    BY <1>f, <2>3, <2>4, OnConnector
  <2>6. r = ClientHas(v, << >>)
    BY <1>1, <1>3, <2>1 DEF ForwardToConnector, ClientHas
  <2>7. /\ r.acceptor = v.acceptor /\ r.connector = s /\ r.state = "Connected"
        /\ r.clientBuffer = << >> /\ r.connectorBuffer = w.connectorBuffer
    <3>1. /\ r.acceptor = v.acceptor /\ r.connector = v.connector /\ r.state = v.state
          /\ r.clientBuffer = << >> /\ r.connectorBuffer = v.connectorBuffer
      <4>1. PICK e \in Seq(Unit) : e = << >>
        BY <1>g
      <4>2. r = ClientHas(v, e)
        BY <2>6, <4>1
      <4>3. /\ r.acceptor = v.acceptor /\ r.connector = v.connector /\ r.state = v.state
            /\ r.clientBuffer = e /\ r.connectorBuffer = v.connectorBuffer
        BY <2>5, <4>2, ProxyBuffers
      <4> QED
        BY <4>1, <4>3
    <3> QED
      BY <1>3, <2>5, <3>1 DEF Rests
  <2>8. w.connectorBuffer = << >> /\ IsOpen(w.connector)
    BY <1>3, <1>g, Fields DEF Emptied, SockOK, IsOpen
  <2>9. Hears(w.acceptor, r.acceptor)
    BY <1>g, <2>5, <2>7, QuietBeside, QuietHears
  <2>10. Coming(w) = w.clientBuffer \o in /\ Coming(r) = in /\ r.acceptor.reset = w.acceptor.reset
    <3>1. << >> \o (w.clientBuffer \o in) = w.clientBuffer \o in /\ << >> \o (<< >> \o in) = in
      BY <1>g, <1>2, Cat
    <3> QED
      BY <1>2, <2>7, <2>8, <2>9, <3>1 DEF Coming, Unread, Hears
  <2>11. Runs(Out(w.connector) \o (w.clientBuffer \o in), Left(4, n), w.acceptor.reset)
    BY <1>f, <2>8, <2>10 DEF IsOpen
  <2>12. /\ s.fd # "closed" => Runs(Out(s) \o in, Left(4, n), w.acceptor.reset)
         /\ Begins(Out(s), Left(4, 7))
    BY <1>f, <1>g, <1>2, <2>3, <2>8, <2>11, UpPassed
  <2>13. Delivered(r, m)
    BY <1>f, <1>g, <2>3, <2>7, <2>9, <2>12, DeliveredOn DEF Passes
  <2>14. ProxyUp(r, n) /\ Emptied(r)
    BY <1>f, <2>7, <2>8, <2>10, <2>12 DEF ProxyUp, Emptied
  <2> QED
    BY <1>1, <2>13, <2>14 DEF ProxyData
<1>4. CASE ~(w.connector.status = "Connected" /\ w.state = "Connected")
  <2>1. PICK b \in Seq(Unit) : b = w.connectorBuffer \o w.clientBuffer
    BY <1>g, Cat
  <2>2. PICK v : v = ConnectorHas(w, b)
    OBVIOUS
  <2>3. /\ Linked(v, o) /\ v.state = w.state /\ v.connector = w.connector
        /\ v.acceptor = w.acceptor /\ v.connectorBuffer = b
    BY <1>f, <2>2, ProxyBuffers
  <2>4. r = ClientHas(v, << >>)
    BY <1>1, <1>4, <1>f, <2>1, <2>2
       DEF ForwardToConnector, Linked, ProxyObjs, ClientHas, ConnectorHas
  <2>5. /\ r.state = v.state /\ r.connector = v.connector /\ r.acceptor = v.acceptor
        /\ r.clientBuffer = << >> /\ r.connectorBuffer = v.connectorBuffer
    <3>1. PICK e \in Seq(Unit) : e = << >>
      BY <1>g, Zenon
    <3>2. r = ClientHas(v, e)
      BY <2>4, <3>1
    <3>3. /\ r.state = v.state /\ r.connector = v.connector /\ r.acceptor = v.acceptor
          /\ r.clientBuffer = e /\ r.connectorBuffer = v.connectorBuffer
      BY <2>3, <3>2, ProxyBuffers, ZenonT(40)
    <3> QED
      BY <3>1, <3>3
  <2>6. Coming(r) = Coming(w)
    <3>1. Coming(r) = (w.connectorBuffer \o w.clientBuffer) \o (<< >> \o in)
      BY <1>2, <2>1, <2>3, <2>5 DEF Coming, Unread
    <3>2. << >> \o in = in
      BY <1>g, <1>2, CatNone
    <3>3. (w.connectorBuffer \o w.clientBuffer) \o in = w.connectorBuffer \o (w.clientBuffer \o in)
      <4>1. Reassoc(w.connectorBuffer, w.clientBuffer, in)
        BY <1>g, <1>2, CatAssoc
      <4> QED
        BY <4>1, Zenon DEF Reassoc
    <3>4. Coming(w) = w.connectorBuffer \o (w.clientBuffer \o in)
      BY <1>2 DEF Coming, Unread
    <3> QED
      BY <3>1, <3>2, <3>3, <3>4, Zenon
  <2>7. Delivered(r, m)
    BY <1>f, <2>3, <2>5 DEF Delivered
  <2>8. ProxyUp(r, n) /\ Emptied(r)
    BY <1>4, <1>f, <2>3, <2>5, <2>6 DEF ProxyUp, Emptied
  <2> QED
    BY <1>1, <2>7, <2>8 DEF ProxyData
<1> QED
  BY <1>3, <1>4

LEMMA TurnData ==
    ASSUME NEW w, NEW o, ProxyOK(w, o), Fresh(w), NEW result \in ConnectResults,
           NEW n, NEW m, ProxyData(w, n, m), Emptied(w)
    PROVE  ProxyData(Turn(w, result), n, m) /\ Emptied(Turn(w, result))
<1>1. CASE w.clientBuffer # << >> /\ w.state = "Greeting"
  <2>1. Turn(w, result) = ProcessGreeting(w)
    BY <1>1 DEF Turn
  <2> QED
    BY <1>1, <2>1, GreetingData
<1>2. CASE w.clientBuffer # << >> /\ w.state = "Request"
  <2>1. Turn(w, result) = ProcessRequest(w, result)
    BY <1>2 DEF Turn
  <2> QED
    BY <1>2, <2>1, RequestData
<1>3. CASE w.clientBuffer # << >> /\ w.state \in {"Connecting", "Connected"}
  <2>1. Turn(w, result) = ForwardToConnector(w)
    BY <1>3 DEF Turn
  <2> QED
    BY <1>3, <2>1, ForwardData
<1>4. CASE w.clientBuffer = << >> \/ w.state \notin {"Greeting", "Request", "Connecting", "Connected"}
  <2>1. Turn(w, result) = w
    BY <1>4 DEF Turn
  <2> QED
    BY <2>1
<1> QED
  BY <1>1, <1>2, <1>3, <1>4

LEMMA CatThree ==
    ASSUME NEW u \in Seq(Unit), NEW v \in Seq(Unit), NEW x \in Seq(Unit)
    PROVE  (u \o v) \o x = u \o (v \o x) /\ u \o v \in Seq(Unit)
<1>1. (u \o v) \o x = u \o (v \o x)
  BY CatAssoc, Zenon DEF Reassoc
<1> QED
  BY <1>1, CatIn, Zenon

(* The client is sent what was next for it.                                *)
LEMMA DownPassed ==
    ASSUME NEW a, SockOK(a), NEW data \in Seq(Unit), NEW tail \in Seq(Unit),
           NEW whole \in Seq(Unit), NEW lossy \in BOOLEAN,
           Runs(Heard(a) \o (DataIn(data) \o tail), whole, lossy),
           NEW s, Passes(a, s, data)
    PROVE  /\ IsOpen(s) => Runs(Heard(s) \o tail, whole, lossy)
           /\ Begins(Heard(s), whole)
<1>1. PICK d, e, h : d = DataIn(data) /\ e = Heard(a) /\ h = e \o d
  BY Zenon
<1>2. /\ e \in Seq(Unit) /\ Out(a) \in Seq(Unit) /\ Out(s) \in Seq(Unit)
      /\ d \in Seq(Unit) /\ Heard(s) \in Seq(Unit)
  BY <1>1, HeardIn, DataTyped DEF Passes
<1>3. h \o tail = Heard(a) \o (d \o tail) /\ h \in Seq(Unit)
  <2>1. (e \o d) \o tail = e \o (d \o tail) /\ e \o d \in Seq(Unit)
    <3>1. e \in Seq(Unit) /\ d \in Seq(Unit) /\ tail \in Seq(Unit)
      BY <1>2
    <3> QED
      <4>1. Reassoc(e, d, tail)
        BY <3>1, CatAssoc, Zenon
      <4>2. e \o d \in Seq(Unit)
        BY <3>1, CatIn, Zenon
      <4> QED
        BY <4>1, <4>2, Zenon DEF Reassoc
  <2> QED
    BY <1>1, <2>1
<1>4. DataIn(Out(a) \o data) = h /\ Out(a) \o data \in Seq(Unit)
  BY <1>1, <1>2, DataCat, Cat, Zenon DEF Heard
<1>5. IsOpen(s) => Runs(Heard(s) \o tail, whole, lossy)
  <2> SUFFICES ASSUME IsOpen(s) PROVE Runs(Heard(s) \o tail, whole, lossy)
    OBVIOUS
  <2>1. Heard(s) = h
    BY <1>4 DEF Passes, Heard
  <2> QED
    BY <1>1, <1>3, <2>1
<1>6. Begins(Heard(s), h)
  BY <1>2, <1>4, BeginsData, Zenon DEF Passes, Heard
<1>7. Begins(h \o tail, whole) /\ h \o tail \in Seq(Unit)
  BY <1>1, <1>3, Cat DEF Runs
<1>8. Begins(h, whole)
  BY <1>3, <1>7, BeginsMore, BeginsTrans, Zenon
<1>9. Begins(Heard(s), whole)
  BY <1>2, <1>3, <1>6, <1>8, BeginsTrans
<1> QED
  BY <1>5, <1>9

(* What is read goes to clientBuffer, and from there as far as it can.     *)
LEMMA DataHeard ==
    ASSUME NEW w, NEW o, ProxyOK(w, o), NEW n, NEW m, ProxyData(w, n, m), Emptied(w),
           MayRead(w.acceptor), NEW k \in 1 .. Len(w.acceptor.inbox),
           NEW result \in ConnectResults,
           NEW v, ProxyOK(v, o), Rests(w, v), v.connector = w.connector,
           v.acceptor = Read(w.acceptor, k)
    PROVE  LET r == OnAcceptorReceiveData(v, SubSeq(w.acceptor.inbox, 1, k), result)
           IN  ProxyData(r, n, m) /\ Emptied(r)
<1>1. PICK s, data, t : /\ s = Read(w.acceptor, k) /\ data = SubSeq(w.acceptor.inbox, 1, k)
                        /\ t = Rest(w.acceptor.inbox, k)
  OBVIOUS
<1>f. Linked(w, o) /\ SockOK(w.acceptor) /\ w.clientBuffer \in Seq(Unit)
  BY ProxyFields DEF ProxyOK
<1>2. /\ Beneath(w.acceptor, s) /\ s.inbox = t /\ s.reset = w.acceptor.reset
      /\ data \in Seq(Unit) /\ t \in Seq(Unit) /\ data \o t = w.acceptor.inbox
      /\ IsOpen(w.acceptor) /\ ~w.acceptor.reset
  BY <1>f, <1>1, ReadOp, Zenon
<1>3. ProxyOK(v, o) /\ v.acceptor = s /\ v.connector = w.connector /\ Rests(w, v)
  BY <1>1
<1>4. PICK b \in Seq(Unit) : b = v.clientBuffer \o data
  BY <1>f, <1>2, <1>3, Cat DEF Rests
<1>5. PICK u : u = ClientHas(v, b)
  OBVIOUS
<1>l. Linked(v, o)
  BY <1>3 DEF ProxyOK
<1>6. /\ Linked(u, o) /\ u.state = v.state /\ u.acceptor = v.acceptor
      /\ u.connector = v.connector /\ u.clientBuffer = b
      /\ u.connectorBuffer = v.connectorBuffer
  BY <1>l, <1>4, <1>5, ProxyBuffers, Zenon
<1>7. ProxyOK(u, o) /\ Fresh(u)
  BY <1>2, <1>3, <1>6 DEF ProxyOK, ProxyPhase, Fresh, Unasked, NonePaused, Beneath, IsOpen
<1>8. Unread(u) = Unread(w)
  <2>0. PICK p : p = w.clientBuffer
    OBVIOUS
  <2>1. (p \o data) \o t = p \o (data \o t)
    <3>1. Reassoc(p, data, t)
      BY <1>f, <1>2, <2>0, CatAssoc
    <3> QED
      BY <3>1, Zenon DEF Reassoc
  <2> QED
    BY <1>2, <1>3, <1>4, <1>6, <2>0, <2>1, Zenon DEF Unread, Rests
<1>9. Heard(u.acceptor) = Heard(w.acceptor) /\ u.acceptor.status = w.acceptor.status
  BY <1>2, <1>3, <1>6 DEF Heard, Out, Queued, Beneath
<1>10. /\ u.connector = w.connector /\ u.state = w.state
       /\ u.connectorBuffer = w.connectorBuffer /\ u.acceptor.reset = w.acceptor.reset
  BY <1>2, <1>3, <1>6 DEF Rests
<1>11. ProxyData(u, n, m) /\ Emptied(u)
  <2>1. Coming(u) = Coming(w)
    BY <1>8, <1>10 DEF Coming
  <2>2. ProxyUp(u, n)
    BY <1>8, <1>10, <2>1 DEF ProxyData, ProxyUp
  <2>3. Delivered(u, m)
    BY <1>9, <1>10 DEF ProxyData, Delivered
  <2> QED
    BY <1>10, <2>2, <2>3 DEF ProxyData, Emptied
<1>12. PICK x : x = Turn(u, result)
  OBVIOUS
<1>13. ProxyOK(x, o) /\ Fresh(x) /\ ProxyData(x, n, m) /\ Emptied(x)
  BY <1>7, <1>11, <1>12, TurnOK, TurnData
<1>14. PICK y : y = Turn(x, result)
  OBVIOUS
<1>15. ProxyOK(y, o) /\ Fresh(y) /\ ProxyData(y, n, m) /\ Emptied(y)
  BY <1>13, <1>14, TurnOK, TurnData
<1>16. ProxyData(Turn(y, result), n, m) /\ Emptied(Turn(y, result))
  BY <1>15, TurnData
<1>17. OnAcceptorReceiveData(v, data, result) = Turn(y, result)
  BY <1>4, <1>5, <1>12, <1>14 DEF OnAcceptorReceiveData, ClientHas
<1> QED
  BY <1>1, <1>16, <1>17

LEMMA ConnectorDataHeard ==
    ASSUME NEW w, NEW o, ProxyOK(w, o), NEW n, NEW m, ProxyData(w, n, m), Emptied(w),
           MayRead(w.connector), NEW k \in 1 .. Len(w.connector.inbox),
           NEW v, ProxyOK(v, o), Rests(w, v), v.acceptor = w.acceptor,
           v.connector = Read(w.connector, k)
    PROVE  LET r == OnConnectorReceiveData(v, SubSeq(w.connector.inbox, 1, k))
           IN  ProxyData(r, n, m) /\ Emptied(r)
<1>1. PICK s, data, t : /\ s = Read(w.connector, k) /\ data = SubSeq(w.connector.inbox, 1, k)
                        /\ t = Rest(w.connector.inbox, k)
  OBVIOUS
<1>f. /\ Linked(w, o) /\ SockOK(w.connector) /\ SockOK(w.acceptor) /\ Delivered(w, m)
      /\ ProxyUp(w, n) /\ m \in 0 .. 2 /\ w.connector.inbox \in Seq(Payload)
      /\ w.acceptor.status # "Connecting"
  BY ProxyFields DEF ProxyOK, ProxyData, Delivered
<1>2. /\ Beneath(w.connector, s) /\ s.inbox = t /\ s.reset = w.connector.reset
      /\ data \in Seq(Unit) /\ t \in Seq(Unit) /\ data \o t = w.connector.inbox
      /\ IsOpen(w.connector) /\ ~w.connector.reset /\ w.connector.status # "Connecting"
  BY <1>f, <1>1, ReadOp
<1>3. ProxyOK(v, o) /\ v.connector = s /\ v.acceptor = w.acceptor /\ Rests(w, v)
  BY <1>1
<1>4. w.state = "Connected"
  <2>1. w.connector.status \in {"Connected", "Closing"}
    BY <1>f, <1>2 DEF SockOK, IsOpen
  <2> QED
    BY <1>f, <2>1 DEF ProxyUp
<1>5. data \in Seq(Payload) /\ t \in Seq(Payload) /\ DataIn(data) = data
  BY <1>f, <1>2, Parts, DataAll, Zenon
<1>6. Out(s) = Out(w.connector) /\ s.fd = w.connector.fd /\ s.status = w.connector.status
  BY <1>2 DEF Out, Queued, Beneath
<1>7. Coming(v) = Coming(w) /\ v.state = w.state /\ v.connectorBuffer = w.connectorBuffer
  BY <1>3 DEF Coming, Unread, Rests
<1>8. ProxyUp(v, n) /\ Emptied(v)
  BY <1>f, <1>3, <1>4, <1>6, <1>7 DEF ProxyUp, Emptied
<1>9. PICK r, q : r = OnConnectorReceiveData(v, data) /\ q = Send(w.acceptor, data)
  OBVIOUS
<1>10. CASE w.acceptor.status = "Connected"
  <2>1. PICK h : h = Had(m)
    OBVIOUS
  <2>2. h \in Seq(Unit) /\ Begins(h, TargetScript) /\ TargetScript \in Seq(Unit)
    BY <1>f, <2>1, HadIs, Units
  <2>3. Runs(Heard(w.acceptor) \o (DataIn(data) \o t), h, w.connector.reset)
    BY <1>f, <1>2, <1>5, <1>10, <2>1 DEF Delivered
  <2>4. Op(w.acceptor, q) /\ Passes(w.acceptor, q, data)
    BY <1>f, <1>2, <1>9, SendOp, SendPasses
  <2>5. /\ IsOpen(q) => Runs(Heard(q) \o t, h, w.connector.reset)
        /\ Begins(Heard(q), h)
    <3>1. w.connector.reset \in BOOLEAN
      BY <1>f, Fields
    <3> QED
      BY <1>f, <1>2, <2>2, <2>3, <2>4, <3>1, DownPassed
  <2>6. r = With(v, "acceptor", q)
    BY <1>3, <1>4, <1>9, <1>10, ProxyFields DEF OnConnectorReceiveData, SendOn, ProxyOK, Rests
  <2>7. Linked(v, o) /\ Op(v.acceptor, q)
    BY <1>3, <2>4 DEF ProxyOK
  <2>8. Rests(v, r) /\ r.acceptor = q /\ Beside(s, r.connector)
    BY <1>3, <2>6, <2>7, OnAcceptor
  <2>9. SockOK(s) /\ Quiet(s, r.connector)
    BY <1>2, <2>8, QuietBeside DEF Beneath
  <2>10. Begins(Heard(q), TargetScript)
    BY <2>2, <2>4, <2>5, HeardIn, BeginsTrans DEF Passes
  <2>11. Begins(Out(r.connector), Left(4, 7))
    <3>1. Begins(Out(s), Left(4, 7)) /\ Out(s) \in Seq(Unit) /\ Out(r.connector) \in Seq(Unit)
      BY <1>f, <1>6, <2>9, HeardIn DEF Delivered, Quiet
    <3> QED
      BY <2>9, <3>1, Units, BeginsTrans DEF Quiet
  <2>12. q.status = "Connected" => IsOpen(q)
    BY <2>4, Fields DEF Passes, SockOK, IsOpen
  <2>13. Delivered(r, m)
    BY <1>f, <1>2, <1>5, <2>1, <2>5, <2>8, <2>9, <2>10, <2>11, <2>12 DEF Delivered, Quiet
  <2>14. Coming(r) = Coming(v) /\ r.acceptor.reset = v.acceptor.reset
    BY <1>3, <2>4, <2>8 DEF Coming, Unread, Rests, Passes
  <2>15. ProxyUp(r, n) /\ Emptied(r)
    <3>1. /\ r.connector.fd # "closed" => s.fd # "closed" /\ Out(r.connector) = Out(s)
          /\ r.connector.status = "Connected" => s.status = "Connected"
      BY <2>9 DEF Quiet
    <3> QED
      BY <1>3, <1>4, <1>8, <2>8, <2>14, <3>1 DEF ProxyUp, Emptied, Rests
  <2> QED
    BY <1>1, <1>9, <2>13, <2>15 DEF ProxyData
<1>11. CASE w.acceptor.status # "Connected"
  <2>1. r = v
    BY <1>3, <1>9, <1>11 DEF OnConnectorReceiveData
  <2>2. Delivered(v, m)
    BY <1>f, <1>2, <1>3, <1>5, <1>6, <1>11 DEF Delivered
  <2> QED
    BY <1>1, <1>8, <1>9, <2>1, <2>2 DEF ProxyData
<1> QED
  BY <1>10, <1>11

LEMMA ConnectedData ==
    ASSUME NEW w, NEW o, ProxyOK(w, o), InHandshake(w.connector),
           NEW n, NEW m, ProxyData(w, n, m)
    PROVE  LET r == OnConnected([w EXCEPT !.connector.status = "Connected"], FALSE)
           IN  ProxyData(r, n, m) /\ Emptied(r)
<1>f. /\ Linked(w, o) /\ ProxyPhase(w) /\ SockOK(w.connector) /\ SockOK(w.acceptor)
      /\ IsOpen(w.connector) /\ w.connector.status = "Connecting" /\ ~w.connector.reset
      /\ n \in 0 .. 7 /\ Delivered(w, m) /\ w.state \in States
      /\ w.connectorBuffer \in Seq(Unit) /\ w.clientBuffer \in Seq(Unit)
  BY ProxyFields DEF ProxyOK, InHandshake, ProxyData, ProxyUp
<1>g. w.state \in {"Connecting", "Connected"}
  BY <1>f DEF ProxyPhase, Unasked, IsOpen, States
<1>h. 4 <= n /\ Runs(Out(w.connector) \o Coming(w), Left(4, n), w.acceptor.reset)
  BY <1>f, <1>g DEF ProxyData, ProxyUp, IsOpen
<1>1. PICK c : c = [w.connector EXCEPT !.status = "Connected"]
  OBVIOUS
<1>2. /\ c \in Socket /\ c.status = "Connected" /\ c.fd = w.connector.fd
      /\ c.writeQueue = w.connector.writeQueue /\ c.readPaused = w.connector.readPaused
      /\ c.shut = w.connector.shut /\ c.pendingClose = w.connector.pendingClose
      /\ c.room = w.connector.room /\ c.reset = w.connector.reset
      /\ c.got = w.connector.got /\ c.inbox = w.connector.inbox
  BY <1>f, <1>1, Zenon DEF SockOK, Socket, Statuses
<1>3. SockOK(c) /\ Out(c) = Out(w.connector)
  BY <1>f, <1>2 DEF SockOK, IsOpen, Untouched, Full, Out, Queued
<1>4. PICK v : v = [w EXCEPT !.connector = c]
  BY Zenon
<1>5. /\ v \in ProxyObjs /\ v.acceptor = w.acceptor /\ v.connector = c /\ Rests(w, v)
      /\ v = [w EXCEPT !.connector.status = "Connected"]
  BY <1>f, <1>1, <1>2, <1>4 DEF Linked, ProxyObjs, Rests
<1>6. Couple(v.acceptor, v.connector, o)
  BY <1>f, <1>2, <1>3, <1>5 DEF Linked, Couple, PausePair, EndPair, Failing, IsOpen, Full
<1>7. Linked(v, o)
  BY <1>f, <1>5, <1>6 DEF Linked
<1>8. PICK x : x = [v EXCEPT !.state = "Connected"]
  OBVIOUS
<1>s. "Connected" \in States
  BY DEF States
<1>9. /\ Linked(x, o) /\ x.state = "Connected" /\ x.connector = c /\ x.acceptor = w.acceptor
      /\ x.clientBuffer = w.clientBuffer /\ x.connectorBuffer = w.connectorBuffer
  <2>1. /\ Linked(x, o) /\ x.state = "Connected" /\ x.connector = v.connector
        /\ x.acceptor = v.acceptor /\ x.clientBuffer = v.clientBuffer
        /\ x.connectorBuffer = v.connectorBuffer
    BY <1>s, <1>7, <1>8, StateSet
  <2> QED
    BY <1>5, <2>1 DEF Rests
<1>10. PICK u : u = "success"
  OBVIOUS
<1>11. PICK y : y = SendOn(x, "acceptor", <<u>>)
  OBVIOUS
<1>12. /\ Linked(y, o) /\ Rests(x, y) /\ Hears(w.acceptor, y.acceptor)
       /\ Quiet(c, y.connector) /\ Beside(c, y.connector)
  <2>1. u \in Unit \ Payload
    BY <1>10, Replies
  <2>2. /\ Linked(y, o) /\ Rests(x, y) /\ Hears(x.acceptor, y.acceptor)
        /\ Quiet(x.connector, y.connector) /\ Beside(x.connector, y.connector)
    BY <1>9, <1>11, <2>1, AnswerHeard
  <2> QED
    BY <1>9, <2>2
<1>13. PICK buf, t, z : /\ buf = y.connectorBuffer /\ t = Send(y.connector, buf)
                        /\ z = SendOn(y, "connector", buf)
  OBVIOUS
<1>14. /\ IsOpen(y.connector) => y.connector.status # "Connecting"
       /\ y.connector.fd # "none" /\ buf = w.connectorBuffer /\ buf \in Seq(Unit)
       /\ SockOK(y.connector) /\ SockOK(y.acceptor)
  BY <1>f, <1>2, <1>9, <1>12, <1>13, ProxyFields DEF Beside, IsOpen, Rests
<1>15. Op(y.connector, t) /\ Passes(y.connector, t, buf)
  BY <1>13, <1>14, SendOp, SendPasses
<1>16. z = With(y, "connector", t)
  BY <1>12, <1>13, ProxyFields DEF SendOn
<1>17. Linked(z, o) /\ Rests(y, z) /\ z.connector = t /\ Beside(y.acceptor, z.acceptor)
  BY <1>12, <1>15, <1>16, OnConnector
<1>18. PICK r : r = ConnectorHas(z, << >>)
  OBVIOUS
<1>19. << >> \in Seq(Unit)
  OBVIOUS
<1>20. /\ r.state = "Connected" /\ r.connector = t /\ r.acceptor = z.acceptor
       /\ r.clientBuffer = w.clientBuffer /\ r.connectorBuffer = << >>
  <2>1. /\ r.state = z.state /\ r.connector = z.connector /\ r.acceptor = z.acceptor
        /\ r.clientBuffer = z.clientBuffer /\ r.connectorBuffer = << >>
    BY <1>17, <1>18, <1>19, ProxyBuffers, Zenon
  <2> QED
    BY <1>9, <1>12, <1>17, <2>1 DEF Rests
<1>21. OnConnected(v, FALSE) = r
  <2>1. v.connectorBuffer = buf
    BY <1>5, <1>14 DEF Rests
  <2> QED
    BY <1>8, <1>10, <1>11, <1>13, <1>18, <2>1 DEF OnConnected, ConnectorHas
<1>22. Hears(w.acceptor, r.acceptor)
  <2>1. Hears(y.acceptor, z.acceptor)
    BY <1>14, <1>17, QuietBeside, QuietHears
  <2> QED
    BY <1>f, <1>12, <1>20, <2>1, HearsTrans
<1>23. PICK rest : rest = Unread(w)
  OBVIOUS
<1>24. rest \in Seq(Unit) /\ Unread(r) = rest /\ Coming(r) = rest
  <2>1. rest \in Seq(Unit)
    BY <1>f, <1>23, Fields, Cat DEF Unread
  <2>2. Unread(r) = rest
    BY <1>20, <1>22, <1>23 DEF Unread, Hears
  <2>3. << >> \o rest = rest
    BY <2>1, Cat
  <2> QED
    BY <1>20, <2>1, <2>2, <2>3 DEF Coming
<1>25. /\ t.fd # "closed" => Runs(Out(t) \o rest, Left(4, n), w.acceptor.reset)
       /\ Begins(Out(t), Left(4, 7))
  <2>1. CASE IsOpen(y.connector)
    <3>1. Out(y.connector) = Out(w.connector)
      BY <1>3, <1>12, <2>1 DEF Quiet, IsOpen
    <3>2. Runs(Out(y.connector) \o (buf \o rest), Left(4, n), w.acceptor.reset)
      BY <1>h, <1>14, <1>23, <3>1 DEF Coming
    <3>3. w.acceptor.reset \in BOOLEAN
      BY <1>f, Fields
    <3> QED
      BY <1>f, <1>h, <1>14, <1>15, <1>24, <2>1, <3>2, <3>3, UpPassed
  <2>2. CASE ~IsOpen(y.connector)
    <3>1. t = y.connector /\ t.fd = "closed"
      BY <1>14, <1>15, <2>2, Fields DEF Passes, IsOpen
    <3>2. Begins(Out(t), Out(c)) /\ Begins(Out(c), Left(4, 7))
      BY <1>f, <1>3, <1>12, <3>1 DEF Quiet, Delivered
    <3>3. Out(t) \in Seq(Unit) /\ Out(c) \in Seq(Unit) /\ Left(4, 7) \in Seq(Unit)
      BY <1>3, <1>14, <3>1, HeardIn, Units
    <3> QED
      BY <3>1, <3>2, <3>3, BeginsTrans
  <2> QED
    BY <2>1, <2>2
<1>26. t.inbox = w.connector.inbox /\ t.reset = w.connector.reset
  BY <1>2, <1>12, <1>15 DEF Quiet, Passes
<1>27. Delivered(r, m)
  BY <1>f, <1>20, <1>22, <1>25, <1>26, DeliveredOn
<1>28. ProxyUp(r, n) /\ Emptied(r)
  BY <1>f, <1>h, <1>20, <1>22, <1>24, <1>25 DEF ProxyUp, Emptied, Hears
<1> QED
  BY <1>5, <1>21, <1>27, <1>28 DEF ProxyData

LEMMA LookupData ==
    ASSUME NEW w, NEW o, ProxyOK(w, o), LookingUp(w), w.acceptor.fd = "closed" => o,
           NEW n, NEW m, ProxyData(w, n, m)
    PROVE  /\ LET r == [w EXCEPT !.connector.fd = "open"]
              IN  ProxyData(r, n, m) /\ Emptied(r)
           /\ LET r == OnConnectFailed([w EXCEPT !.connector.status = "Closed"])
              IN  ProxyData(r, n, m) /\ Emptied(r)
<1>f. /\ Linked(w, o) /\ ProxyPhase(w) /\ SockOK(w.connector) /\ SockOK(w.acceptor)
      /\ w.connector.fd = "none" /\ w.connector.status = "Connecting"
      /\ w.state = "Connecting" /\ Untouched(w.connector) /\ ~w.connector.reset
      /\ n \in 0 .. 7 /\ Delivered(w, m)
  <2>1. Linked(w, o) /\ ProxyPhase(w) /\ InLookup(w.connector) /\ w.state # "Error"
    BY DEF ProxyOK, LookingUp
  <2>2. w.connector.fd = "none" /\ w.connector.status = "Connecting"
    BY <2>1 DEF InLookup
  <2>3. w.state = "Connecting"
    BY <2>1, <2>2, ProxyFields DEF ProxyPhase, Unasked, States
  <2> QED
    BY <2>1, <2>2, <2>3, ProxyFields DEF SockOK, ProxyData, ProxyUp
<1>p. w.acceptor.readPaused = FALSE /\ w.connector.readPaused = FALSE
  BY <1>f, Fields DEF ProxyPhase, NonePaused, InLookup
<1>1. ASSUME NEW c \in Socket, NEW r \in ProxyObjs,
             c.status \in {"Connecting", "Closed"}, c.fd \in {"none", "open"},
             c.fd = "open" => c.status = "Connecting",
             c.writeQueue = w.connector.writeQueue, c.readPaused = w.connector.readPaused,
             c.shut = w.connector.shut, c.pendingClose = w.connector.pendingClose,
             c.room = w.connector.room, c.reset = w.connector.reset,
             c.inbox = w.connector.inbox, c.fin = w.connector.fin, c.got = w.connector.got,
             r.acceptor = w.acceptor, r.connector = c, Rests(w, r)
      PROVE  Linked(r, o) /\ ProxyData(r, n, m) /\ Emptied(r)
  <2>1. SockOK(c)
    BY <1>f, <1>1 DEF SockOK, Untouched, Full
  <2>2. Couple(w.acceptor, c, o)
    BY <1>f, <1>p, <1>1, <2>1 DEF Couple, PausePair, EndPair, IsOpen
  <2>3. Linked(r, o)
    BY <1>f, <1>1, <2>2 DEF Linked
  <2>4. Out(c) = Out(w.connector)
    BY <1>1 DEF Out, Queued
  <2>5. Begins(Out(c), Out(w.connector))
    BY <1>f, <2>4, HeardIn, BeginsSelf
  <2>6. Quiet(w.connector, c)
    BY <1>f, <1>1, <2>1, <2>4, <2>5 DEF Quiet
  <2>7. ProxyData(r, n, m)
    BY <1>f, <1>1, <2>6, QuietSame, ProxyQuiet
  <2> QED
    BY <1>f, <1>1, <2>3, <2>7 DEF Emptied, Rests
<1>2. PICK c : c = [w.connector EXCEPT !.fd = "open"]
  BY Zenon
<1>3. /\ c \in Socket /\ c.status = "Connecting" /\ c.fd = "open"
      /\ c.writeQueue = w.connector.writeQueue /\ c.readPaused = w.connector.readPaused
      /\ c.shut = w.connector.shut /\ c.pendingClose = w.connector.pendingClose
      /\ c.room = w.connector.room /\ c.reset = w.connector.reset
      /\ c.inbox = w.connector.inbox /\ c.fin = w.connector.fin /\ c.got = w.connector.got
  BY <1>f, <1>2, Zenon DEF SockOK, Socket
<1>4. PICK r : r = [w EXCEPT !.connector = c]
  OBVIOUS
<1>5. /\ r \in ProxyObjs /\ r.acceptor = w.acceptor /\ r.connector = c /\ Rests(w, r)
      /\ r = [w EXCEPT !.connector.fd = "open"]
  BY <1>f, <1>2, <1>3, <1>4 DEF Linked, ProxyObjs, Rests
<1>6. ProxyData(r, n, m) /\ Emptied(r)
  BY <1>1, <1>3, <1>5
<1>7. PICK d : d = [w.connector EXCEPT !.status = "Closed"]
  OBVIOUS
<1>8. /\ d \in Socket /\ d.status = "Closed" /\ d.fd = "none"
      /\ d.writeQueue = w.connector.writeQueue /\ d.readPaused = w.connector.readPaused
      /\ d.shut = w.connector.shut /\ d.pendingClose = w.connector.pendingClose
      /\ d.room = w.connector.room /\ d.reset = w.connector.reset
      /\ d.inbox = w.connector.inbox /\ d.fin = w.connector.fin /\ d.got = w.connector.got
  BY <1>f, <1>7 DEF SockOK, Socket, Statuses
<1>9. PICK q : q = [w EXCEPT !.connector = d]
  OBVIOUS
<1>10. /\ q \in ProxyObjs /\ q.acceptor = w.acceptor /\ q.connector = d /\ Rests(w, q)
       /\ q = [w EXCEPT !.connector.status = "Closed"]
  BY <1>f, <1>7, <1>8, <1>9, Zenon DEF Linked, ProxyObjs, Rests
<1>11. Linked(q, o) /\ ProxyData(q, n, m)
  BY <1>1, <1>8, <1>10, Zenon
<1>12. PICK z : z = Fail(q, TRUE)
  BY Zenon
<1>13. ProxyData(z, n, m) /\ Emptied(z)
  BY <1>f, <1>8, <1>10, <1>11, <1>12, FailData, Zenon DEF ProxyData
<1> QED
  BY <1>5, <1>6, <1>10, <1>12, <1>13 DEF OnConnectFailed

LEMMA ProxyEventQuiet ==
    ASSUME NEW w, NEW o, Linked(w, o), NEW n, NEW m, ProxyData(w, n, m), Emptied(w),
           NEW side \in Sides, NEW s, Op(w[side], s), Quiet(w[side], s)
    PROVE  LET r == With(w, side, s) IN ProxyData(r, n, m) /\ Emptied(r)
<1>1. PICK r : r = With(w, side, s)
  OBVIOUS
<1>2. CASE side = "acceptor"
  <2>1. /\ Rests(w, r) /\ r.acceptor = s /\ Beside(w.connector, r.connector)
    BY <1>1, <1>2, ProxyFields, OnAcceptor
  <2>2. Hears(w.acceptor, r.acceptor) /\ Quiet(w.connector, r.connector)
    BY <1>2, <2>1, ProxyFields, QuietHears, QuietBeside
  <2> QED
    BY <1>1, <2>1, <2>2, ProxyQuiet
<1>3. CASE side = "connector"
  <2>1. /\ Rests(w, r) /\ r.connector = s /\ Beside(w.acceptor, r.acceptor)
    BY <1>1, <1>3, ProxyFields, OnConnector
  <2>2. Hears(w.acceptor, r.acceptor) /\ Quiet(w.connector, r.connector)
    BY <1>3, <2>1, ProxyFields, QuietHears, QuietBeside
  <2> QED
    BY <1>1, <2>1, <2>2, ProxyQuiet
<1> QED
  BY <1>2, <1>3, TwoSides

(* These events are a call on one socket, with its callbacks.              *)
LEMMA ProxyEvents ==
    ASSUME ProxyInv(obj, orphan), NEW side \in Sides,
           WritableEvent(side) \/ FinishedEvent(side) \/ FailureEvent(side)
    PROVE  /\ \E s : Op(obj[side], s) /\ Quiet(obj[side], s) /\ Becomes(With(obj, side, s))
           /\ IsOpen(obj[side])
<1>1. SockOK(obj[side]) /\ Linked(obj, orphan) /\ IsProxy
  BY TwoSides, ProxyIs
<1>2. CASE WritableEvent(side)
  <2>1. PICK s, d, w : s = obj[side] /\ d = Drained(obj[side])
                       /\ w = With(obj, side, OnWritable(obj[side]))
    OBVIOUS
  <2>2. Writable(s) /\ Becomes(Resumed(w, side))
    BY <1>1, <1>2, <2>1 DEF WritableEvent, After, Resumed
  <2>3. Op(s, d) /\ Quiet(s, d)
    BY <1>1, <2>1, <2>2, DrainedOp, QuietDrained
  <2>4. PICK r : r = With(obj, side, d)
    OBVIOUS
  <2>5. Resumed(w, side) = r
    <3>1. CASE side = "acceptor"
      BY <1>1, <2>1, <2>2, <2>4, <3>1, ProxyIs, ResumedAcceptor
    <3>2. CASE side = "connector"
      BY <1>1, <2>1, <2>2, <2>4, <3>2, ProxyIs, ResumedConnector
    <3> QED
      BY <3>1, <3>2, TwoSides
  <2> QED
    BY <2>1, <2>2, <2>3, <2>4, <2>5 DEF Writable
<1>3. CASE FinishedEvent(side)
  <2>1. PICK s, r : s = OnFinished(obj[side]) /\ r = With(obj, side, s)
    OBVIOUS
  <2>2. Finished(obj[side]) /\ Becomes(r)
    BY <1>1, <1>3, <2>1 DEF FinishedEvent, After
  <2>3. Op(obj[side], s) /\ Quiet(obj[side], s)
    BY <1>1, <2>1, <2>2, FinishedOp, QuietFinished
  <2> QED
    BY <2>1, <2>2, <2>3 DEF Finished
<1>4. CASE FailureEvent(side)
  <2>1. PICK s, r : s = Close(obj[side], TRUE) /\ r = With(obj, side, s)
    OBVIOUS
  <2>2. Becomes(r) /\ IsOpen(obj[side])
    BY <1>1, <1>4, <2>1, Zenon DEF FailureEvent, After, Failing
  <2>3. Op(obj[side], s) /\ Quiet(obj[side], s)
    BY <1>1, <2>1, CloseOp, QuietClose, Zenon
  <2> QED
    BY <2>1, <2>2, <2>3
<1> QED
  BY <1>2, <1>3, <1>4

LEMMA ProxyEventData ==
    ASSUME ProxyInv(obj, orphan), NEW n, NEW m, ProxyData(obj, n, m), Emptied(obj),
           NEW side \in Sides,
           WritableEvent(side) \/ FinishedEvent(side) \/ FailureEvent(side)
    PROVE  ProxyData(obj', n, m) /\ Emptied(obj')
<1>1. PICK s : Op(obj[side], s) /\ Quiet(obj[side], s) /\ Becomes(With(obj, side, s))
  BY ProxyEvents
<1>2. PICK r : r = With(obj, side, s)
  OBVIOUS
<1>3. ProxyData(r, n, m) /\ Emptied(r)
  BY <1>1, <1>2, ProxyIs, ProxyEventQuiet
<1> QED
  BY <1>1, <1>2, <1>3 DEF Becomes

LEMMA ProxyReadsData ==
    ASSUME ProxyInv(obj, orphan), NEW n, NEW m, ProxyData(obj, n, m), Emptied(obj),
           NEW side \in Sides, ReadChunk(side)
    PROVE  ProxyData(obj', n, m) /\ Emptied(obj')
<1>1. PICK k \in 1 .. Len(obj[side].inbox), result \in ConnectResults :
          Becomes(Received([obj EXCEPT ![side] = Read(@, k)], side,
                           SubSeq(obj[side].inbox, 1, k), result))
  BY DEF ReadChunk
<1>2. MayRead(obj[side])
  BY DEF ReadChunk
<1>3. CASE side = "acceptor"
  <2>1. PICK s : s = Read(obj.acceptor, k)
    OBVIOUS
  <2>2. PICK data : data = SubSeq(obj.acceptor.inbox, 1, k)
    BY Zenon
  <2>3. k \in 1 .. Len(obj.acceptor.inbox) /\ MayRead(obj.acceptor)
    BY <1>1, <1>2, <1>3, ProxyIs
  <2>4. Beneath(obj.acceptor, s)
    BY <2>1, <2>2, <2>3, ProxyIs, ReadOp
  <2>5. PICK v : v = [obj EXCEPT !["acceptor"] = s]
    BY Zenon
  <2>6. ProxyOK(v, orphan) /\ v.acceptor = s /\ v.connector = obj.connector /\ Rests(obj, v)
    BY <2>4, <2>5, ProxyIs, BeneathAcceptor
  <2>8. PICK r : r = OnAcceptorReceiveData(v, data, result)
    OBVIOUS
  <2>9. ProxyData(r, n, m) /\ Emptied(r)
    BY <2>1, <2>2, <2>3, <2>6, <2>8, ProxyIs, DataHeard
  <2>10. [obj EXCEPT ![side] = Read(@, k)] = v
    BY <1>3, <2>1, <2>5, ProxyIs
  <2>11. Received(v, "acceptor", data, result) = r
    BY <2>8, ProxyIs DEF Received
  <2>12. Becomes(r)
    BY <1>1, <1>3, <2>2, <2>10, <2>11, ProxyIs
  <2> QED
    BY <2>9, <2>12 DEF Becomes
<1>4. CASE side = "connector"
  <2>1. PICK s : s = Read(obj.connector, k)
    OBVIOUS
  <2>2. PICK data : data = SubSeq(obj.connector.inbox, 1, k)
    OBVIOUS
  <2>3. k \in 1 .. Len(obj.connector.inbox) /\ MayRead(obj.connector)
    BY <1>1, <1>2, <1>4, ProxyIs
  <2>4. Beneath(obj.connector, s)
    BY <2>1, <2>2, <2>3, ProxyIs, ReadOp
  <2>5. PICK v : v = [obj EXCEPT !["connector"] = s]
    OBVIOUS
  <2>6. ProxyOK(v, orphan) /\ v.connector = s /\ v.acceptor = obj.acceptor /\ Rests(obj, v)
    BY <2>4, <2>5, ProxyIs, BeneathConnector
  <2>7. PICK r : r = OnConnectorReceiveData(v, data)
    OBVIOUS
  <2>8. ProxyData(r, n, m) /\ Emptied(r)
    BY <2>1, <2>2, <2>3, <2>6, <2>7, ProxyIs, ConnectorDataHeard
  <2>9. [obj EXCEPT ![side] = Read(@, k)] = v
    BY <1>4, <2>1, <2>5, ProxyIs
  <2>10. Received(v, "connector", data, result) = r
    BY <2>7, ProxyIs DEF Received
  <2>11. Becomes(r)
    BY <1>1, <1>4, <2>2, <2>9, <2>10, ProxyIs
  <2> QED
    BY <2>8, <2>11 DEF Becomes
<1> QED
  BY <1>3, <1>4, TwoSides

(* What the peers do.                                                      *)
LEMMA PeerFields ==
    ASSUME NEW s, SockOK(s)
    PROVE  /\ Taken(s).inbox = s.inbox /\ Taken(s).reset = s.reset
           /\ PeerFinished(s).inbox = s.inbox /\ PeerFinished(s).reset = s.reset
           /\ \A units : /\ Arrived(s, units).inbox = s.inbox \o units
                         /\ Arrived(s, units).reset = s.reset
           /\ PeerReset(s).inbox = << >> /\ PeerReset(s).reset
<1>1. s \in Socket
  BY DEF SockOK
<1> QED
  BY <1>1 DEF Socket, Taken, PeerFinished, Arrived, PeerReset

LEMMA BeneathSame ==
    ASSUME NEW s, SockOK(s), NEW r, Beneath(s, r)
    PROVE  /\ Out(r) = Out(s) /\ Heard(r) = Heard(s) /\ r.status = s.status /\ r.fd = s.fd
           /\ r.inbox = s.inbox /\ r.reset = s.reset => Quiet(s, r)
<1>1. /\ Out(r) = Out(s) /\ Heard(r) = Heard(s) /\ r.status = s.status /\ r.fd = s.fd
      /\ SockOK(r)
  BY DEF Beneath, Out, Queued, Heard
<1>2. Begins(Out(r), Out(s))
  BY <1>1, HeardIn, BeginsSelf
<1>3. r.inbox = s.inbox /\ r.reset = s.reset => Quiet(s, r)
  <2> SUFFICES ASSUME r.inbox = s.inbox, r.reset = s.reset PROVE Quiet(s, r)
    OBVIOUS
  <2>1. Out(r) = Out(s) /\ r.status = s.status /\ r.fd = s.fd /\ SockOK(r)
    BY <1>1
  <2> QED
    BY <1>2, <2>1 DEF Quiet
<1> QED
  BY <1>1, <1>3

LEMMA ClientSendsMore ==
    ASSUME NEW w, NEW o, Linked(w, o), NEW n \in 0 .. 6, NEW m,
           ProxyData(w, n, m), Emptied(w),
           NEW s, Beneath(w.acceptor, s), ~w.acceptor.reset, ~s.reset,
           s.inbox = w.acceptor.inbox \o <<ClientScript[n + 1]>>,
           NEW r, Rests(w, r), r.acceptor = s, r.connector = w.connector
    PROVE  ProxyData(r, n + 1, m) /\ Emptied(r)
<1>1. PICK u, in, cl, co, out : /\ u = <<ClientScript[n + 1]>> /\ in = w.acceptor.inbox
                                /\ cl = w.clientBuffer /\ co = w.connectorBuffer
                                /\ out = Out(w.connector)
  OBVIOUS
<1>2. /\ in \in Seq(Unit) /\ cl \in Seq(Unit) /\ co \in Seq(Unit) /\ out \in Seq(Unit)
      /\ SockOK(w.acceptor) /\ SockOK(w.connector)
  BY <1>1, ProxyFields, HeardIn, Fields
<1>3. u \in Seq(Unit) /\ \A k \in 0 .. 7 : k <= n => Left(k, n + 1) = Left(k, n) \o u
  <2>1. 0 \in 0 .. 7 /\ 0 <= n
    OBVIOUS
  <2> QED
    BY <1>1, <2>1, LeftMore
<1>4. PICK a : a = cl \o in
  BY Zenon
<1>5. a \in Seq(Unit) /\ (cl \o in) \o u = cl \o (in \o u)
  <2>1. cl \in Seq(Unit) /\ in \in Seq(Unit) /\ u \in Seq(Unit)
    BY <1>2, <1>3
  <2>2. Reassoc(cl, in, u) /\ cl \o in \in Seq(Unit)
    BY <2>1, CatAssoc, CatIn, Zenon
  <2> QED
    BY <1>4, <2>2, Zenon DEF Reassoc
<1>6. Unread(w) = a /\ Unread(r) = a \o u
  BY <1>1, <1>4, <1>5, Zenon DEF Unread, Rests
<1>7. PICK b : b = co \o a
  OBVIOUS
<1>8. b \in Seq(Unit) /\ (co \o a) \o u = co \o (a \o u) /\ (out \o b) \o u = out \o (b \o u)
  <2>1. b \in Seq(Unit)
    BY <1>2, <1>5, <1>7, Cat
  <2>2. (co \o a) \o u = co \o (a \o u)
    <3>1. co \in Seq(Unit) /\ a \in Seq(Unit) /\ u \in Seq(Unit)
      BY <1>2, <1>3, <1>5
    <3> QED
      BY <3>1, SeqAssoc DEF Assoc
  <2>3. (out \o b) \o u = out \o (b \o u)
    <3>1. out \in Seq(Unit) /\ b \in Seq(Unit) /\ u \in Seq(Unit)
      BY <1>2, <1>3, <2>1
    <3> QED
      BY <3>1, CatAssoc, Zenon DEF Reassoc
  <2> QED
    BY <2>1, <2>2, <2>3
<1>9. Coming(w) = b /\ Coming(r) = b \o u
  BY <1>1, <1>6, <1>7, <1>8 DEF Coming, Rests
<1>10. PICK j : j = n + 1
  OBVIOUS
<1>11. j \in 0 .. 7 /\ n < j
  BY <1>10
<1>12. /\ r.state = w.state /\ r.connectorBuffer = w.connectorBuffer
       /\ r.acceptor.reset = s.reset
  BY DEF Rests
<1>13. w.state = "Greeting" => Unread(r) = Left(0, j)
  <2>1. w.state = "Greeting" => a = Left(0, n)
    BY <1>6 DEF ProxyData, ProxyUp
  <2>2. Left(0, j) = Left(0, n) \o u
    <3>1. 0 \in 0 .. 7 /\ 0 <= n
      OBVIOUS
    <3> QED
      BY <1>3, <1>10, <3>1
  <2> QED
    BY <1>6, <2>1, <2>2, Zenon
<1>14. w.state = "Request" => 2 <= j /\ Unread(r) = Left(2, j)
  <2> SUFFICES ASSUME w.state = "Request" PROVE 2 <= j /\ Unread(r) = Left(2, j)
    OBVIOUS
  <2>1. a = Left(2, n) /\ 2 <= n
    BY <1>6 DEF ProxyData, ProxyUp
  <2>2. Left(2, j) = Left(2, n) \o u
    <3>1. 2 \in 0 .. 7
      OBVIOUS
    <3> QED
      BY <1>3, <1>10, <2>1, <3>1, Zenon
  <2>3. 2 <= j
    BY <1>10, <2>1
  <2> QED
    BY <1>6, <2>1, <2>2, <2>3, Zenon
<1>15. w.state \in {"Connecting", "Connected"} =>
          /\ 4 <= j
          /\ w.connector.fd # "closed" => Runs(out \o Coming(r), Left(4, j), s.reset)
  <2> SUFFICES ASSUME w.state \in {"Connecting", "Connected"}
               PROVE  /\ 4 <= j
                      /\ w.connector.fd # "closed" =>
                            Runs(out \o Coming(r), Left(4, j), s.reset)
    OBVIOUS
  <2>1. 4 <= n /\ (w.connector.fd # "closed" => Runs(out \o b, Left(4, n), w.acceptor.reset))
    BY <1>1, <1>9 DEF ProxyData, ProxyUp
  <2>2. w.connector.fd # "closed" => out \o b = Left(4, n)
    BY <2>1 DEF Runs
  <2>3. PICK x : x = Left(4, j)
    OBVIOUS
  <2>4. x = Left(4, n) \o u /\ x \in Seq(Unit)
    <3>1. 4 \in 0 .. 7 /\ 4 <= j
      BY <1>11, <2>1
    <3> QED
      BY <1>3, <1>10, <1>11, <2>1, <2>3, <3>1, Units
  <2>5. w.connector.fd # "closed" => out \o Coming(r) = x
    BY <1>8, <1>9, <2>2, <2>4
  <2>6. Begins(x, x)
    BY <2>4, BeginsSelf, Zenon
  <2>7. 4 <= j
    BY <1>11, <2>1
  <2> QED
    BY <2>3, <2>5, <2>6, <2>7, Zenon DEF Runs
<1>16. ProxyUp(r, j)
  BY <1>1, <1>11, <1>12, <1>13, <1>14, <1>15 DEF ProxyData, ProxyUp
<1>17. Delivered(r, m)
  BY <1>2, BeneathSame DEF ProxyData, Delivered
<1> QED
  BY <1>10, <1>12, <1>16, <1>17 DEF ProxyData, Emptied

LEMMA TargetSendsMore ==
    ASSUME NEW w, NEW o, Linked(w, o), NEW n, NEW m \in 0 .. 1,
           ProxyData(w, n, m), Emptied(w),
           NEW s, Beneath(w.connector, s), ~w.connector.reset, ~s.reset,
           s.inbox = w.connector.inbox \o <<TargetScript[m + 1]>>,
           NEW r, Rests(w, r), r.connector = s, r.acceptor = w.acceptor
    PROVE  ProxyData(r, n, m + 1) /\ Emptied(r)
<1>1. PICK u, in, h, j : /\ u = <<TargetScript[m + 1]>> /\ in = w.connector.inbox
                         /\ h = Heard(w.acceptor) /\ j = m + 1
  OBVIOUS
<1>2. /\ in \in Seq(Payload) /\ in \in Seq(Unit) /\ h \in Seq(Unit)
      /\ SockOK(w.acceptor) /\ SockOK(w.connector)
  BY <1>1, ProxyFields, HeardIn, Fields DEF ProxyData, Delivered
<1>3. /\ u \in Seq(Payload) /\ u \in Seq(Unit) /\ Had(j) = Had(m) \o u /\ j \in 0 .. 2
      /\ Had(j) \in Seq(Unit)
  <2>1. m \in 0 .. 2 /\ m < 2 /\ j \in 0 .. 2
    BY <1>1
  <2> QED
    BY <1>1, <2>1, HadIs, PayloadUnits
<1>4. s.inbox = in \o u /\ in \o u \in Seq(Payload)
  BY <1>1, <1>2, <1>3
<1>5. (h \o in) \o u = h \o (in \o u)
  <2>1. h \in Seq(Unit) /\ in \in Seq(Unit) /\ u \in Seq(Unit)
    BY <1>2, <1>3
  <2>2. Reassoc(h, in, u)
    BY <2>1, CatAssoc, Zenon
  <2> QED
    BY <2>2, Zenon DEF Reassoc
<1>6. w.acceptor.status = "Connected" => Runs(h \o s.inbox, Had(j), s.reset)
  <2> SUFFICES ASSUME w.acceptor.status = "Connected" PROVE Runs(h \o s.inbox, Had(j), s.reset)
    OBVIOUS
  <2>1. h \o in = Had(m)
    BY <1>1, Zenon DEF ProxyData, Delivered, Runs
  <2>2. h \o s.inbox = Had(j)
    BY <1>3, <1>4, <1>5, <2>1
  <2>3. Begins(Had(j), Had(j))
    BY <1>3, BeginsSelf, Zenon
  <2> QED
    BY <2>2, <2>3, Zenon DEF Runs
<1>7. Out(s) = Out(w.connector) /\ s.status = w.connector.status /\ s.fd = w.connector.fd
  BY <1>2, BeneathSame
<1>8. Delivered(r, j)
  BY <1>1, <1>3, <1>4, <1>6, <1>7 DEF ProxyData, Delivered
<1>9. Coming(r) = Coming(w) /\ Unread(r) = Unread(w)
  BY DEF Coming, Unread, Rests
<1>10. ProxyUp(r, n)
  BY <1>7, <1>9 DEF ProxyData, ProxyUp, Rests
<1> QED
  BY <1>1, <1>7, <1>8, <1>10 DEF ProxyData, Emptied, Rests

(* A reset loses what has arrived and was not read.                        *)
LEMMA ResetLoses ==
    ASSUME NEW w, NEW o, Linked(w, o), NEW n, NEW m, ProxyData(w, n, m), Emptied(w),
           NEW side \in Sides, NEW s, Beneath(w[side], s), s.inbox = << >>, s.reset,
           NEW r, Rests(w, r), r[side] = s, r[Other(side)] = w[Other(side)],
           r["acceptor"] = r.acceptor, r["connector"] = r.connector
    PROVE  ProxyData(r, n, m) /\ Emptied(r)
<1>f. /\ SockOK(w.acceptor) /\ SockOK(w.connector) /\ w.acceptor.inbox \in Seq(Unit)
      /\ w.clientBuffer \in Seq(Unit) /\ w.connectorBuffer \in Seq(Unit)
      /\ w.connector.inbox \in Seq(Unit)
      /\ Out(w.connector) \in Seq(Unit) /\ Heard(w.acceptor) \in Seq(Unit)
  BY ProxyFields, HeardIn, Fields
<1>n. n \in 0 .. 7 /\ m \in 0 .. 2
  BY DEF ProxyData, ProxyUp, Delivered
<1>1. CASE side = "acceptor"
  <2>1. r.acceptor = s /\ r.connector = w.connector /\ Beneath(w.acceptor, s)
    BY <1>1, TwoSides, ProxyFields
  <2>2. PICK in, cl, co, out : /\ in = w.acceptor.inbox /\ cl = w.clientBuffer
                               /\ co = w.connectorBuffer /\ out = Out(w.connector)
    OBVIOUS
  <2>3. Delivered(r, m)
    BY <1>f, <2>1, BeneathSame DEF ProxyData, Delivered
  <2>4. w.state \in {"Connecting", "Connected"} /\ w.connector.fd # "closed" =>
            Runs(out \o Coming(r), Left(4, n), TRUE)
    <3> SUFFICES ASSUME w.state \in {"Connecting", "Connected"}, w.connector.fd # "closed"
                 PROVE  Begins(out \o Coming(r), Left(4, n))
      BY DEF Runs
    <3>1. Begins(out \o Coming(w), Left(4, n)) /\ 4 <= n
      BY <2>2 DEF ProxyData, ProxyUp, Runs
    <3>2. Coming(r) = co \o (cl \o << >>) /\ Coming(w) = co \o (cl \o in)
      BY <2>1, <2>2 DEF Coming, Unread, Rests
    <3>3. cl \o << >> = cl /\ cl \o in \in Seq(Unit) /\ co \o cl \in Seq(Unit)
          /\ co \o (cl \o in) \in Seq(Unit)
      BY <1>f, <2>2, Cat
    <3>4. Begins(cl, cl \o in)
      BY <1>f, <2>2, BeginsMore
    <3>5. Begins(co \o cl, co \o (cl \o in))
      BY <1>f, <2>2, <3>3, <3>4, BeginsBehind, Zenon
    <3>6. PICK x, y : x = Coming(r) /\ y = Coming(w)
      OBVIOUS
    <3>7. x \in Seq(Unit) /\ y \in Seq(Unit) /\ Begins(x, y)
      BY <3>2, <3>3, <3>5, <3>6
    <3>8. out \o x \in Seq(Unit) /\ out \o y \in Seq(Unit)
      BY <1>f, <2>2, <3>7, Cat
    <3>9. Begins(out \o x, out \o y)
      BY <1>f, <2>2, <3>7, BeginsBehind
    <3> QED
      BY <3>1, <3>6, <3>8, <3>9, BeginsTrans
  <2>5. ProxyUp(r, n) /\ Emptied(r)
    BY <2>1, <2>2, <2>4 DEF ProxyData, ProxyUp, Emptied, Rests
  <2> QED
    BY <2>3, <2>5 DEF ProxyData
<1>2. CASE side = "connector"
  <2>1. r.connector = s /\ r.acceptor = w.acceptor /\ Beneath(w.connector, s)
    BY <1>2, TwoSides, ProxyFields
  <2>2. Out(s) = Out(w.connector) /\ s.status = w.connector.status /\ s.fd = w.connector.fd
    BY <1>f, <2>1, BeneathSame
  <2>3. Coming(r) = Coming(w) /\ Unread(r) = Unread(w)
    BY <2>1 DEF Coming, Unread, Rests
  <2>4. ProxyUp(r, n) /\ Emptied(r)
    BY <2>1, <2>2, <2>3 DEF ProxyData, ProxyUp, Emptied, Rests
  <2>5. w.acceptor.status = "Connected" => Runs(Heard(w.acceptor) \o << >>, Had(m), TRUE)
    <3> SUFFICES ASSUME w.acceptor.status = "Connected"
                 PROVE  Begins(Heard(w.acceptor) \o << >>, Had(m))
      BY DEF Runs
    <3>1. PICK h, in, q : h = Heard(w.acceptor) /\ in = w.connector.inbox /\ q = Had(m)
      OBVIOUS
    <3>2. Begins(h \o in, q)
      BY <3>1 DEF ProxyData, Delivered, Runs
    <3>3. h \o << >> = h /\ h \o in \in Seq(Unit) /\ h \in Seq(Unit) /\ in \in Seq(Unit)
      BY <1>f, <3>1, Cat
    <3>4. Begins(h, h \o in) /\ q \in Seq(Unit)
      BY <1>n, <3>1, <3>3, BeginsMore, Units
    <3> QED
      BY <3>1, <3>2, <3>3, <3>4, BeginsTrans
  <2>6. << >> \in Seq(Payload)
    OBVIOUS
  <2>7. Delivered(r, m)
    BY <2>1, <2>2, <2>5, <2>6 DEF ProxyData, Delivered
  <2> QED
    BY <2>4, <2>7 DEF ProxyData
<1> QED
  BY <1>1, <1>2, TwoSides

(* A proxy between two events, with what its peers have sent.              *)
ProxyKeeps(w, o, n, m) == ProxyInv(w, o) /\ ProxyData(w, n, m) /\ Emptied(w)

LEMMA PeerSwap ==
    ASSUME ProxyInv(obj, orphan), NEW side \in Sides, NEW s, Beneath(obj[side], s),
           PeerStep(side, s)
    PROVE  /\ Rests(obj, obj') /\ obj'[side] = s /\ obj'[Other(side)] = obj[Other(side)]
           /\ obj'["acceptor"] = obj'.acceptor /\ obj'["connector"] = obj'.connector
           /\ ProxyOK(obj', orphan) /\ orphan' = orphan
<1>1. obj' = [obj EXCEPT ![side] = s] /\ orphan' = orphan
  BY DEF PeerStep
<1>2. PICK r : r = obj'
  OBVIOUS
<1>3. CASE side = "acceptor"
  <2>1. ProxyOK(r, orphan) /\ r.acceptor = s /\ r.connector = obj.connector /\ Rests(obj, r)
    BY <1>1, <1>2, <1>3, ProxyIs, BeneathAcceptor, ZenonT(40)
  <2>2. r["acceptor"] = r.acceptor /\ r["connector"] = r.connector
    BY <2>1, ProxyFields DEF ProxyOK
  <2> QED
    BY <1>1, <1>2, <1>3, <2>1, <2>2, TwoSides, ProxyIs
<1>4. CASE side = "connector"
  <2>1. ProxyOK(r, orphan) /\ r.connector = s /\ r.acceptor = obj.acceptor /\ Rests(obj, r)
    BY <1>1, <1>2, <1>4, ProxyIs, BeneathConnector, ZenonT(40)
  <2>2. r["acceptor"] = r.acceptor /\ r["connector"] = r.connector
    BY <2>1, ProxyFields DEF ProxyOK
  <2> QED
    BY <1>1, <1>2, <1>4, <2>1, <2>2, TwoSides, ProxyIs
<1> QED
  BY <1>3, <1>4, TwoSides

LEMMA ProxyPeersData ==
    ASSUME ProxyKeeps(obj, orphan, sentUp, sentDown), Peers
    PROVE  ProxyData(obj', sentUp', sentDown') /\ Emptied(obj')
<1>f. /\ ProxyInv(obj, orphan) /\ Linked(obj, orphan) /\ ProxyData(obj, sentUp, sentDown)
      /\ Emptied(obj) /\ SockOK(obj.acceptor) /\ SockOK(obj.connector)
      /\ sentUp \in 0 .. 7 /\ sentDown \in 0 .. 2
  BY ProxyIs DEF ProxyKeeps, ProxyData, ProxyUp, Delivered
<1>1. CASE ClientSends
  <2>1. PICK s : s = Arrived(obj.acceptor, <<ClientScript[sentUp + 1]>>)
    OBVIOUS
  <2>2. /\ PeerMaySend(obj.acceptor) /\ PeerStep("acceptor", s) /\ sentUp \in 0 .. 6
        /\ sentUp' = sentUp + 1 /\ sentDown' = sentDown
    BY <1>f, <1>1, <2>1, Scripts DEF ClientSends
  <2>3. <<ClientScript[sentUp + 1]>> \in Seq(Unit)
    <3>1. sentUp + 1 \in 1 .. 7
      BY <2>2
    <3> QED
      BY <3>1, Scripts, OneUnit
  <2>4. /\ Beneath(obj.acceptor, s) /\ s.reset = obj.acceptor.reset
        /\ s.inbox = obj.acceptor.inbox \o <<ClientScript[sentUp + 1]>>
        /\ ~obj.acceptor.reset
    BY <1>f, <2>1, <2>2, <2>3, PeerOps, PeerFields, Zenon DEF PeerMaySend, Connection
  <2>5. PICK r : r = obj'
    OBVIOUS
  <2>6. Rests(obj, r) /\ r.acceptor = s /\ r.connector = obj.connector
    BY <1>f, <2>2, <2>4, <2>5, PeerSwap, ProxyIs, TwoSides
  <2>7. ProxyData(r, sentUp + 1, sentDown) /\ Emptied(r)
    BY <1>f, <2>2, <2>4, <2>6, ClientSendsMore
  <2> QED
    BY <2>2, <2>5, <2>7
<1>2. CASE TargetSends
  <2>1. PICK s : s = Arrived(obj.connector, <<TargetScript[sentDown + 1]>>)
    OBVIOUS
  <2>2. /\ PeerMaySend(obj.connector) /\ PeerStep("connector", s) /\ sentDown \in 0 .. 1
        /\ sentDown' = sentDown + 1 /\ sentUp' = sentUp
    BY <1>f, <1>2, <2>1, Scripts DEF TargetSends
  <2>3. <<TargetScript[sentDown + 1]>> \in Seq(Unit)
    <3>1. sentDown + 1 \in 1 .. 2
      BY <2>2
    <3> QED
      BY <3>1, Scripts, OneUnit
  <2>4. /\ Beneath(obj.connector, s) /\ s.reset = obj.connector.reset
        /\ s.inbox = obj.connector.inbox \o <<TargetScript[sentDown + 1]>>
        /\ ~obj.connector.reset
    BY <1>f, <2>1, <2>2, <2>3, PeerOps, PeerFields, Zenon DEF PeerMaySend, Connection
  <2>5. PICK r : r = obj'
    OBVIOUS
  <2>6. Rests(obj, r) /\ r.connector = s /\ r.acceptor = obj.acceptor
    BY <1>f, <2>2, <2>4, <2>5, PeerSwap, ProxyIs, TwoSides
  <2>7. ProxyData(r, sentUp, sentDown + 1) /\ Emptied(r)
    BY <1>f, <2>2, <2>4, <2>6, TargetSendsMore
  <2> QED
    BY <2>2, <2>5, <2>7
<1>3. ASSUME NEW side \in Sides, PeerTakes(side) \/ PeerFinishes(side) \/ PeerFails(side)
      PROVE  ProxyData(obj', sentUp', sentDown') /\ Emptied(obj')
  <2>0. SockOK(obj[side]) /\ sentUp' = sentUp /\ sentDown' = sentDown
    BY <1>3, TwoSides, ProxyIs, <1>f DEF PeerTakes, PeerFinishes, PeerFails
  <2>1. PICK r : r = obj'
    OBVIOUS
  <2>2. CASE PeerTakes(side) \/ PeerFinishes(side)
    <3>1. PICK s : /\ Beneath(obj[side], s) /\ PeerStep(side, s)
                   /\ s.inbox = obj[side].inbox /\ s.reset = obj[side].reset
      BY <2>0, <2>2, PeerOps, PeerFields DEF PeerTakes, PeerFinishes
    <3>2. /\ Rests(obj, r) /\ r[side] = s /\ r[Other(side)] = obj[Other(side)]
          /\ r["acceptor"] = r.acceptor /\ r["connector"] = r.connector
      BY <1>f, <2>1, <3>1, PeerSwap
    <3>3. Quiet(obj[side], s)
      BY <2>0, <3>1, BeneathSame
    <3>4. Quiet(obj.acceptor, r.acceptor) /\ Quiet(obj.connector, r.connector)
      BY <1>f, <3>2, <3>3, QuietSame, TwoSides, ProxyIs
    <3>5. Hears(obj.acceptor, r.acceptor)
      BY <1>f, <3>4, QuietHears
    <3>6. ProxyData(r, sentUp, sentDown) /\ Emptied(r)
      BY <1>f, <3>2, <3>4, <3>5, ProxyQuiet
    <3> QED
      BY <2>0, <2>1, <3>6
  <2>3. CASE PeerFails(side)
    <3>1. PICK s : /\ Beneath(obj[side], s) /\ PeerStep(side, s)
                   /\ s.inbox = << >> /\ s.reset
      BY <2>0, <2>3, PeerOps, PeerFields DEF PeerFails
    <3>2. /\ Rests(obj, r) /\ r[side] = s /\ r[Other(side)] = obj[Other(side)]
          /\ r["acceptor"] = r.acceptor /\ r["connector"] = r.connector
      BY <1>f, <2>1, <3>1, PeerSwap
    <3>3. ProxyData(r, sentUp, sentDown) /\ Emptied(r)
      BY <1>f, <3>1, <3>2, ResetLoses
    <3> QED
      BY <2>0, <2>1, <3>3
  <2> QED
    BY <1>3, <2>2, <2>3
<1> QED
  BY <1>1, <1>2, <1>3 DEF Peers

LEMMA ProxyKept ==
    ASSUME ProxyKeeps(obj, orphan, sentUp, sentDown), reused \in BOOLEAN, Next,
           ~reused \/ ~HandshakeDone
    PROVE  ProxyKeeps(obj', orphan', sentUp', sentDown')
<1>f. /\ ProxyInv(obj, orphan) /\ ProxyData(obj, sentUp, sentDown) /\ Emptied(obj)
      /\ sentUp \in Nat /\ sentDown \in Nat /\ ProxyOK(obj, orphan) /\ IsProxy
  BY ProxyIs DEF ProxyKeeps, ProxyData, ProxyUp, Delivered
<1>1. ProxyInv(obj', orphan')
  BY <1>f, ProxyNext
<1>2. CASE Peers
  BY <1>1, <1>2, ProxyPeersData DEF ProxyKeeps
<1>3. ASSUME ProxyData(obj', sentUp, sentDown), Emptied(obj'), UNCHANGED <<sentUp, sentDown>>
      PROVE  ProxyKeeps(obj', orphan', sentUp', sentDown')
  BY <1>1, <1>3 DEF ProxyKeeps
<1>4. CASE LookupAnswered
  <2>1. LookingUp(obj) /\ (obj.acceptor.fd = "closed" => orphan)
    BY <1>f, <1>4 DEF LookupAnswered, Asks, ProxyInv
  <2>2. PICK w : w = [obj EXCEPT !.connector.fd = "open"]
    OBVIOUS
  <2>3. PICK r : r = OnConnectFailed([obj EXCEPT !.connector.status = "Closed"])
    OBVIOUS
  <2>4. /\ ProxyData(w, sentUp, sentDown) /\ Emptied(w)
        /\ ProxyData(r, sentUp, sentDown) /\ Emptied(r)
    BY <1>f, <2>1, <2>2, <2>3, LookupData
  <2>5. Becomes(w) \/ Becomes(r)
    BY <1>f, <1>4, <2>2, <2>3 DEF LookupAnswered
  <2> QED
    BY <1>3, <2>4, <2>5 DEF Becomes
<1>5. CASE HandshakeDone
  <2>1. PICK r : r = OnConnected([obj EXCEPT !.connector.status = "Connected"], FALSE)
    OBVIOUS
  <2>0. reused = FALSE
    BY <1>5
  <2>2. Becomes(r) /\ InHandshake(obj.connector)
    BY <1>f, <1>5, <2>0, <2>1 DEF HandshakeDone
  <2>3. ProxyData(r, sentUp, sentDown) /\ Emptied(r)
    BY <1>f, <2>1, <2>2, ConnectedData
  <2> QED
    BY <1>3, <2>2, <2>3 DEF Becomes
<1>6. ASSUME NEW side \in Sides,
             ReadChunk(side) \/ WritableEvent(side) \/ FinishedEvent(side) \/ FailureEvent(side)
      PROVE  ProxyKeeps(obj', orphan', sentUp', sentDown')
  <2>1. UNCHANGED <<sentUp, sentDown>>
    BY <1>6 DEF ReadChunk, WritableEvent, FinishedEvent, FailureEvent, Becomes
  <2>2. CASE ReadChunk(side)
    BY <1>f, <1>3, <2>1, <2>2, ProxyReadsData
  <2>3. CASE WritableEvent(side) \/ FinishedEvent(side) \/ FailureEvent(side)
    BY <1>f, <1>3, <2>1, <2>3, ProxyEventData
  <2> QED
    BY <1>6, <2>2, <2>3
<1>7. ASSUME NEW end \in {"near", "far"} PROVE ~FrameArrives(end)
  BY <1>f DEF FrameArrives
<1> QED
  BY <1>2, <1>4, <1>5, <1>6, <1>7 DEF Next, Peers

LEMMA NothingSent ==
    /\ Out(ReadySocket) = << >> /\ Out(AcceptedSocket) = << >> /\ Heard(AcceptedSocket) = << >>
    /\ ReadySocket.inbox = << >> /\ AcceptedSocket.inbox = << >>
    /\ Left(0, 0) = << >> /\ Had(0) = << >>
<1>1. /\ ReadySocket.got = << >> /\ ReadySocket.writeQueue = << >> /\ ReadySocket.inbox = << >>
      /\ AcceptedSocket.got = << >> /\ AcceptedSocket.writeQueue = << >>
      /\ AcceptedSocket.inbox = << >>
  BY DEF ReadySocket, AcceptedSocket
<1>2. << >> \o << >> = << >>
  BY Cat
<1>3. Out(ReadySocket) = << >> /\ Out(AcceptedSocket) = << >>
  BY <1>1, <1>2, FlattenEmpty DEF Out, Queued
<1>4. Heard(AcceptedSocket) = << >>
  BY <1>3, DataNone DEF Heard
<1>5. Left(0, 0) = << >>
  <2>1. Left(0, 0) \in Seq(Unit) /\ Len(Left(0, 0)) = 0
    BY LeftIs
  <2> QED
    BY <2>1, EmptySeq
<1>6. Had(0) = << >>
  BY Scripts DEF Had
<1> QED
  BY <1>1, <1>3, <1>4, <1>5, <1>6

LEMMA ProxyDataInit ==
    ASSUME NEW kind \in Clients
    PROVE  ProxyKeeps(Proxy(kind), FALSE, 0, 0)
<1>1. PICK w : w = Proxy(kind)
  OBVIOUS
<1>2. /\ w.acceptor = AcceptedSocket /\ w.connector = ReadySocket /\ w.state = "Greeting"
      /\ w.clientBuffer = << >> /\ w.connectorBuffer = << >>
  BY <1>1 DEF Proxy
<1>3. Unread(w) = << >>
  BY <1>2, NothingSent, Cat DEF Unread
<1>4. ProxyUp(w, 0)
  BY <1>2, <1>3, NothingSent, ReadySocketOK DEF ProxyUp
<1>5. Begins(<< >>, Left(4, 7)) /\ Begins(<< >>, TargetScript) /\ Begins(<< >>, << >>)
  BY Units, Cat, Zenon DEF Begins
<1>6. << >> \in Seq(Payload)
  OBVIOUS
<1>7. Runs(Heard(w.acceptor) \o w.connector.inbox, Had(0), w.connector.reset)
  BY <1>2, <1>5, NothingSent, Cat DEF Runs
<1>8. Delivered(w, 0)
  BY <1>2, <1>5, <1>6, <1>7, NothingSent DEF Delivered
<1>9. Emptied(w)
  BY <1>2 DEF Emptied
<1> QED
  BY <1>1, <1>4, <1>8, <1>9, ProxyInit DEF ProxyKeeps, ProxyData

LEMMA BeginsPayload ==
    ASSUME NEW x \in Seq(Unit), Begins(x, Left(4, 7))
    PROVE  DataIn(x) = x
<1>1. PICK rest \in Seq(Unit) : x \o rest = Left(4, 7)
  BY DEF Begins
<1>2. 7 \in 4 .. 7
  OBVIOUS
<1>3. Left(4, 7) \in Seq(Payload)
  BY <1>2, LeftData
<1>4. x \o rest \in Seq(Payload)
  BY <1>1, <1>3
<1>5. x \in Seq(Payload)
  BY <1>4, Parts
<1> QED
  BY <1>5, DataAll

LEMMA ProxyRelays ==
    ASSUME ProxyKeeps(obj, orphan, sentUp, sentDown)
    PROVE  RelayedInOrder
<1> DEFINE a == obj.acceptor
           c == obj.connector
<1>f. /\ ProxyUp(obj, sentUp) /\ Delivered(obj, sentDown) /\ ProxyOK(obj, orphan) /\ IsProxy
      /\ SockOK(a) /\ SockOK(c) /\ Linked(obj, orphan)
      /\ obj.clientBuffer \in Seq(Unit) /\ obj.connectorBuffer \in Seq(Unit)
      /\ obj.state \in States
  BY ProxyIs, ProxyFields DEF ProxyKeeps, ProxyData
<1>s. /\ a.fd \in {"open", "closed"} /\ a.status # "Connecting"
      /\ a.fd = "open" => a.status \in {"Connecting", "Connected", "Closing"}
      /\ a.fd = "closed" => a.status = "Closed"
      /\ c.fd = "closed" => c.status = "Closed"
  <2>1. a.fd \in {"open", "closed"} /\ a.status # "Connecting"
    BY <1>f, ProxyFields
  <2>2. \A s : SockOK(s) => /\ s.fd = "open" => s.status \in {"Connecting", "Connected", "Closing"}
                            /\ s.fd = "closed" => s.status = "Closed"
    BY DEF SockOK
  <2> QED
    BY <1>f, <2>1, <2>2
<1>g. /\ Heard(a) \in Seq(Unit) /\ Out(c) \in Seq(Unit) /\ Out(a) \in Seq(Unit)
      /\ a.inbox \in Seq(Unit) /\ c.inbox \in Seq(Unit)
      /\ a.got \in Seq(Unit) /\ c.got \in Seq(Unit)
  BY <1>f, HeardIn, OutIn
<1>1. IsPrefix(c.got, DataIn(ClientScript)) /\ IsPrefix(DataIn(c.got), DataIn(ClientScript))
  <2>1. Begins(c.got, Out(c)) /\ Begins(Out(c), Left(4, 7))
    BY <1>f, GotBegins DEF Delivered
  <2>2. Begins(c.got, Left(4, 7))
    BY <1>g, <2>1, BeginsTrans
  <2>3. DataIn(c.got) = c.got
    BY <1>g, <2>2, BeginsPayload
  <2> QED
    BY <1>g, <2>2, <2>3, Units, BeginsPrefix, ScriptData
<1>2. IsPrefix(DataIn(a.got), TargetScript)
  <2>1. Begins(a.got, Out(a))
    BY <1>f, GotBegins
  <2>2. Begins(DataIn(a.got), Heard(a))
    BY <1>g, <2>1, BeginsData DEF Heard
  <2>3. Begins(Heard(a), TargetScript)
    BY <1>f DEF Delivered
  <2>4. DataIn(a.got) \in Seq(Unit)
    BY <1>g, DataTyped
  <2>5. Begins(DataIn(a.got), TargetScript)
    BY <1>g, <2>2, <2>3, <2>4, BeginsTrans
  <2> QED
    BY <2>4, <2>5, Units, BeginsPrefix
<1>3. ASSUME Sound
      PROVE  /\ Out(c) \o obj.connectorBuffer \o DataIn(Unread(obj)) = DataIn(Left(0, sentUp))
             /\ sentUp \in 0 .. 7
  <2>1. /\ a.status = "Connected" /\ ~a.reset /\ c.fd # "closed" /\ obj.state # "Error"
    <3>1. /\ a.status \in {"Ready", "Connecting", "Connected"} /\ ~a.reset
          /\ c.status \in {"Ready", "Connecting", "Connected"} /\ obj.state # "Error"
      BY <1>3 DEF Sound, SocketSound
    <3> QED
      BY <1>s, <3>1
  <2>2. CASE obj.state \in {"Greeting", "Request"}
    <3>1. obj.connectorBuffer = << >> /\ Unasked(obj) /\ sentUp \in 0 .. 7
      BY <1>f, <2>2 DEF ProxyUp, ProxyOK, ProxyPhase
    <3>2. Out(c) = << >>
      BY <1>f, <3>1, OutIn DEF Unasked, SockOK, Untouched
    <3>3. PICK k \in {0, 2} : k <= sentUp /\ Unread(obj) = Left(k, sentUp)
      <4>1. CASE obj.state = "Greeting"
        <5>1. 0 \in {0, 2} /\ 0 <= sentUp /\ Unread(obj) = Left(0, sentUp)
          BY <1>f, <2>1, <3>1, <4>1 DEF ProxyUp
        <5> QED
          BY <5>1
      <4>2. CASE obj.state = "Request"
        <5>1. 2 \in {0, 2} /\ 2 <= sentUp /\ Unread(obj) = Left(2, sentUp)
          BY <1>f, <2>1, <3>1, <4>2 DEF ProxyUp
        <5> QED
          BY <5>1
      <4> QED
        BY <2>2, <4>1, <4>2
    <3>4. DataIn(Unread(obj)) = DataIn(Left(0, sentUp))
      <4>1. k \in {0, 2, 4}
        OBVIOUS
      <4> QED
        BY <3>1, <3>3, <4>1, DataLeft
    <3>5. DataIn(Left(0, sentUp)) \in Seq(Unit)
      <4>1. 0 \in 0 .. 7 /\ 0 <= sentUp
        BY <3>1
      <4>2. Left(0, sentUp) \in Seq(Unit)
        BY <3>1, <4>1, LeftIs
      <4> QED
        BY <4>2, DataTyped
    <3> QED
      BY <3>1, <3>2, <3>4, <3>5, Cat
  <2>3. CASE obj.state \in {"Connecting", "Connected"}
    <3>1. /\ 4 <= sentUp /\ sentUp \in 0 .. 7 /\ Runs(Out(c) \o Coming(obj), Left(4, sentUp), a.reset)
      BY <1>f, <2>1, <2>3 DEF ProxyUp
    <3>2. Out(c) \o Coming(obj) = Left(4, sentUp) /\ sentUp \in 4 .. 7
      BY <2>1, <3>1 DEF Runs
    <3>3. Unread(obj) \in Seq(Unit)
      BY <1>f, <1>g, Cat DEF Unread
    <3>4. Left(4, sentUp) \in Seq(Payload) /\ DataIn(Left(4, sentUp)) = Left(4, sentUp)
      BY <3>2, LeftData
    <3>5. Coming(obj) \in Seq(Unit)
      BY <1>f, <3>3, Cat DEF Coming
    <3>6. Coming(obj) \in Seq(Payload)
      <4>1. Out(c) \o Coming(obj) \in Seq(Payload)
        BY <3>2, <3>4
      <4> QED
        BY <1>g, <3>5, <4>1, Parts
    <3>7. Unread(obj) \in Seq(Payload)
      BY <1>f, <3>3, <3>6, Parts DEF Coming
    <3>8. DataIn(Unread(obj)) = Unread(obj)
      BY <3>7, DataAll
    <3>9. Out(c) \o obj.connectorBuffer \o Unread(obj) = Out(c) \o Coming(obj)
      <4>1. (Out(c) \o obj.connectorBuffer) \o Unread(obj)
               = Out(c) \o (obj.connectorBuffer \o Unread(obj))
        <5>1. PICK u \in Seq(Unit) : u = Out(c)
          BY <1>g
        <5>2. PICK v \in Seq(Unit) : v = obj.connectorBuffer
          BY <1>f
        <5>3. PICK x \in Seq(Unit) : x = Unread(obj)
          BY <3>3
        <5>4. (u \o v) \o x = u \o (v \o x)
          BY Cat
        <5> QED
          BY <5>1, <5>2, <5>3, <5>4
      <4> QED
        BY <4>1 DEF Coming
    <3>10. DataIn(Left(4, sentUp)) = DataIn(Left(0, sentUp))
      <4>1. 4 \in {0, 2, 4}
        OBVIOUS
      <4> QED
        BY <3>1, <4>1, DataLeft
    <3> QED
      BY <3>1, <3>2, <3>4, <3>8, <3>9, <3>10
  <2> QED
    BY <1>f, <2>1, <2>2, <2>3 DEF States
<1>4. ASSUME Sound
      PROVE  DataIn(Out(a)) \o << >> \o c.inbox = Had(sentDown)
  <2>1. a.status = "Connected" /\ ~c.reset
    <3>1. /\ a.status \in {"Ready", "Connecting", "Connected"} /\ ~c.reset
      BY <1>4 DEF Sound, SocketSound
    <3> QED
      BY <1>s, <3>1
  <2>2. Heard(a) \o c.inbox = Had(sentDown)
    BY <1>f, <2>1, Zenon DEF Delivered, Runs
  <2>3. Heard(a) \o << >> = Heard(a)
    BY <1>g, Cat
  <2> QED
    BY <2>2, <2>3, Zenon DEF Heard
<1>5. ASSUME Sound
      PROVE  /\ c.got \o Queued(c) \o BetweenUp \o DataIn(obj.clientBuffer \o a.inbox)
                   = DataIn(SubSeq(ClientScript, 1, sentUp))
             /\ DataIn(a.got \o Queued(a)) \o BetweenDown \o c.inbox
                   = SubSeq(TargetScript, 1, sentDown)
  <2>1. BetweenUp = obj.connectorBuffer /\ BetweenDown = << >>
    BY <1>f DEF BetweenUp, BetweenDown
  <2>2. DataIn(SubSeq(ClientScript, 1, sentUp)) = DataIn(Left(0, sentUp))
    BY <1>3, <1>5, ScriptData
  <2> QED
    BY <1>3, <1>4, <1>5, <2>1, <2>2 DEF Out, Unread, Had
<1> QED
  BY <1>1, <1>2, <1>5 DEF RelayedInOrder

-----------------------------------------------------------------------------
(* The data in frames on their way.                                        *)
Loads(frames) == [i \in DOMAIN frames |-> frames[i].data]

LEMMA LoadIs == \A f : DataOf(f) = FlattenSeq(Loads(f))
  BY DEF DataOf, Loads

LEMMA LoadsIn ==
    ASSUME NEW f \in Seq(Frames)
    PROVE  /\ Loads(f) \in Buffers /\ Len(Loads(f)) = Len(f) /\ DataOf(f) \in Seq(Unit)
           /\ \A i \in 1 .. Len(f) : Loads(f)[i] = f[i].data /\ f[i].data \in Seq(Unit)
<1>1. DOMAIN f = 1 .. Len(f) /\ Len(f) \in Nat /\ \A i \in 1 .. Len(f) : f[i] \in Frames
  OBVIOUS
<1>2. \A x \in Frames : x.data \in Seq(Unit)
  BY DEF Frames
<1>3. Loads(f) = [i \in 1 .. Len(f) |-> f[i].data]
  BY <1>1 DEF Loads
<1>4. \A i \in 1 .. Len(f) : f[i].data \in Seq(Unit)
  BY <1>1, <1>2
<1>5. Loads(f) \in Buffers
  BY <1>1, <1>3, <1>4 DEF Buffers
<1>6. DataOf(f) \in Seq(Unit)
  BY <1>5, LoadIs, FlattenIn
<1> QED
  BY <1>1, <1>3, <1>4, <1>5, <1>6

LEMMA LoadNone == DataOf(<< >>) = << >>
<1>0. PICK f : f = << >>
  OBVIOUS
<1>1. f \in Seq(Frames) /\ Len(f) = 0
  BY <1>0
<1>2. Loads(f) \in Seq(Seq(Unit)) /\ Len(Loads(f)) = 0
  BY <1>1, LoadsIn DEF Buffers
<1>3. Loads(f) = << >>
  BY <1>2
<1> QED
  BY <1>0, <1>3, LoadIs, FlattenEmpty

LEMMA LoadAppend ==
    ASSUME NEW f \in Seq(Frames), NEW x \in Frames
    PROVE  DataOf(Append(f, x)) = DataOf(f) \o x.data /\ x.data \in Seq(Unit)
<1>1. PICK m, g, p, q, d : /\ m = Len(f) /\ g = Append(f, x) /\ p = Loads(f) /\ q = Loads(g)
                           /\ d = x.data
  OBVIOUS
<1>2. /\ m \in Nat /\ g \in Seq(Frames) /\ Len(g) = m + 1 /\ g[m + 1] = x
      /\ \A i \in 1 .. m : g[i] = f[i]
  BY <1>1
<1>3. d \in Seq(Unit)
  BY <1>1 DEF Frames
<1>4. /\ p \in Buffers /\ Len(p) = m /\ \A i \in 1 .. m : p[i] = f[i].data
      /\ q \in Buffers /\ Len(q) = m + 1 /\ \A i \in 1 .. m + 1 : q[i] = g[i].data
  BY <1>1, <1>2, LoadsIn
<1>5. q = Append(p, d)
  <2>1. PICK S : S = Seq(Unit)
    OBVIOUS
  <2>2. p \in Seq(S) /\ q \in Seq(S) /\ d \in S
    BY <1>3, <1>4, <2>1 DEF Buffers
  <2>3. \A i \in 1 .. m : q[i] = p[i]
    <3> SUFFICES ASSUME NEW i \in 1 .. m PROVE q[i] = p[i]
      OBVIOUS
    <3>1. i \in 1 .. m + 1
      BY <1>2
    <3> QED
      BY <1>2, <1>4, <3>1
  <2>4. q[m + 1] = d
    BY <1>1, <1>2, <1>4
  <2> QED
    BY <1>2, <1>4, <2>2, <2>3, <2>4
<1>6. FlattenSeq(q) = FlattenSeq(p) \o d
  BY <1>3, <1>4, <1>5, FlattenAppend
<1> QED
  BY <1>1, <1>3, <1>6, LoadIs

LEMMA LoadTail ==
    ASSUME NEW f \in Seq(Frames), f # << >>
    PROVE  /\ DataOf(f) = f[1].data \o DataOf(Tail(f)) /\ Tail(f) \in Seq(Frames)
           /\ f[1].data \in Seq(Unit) /\ DataOf(Tail(f)) \in Seq(Unit)
<1>1. PICK m, g, p, q, d : /\ m = Len(f) /\ g = Tail(f) /\ p = Loads(f) /\ q = Loads(g)
                           /\ d = f[1].data
  BY Zenon
<1>2. /\ m \in Nat /\ 1 <= m /\ g \in Seq(Frames) /\ Len(g) = m - 1 /\ f[1] \in Frames
      /\ \A i \in 1 .. m - 1 : g[i] = f[i + 1]
  BY <1>1
<1>3. d \in Seq(Unit)
  BY <1>1, <1>2 DEF Frames
<1>4. /\ p \in Buffers /\ Len(p) = m /\ \A i \in 1 .. m : p[i] = f[i].data
      /\ q \in Buffers /\ Len(q) = m - 1 /\ \A i \in 1 .. m - 1 : q[i] = g[i].data
  BY <1>1, <1>2, LoadsIn
<1>5. PICK e : e = <<d>>
  BY Zenon
<1>6. e \in Buffers /\ FlattenSeq(e) = d /\ Len(e) = 1 /\ e[1] = d
  BY <1>3, <1>5, FlattenOne
<1>7. p = e \o q
  <2>1. PICK S, r : S = Seq(Unit) /\ r = e \o q
    OBVIOUS
  <2>2. p \in Seq(S) /\ q \in Seq(S) /\ e \in Seq(S)
    BY <1>4, <1>6, <2>1 DEF Buffers
  <2>3. /\ r \in Seq(S) /\ Len(r) = m
        /\ \A i \in 1 .. m : r[i] = IF i <= 1 THEN e[i] ELSE q[i - 1]
    <3>1. /\ r \in Seq(S) /\ Len(r) = Len(e) + Len(q)
          /\ \A i \in 1 .. Len(e) + Len(q) : r[i] = IF i <= Len(e) THEN e[i] ELSE q[i - Len(e)]
      BY <2>1, <2>2, ConcatProperties
    <3>2. Len(e) + Len(q) = m
      BY <1>2, <1>4, <1>6
    <3> QED
      BY <1>6, <3>1, <3>2
  <2>4. \A i \in 1 .. m : p[i] = r[i]
    <3> SUFFICES ASSUME NEW i \in 1 .. m PROVE p[i] = r[i]
      OBVIOUS
    <3>1. CASE i = 1
      BY <1>1, <1>4, <1>6, <2>3, <3>1
    <3>2. CASE i # 1
      <4>1. i - 1 \in 1 .. m - 1 /\ ~(i <= 1) /\ (i - 1) + 1 = i
        BY <1>2, <3>2
      <4>2. r[i] = q[i - 1] /\ q[i - 1] = g[i - 1].data /\ g[i - 1] = f[i]
        BY <1>2, <1>4, <2>3, <4>1
      <4> QED
        BY <1>4, <4>2
    <3> QED
      BY <3>1, <3>2
  <2>5. p = r
    BY <1>4, <2>2, <2>3, <2>4
  <2> QED
    BY <2>1, <2>5
<1>8. FlattenSeq(p) = d \o FlattenSeq(q)
  BY <1>4, <1>6, <1>7, FlattenBoth
<1>9. FlattenSeq(q) \in Seq(Unit)
  BY <1>4, FlattenIn
<1> QED
  BY <1>1, <1>2, <1>3, <1>8, <1>9, LoadIs

LEMMA TailAppend ==
    ASSUME NEW f \in Seq(Frames), f # << >>, NEW x \in Frames
    PROVE  /\ Tail(Append(f, x)) = Append(Tail(f), x) /\ Append(f, x)[1] = f[1]
           /\ Tail(f) \in Seq(Frames) /\ Append(f, x) # << >> /\ Append(f, x) \in Seq(Frames)
  OBVIOUS

LEMMA NothingIn ==
    ASSUME NEW a \in Seq(Unit), NEW b \in Seq(Unit), a \o b = << >>
    PROVE  a = << >> /\ b = << >>
<1>1. Len(a) \in Nat /\ Len(b) \in Nat /\ Len(a) + Len(b) = 0
  BY Cat
<1>2. Len(a) = 0 /\ Len(b) = 0
  BY <1>1
<1> QED
  BY <1>2

-----------------------------------------------------------------------------
(* The data of a tunnel.  What the client sent is unread, in clientBuffer, *)
(* on its way up or sent to the target; the request is taken off on its    *)
(* arrival, and until it is answered nothing follows it.                   *)
Waits(w) == \/ w.handler \in {"none", "WaitingRequest"}
            \/ w.handler = "Connecting" /\ ~w.far.localClosed
RequestFirst(f) ==
    f # << >> /\ f[1].kind = "Data" /\ Len(f[1].data) = 2 /\ DataOf(Tail(f)) = << >>
Asked(w) == Talking(w) =>
    /\ w.handler = "none" => /\ NotYet(w.far) /\ w.up # << >> /\ w.up[1].data = << >>
                             /\ RequestFirst(Tail(w.up))
    /\ w.handler = "WaitingRequest" => Standing(w.far) /\ RequestFirst(w.up)
    /\ Waits(w) => w.state = "Connecting" /\ w.down = << >>
    /\ w.handler = "Connecting" /\ ~w.far.localClosed => DataOf(w.up) = << >>

Start(w) == CASE w.state = "Greeting" -> 0
              [] w.state # "Greeting" /\ (w.state = "Request"
                                          \/ w.handler \in {"none", "WaitingRequest"}) -> 2
              [] OTHER -> 4
Gone(w) == Out(w.connector) \o DataOf(w.up)
Flows(w) == ~w.far.localClosed /\ ~w.far.remoteClosed /\ w.state # "Error"
TunnelUp(w, n) ==
    /\ n \in 0 .. 7
    /\ Begins(Out(w.connector), Left(4, 7))
    /\ w.handler = "Connecting" => w.connector.status \notin {"Connected", "Closing"}
    /\ Flows(w) =>
          /\ Start(w) <= n /\ Begins(Gone(w), Left(Start(w), n))
          /\ IsOpen(w.acceptor) =>
                Runs(Gone(w) \o Unread(w), Left(Start(w), n), w.acceptor.reset)
TunnelDown(w, m) ==
    /\ m \in 0 .. 2
    /\ w.connector.inbox \in Seq(Payload)
    /\ Begins(Heard(w.acceptor), TargetScript)
    /\ IsOpen(w.acceptor) =>
          Runs(Heard(w.acceptor) \o (DataIn(DataOf(w.down)) \o w.connector.inbox), Had(m),
               w.connector.reset)
Bare(w) == w.buffer = << >> /\ (w.state = "Error" => ~IsOpen(w.acceptor))
TunnelData(w, n, m) == Bare(w) /\ Asked(w) /\ TunnelUp(w, n) /\ TunnelDown(w, m)

(* What has become of a tunnel when no data moved: its programs are where  *)
(* they were, and its stream no less closed.                               *)
Keeps(w, r) == /\ r.state = w.state /\ r.handler = w.handler /\ r.buffer = w.buffer
               /\ r.clientBuffer = w.clientBuffer
Further(w, r) == /\ w.handler \in {"none", "WaitingRequest"} => r.far = w.far
                 /\ w.far.localClosed => r.far.localClosed
                 /\ w.far.remoteClosed => r.far.remoteClosed
Adds(f, g) == g = f \/ \E x \in Frames : x.data = << >> /\ g = Append(f, x)

LEMMA AddsNothing ==
    ASSUME NEW f \in Seq(Frames), NEW g, Adds(f, g)
    PROVE  /\ g \in Seq(Frames) /\ DataOf(g) = DataOf(f)
           /\ f # << >> => /\ g # << >> /\ g[1] = f[1] /\ Adds(Tail(f), Tail(g))
                           /\ Tail(f) \in Seq(Frames)
<1>1. CASE g = f
  BY <1>1 DEF Adds
<1>2. CASE g # f
  <2>1. PICK x \in Frames : x.data = << >> /\ g = Append(f, x)
    BY <1>2 DEF Adds
  <2>2. DataOf(g) = DataOf(f) \o << >> /\ DataOf(f) \in Seq(Unit)
    BY <2>1, LoadAppend, LoadsIn
  <2>3. DataOf(g) = DataOf(f)
    BY <2>2, Cat
  <2>4. f # << >> => /\ g # << >> /\ g[1] = f[1] /\ Tail(g) = Append(Tail(f), x)
                     /\ Tail(f) \in Seq(Frames)
    BY <2>1, TailAppend
  <2>5. g \in Seq(Frames)
    BY <2>1
  <2> QED
    BY <2>1, <2>3, <2>4, <2>5 DEF Adds
<1> QED
  BY <1>1, <1>2

LEMMA RequestStays ==
    ASSUME NEW f \in Seq(Frames), NEW g, Adds(f, g), RequestFirst(f)
    PROVE  RequestFirst(g)
<1>1. /\ g # << >> /\ g[1] = f[1] /\ Adds(Tail(f), Tail(g)) /\ Tail(f) \in Seq(Frames)
      /\ DataOf(Tail(f)) = << >>
  BY AddsNothing DEF RequestFirst
<1>2. DataOf(Tail(g)) = << >>
  BY <1>1, AddsNothing
<1> QED
  BY <1>1, <1>2 DEF RequestFirst

LEMMA StartIs ==
    ASSUME NEW w
    PROVE  /\ w.state = "Greeting" => Start(w) = 0
           /\ w.state = "Request" => Start(w) = 2
           /\ w.state \in {"Connecting", "Connected"} =>
                 Start(w) = IF w.handler \in {"none", "WaitingRequest"} THEN 2 ELSE 4
           /\ Start(w) \in {0, 2, 4}
  BY DEF Start

LEMMA AskedKept ==
    ASSUME NEW w, NEW o, TunnelHalf(w, o), Asked(w), NEW r, Keeps(w, r), Further(w, r),
           Adds(w.up, r.up),
           r.down = w.down \/ r.far.localClosed
    PROVE  Asked(r)
<1> SUFFICES ASSUME Talking(r)
             PROVE  /\ r.handler = "none" => /\ NotYet(r.far) /\ r.up # << >>
                                             /\ r.up[1].data = << >> /\ RequestFirst(Tail(r.up))
                    /\ r.handler = "WaitingRequest" => Standing(r.far) /\ RequestFirst(r.up)
                    /\ Waits(r) => r.state = "Connecting" /\ r.down = << >>
                    /\ r.handler = "Connecting" /\ ~r.far.localClosed => DataOf(r.up) = << >>
  BY DEF Asked
<1>1. Talking(w) /\ w.up \in Seq(Frames) /\ FarOK(w, o)
  BY TunnelFields DEF Talking, Keeps, TunnelHalf
<1>2. w.handler \in {"none", "WaitingRequest"} => ~w.far.localClosed /\ r.far = w.far
  BY <1>1 DEF FarOK, Further
<1>3. r.handler = "none" => /\ NotYet(r.far) /\ r.up # << >>
                            /\ r.up[1].data = << >> /\ RequestFirst(Tail(r.up))
  <2> SUFFICES ASSUME r.handler = "none"
               PROVE  /\ NotYet(r.far) /\ r.up # << >>
                      /\ r.up[1].data = << >> /\ RequestFirst(Tail(r.up))
    OBVIOUS
  <2>1. /\ NotYet(w.far) /\ w.up # << >> /\ w.up[1].data = << >> /\ RequestFirst(Tail(w.up))
        /\ r.far = w.far
    BY <1>1, <1>2 DEF Asked, Keeps
  <2>2. r.up # << >> /\ r.up[1] = w.up[1] /\ Adds(Tail(w.up), Tail(r.up))
        /\ Tail(w.up) \in Seq(Frames)
    BY <1>1, <2>1, AddsNothing
  <2>3. RequestFirst(Tail(r.up))
    BY <2>1, <2>2, RequestStays
  <2> QED
    BY <2>1, <2>2, <2>3
<1>4. r.handler = "WaitingRequest" => Standing(r.far) /\ RequestFirst(r.up)
  <2> SUFFICES ASSUME r.handler = "WaitingRequest"
               PROVE  Standing(r.far) /\ RequestFirst(r.up)
    OBVIOUS
  <2>1. Standing(w.far) /\ RequestFirst(w.up) /\ r.far = w.far
    BY <1>1, <1>2 DEF Asked, Keeps
  <2> QED
    BY <1>1, <2>1, RequestStays
<1>5. Waits(r) => r.state = "Connecting" /\ r.down = << >>
  <2> SUFFICES ASSUME Waits(r) PROVE r.state = "Connecting" /\ r.down = << >>
    OBVIOUS
  <2>1. Waits(w)
    BY DEF Waits, Keeps, Further
  <2>2. w.state = "Connecting" /\ w.down = << >>
    BY <1>1, <2>1 DEF Asked
  <2>3. ~r.far.localClosed
    BY <1>2 DEF Waits, Keeps
  <2> QED
    BY <2>2, <2>3 DEF Keeps
<1>6. r.handler = "Connecting" /\ ~r.far.localClosed => DataOf(r.up) = << >>
  <2> SUFFICES ASSUME r.handler = "Connecting", ~r.far.localClosed PROVE DataOf(r.up) = << >>
    OBVIOUS
  <2>1. w.handler = "Connecting" /\ ~w.far.localClosed
    BY DEF Keeps, Further
  <2>2. DataOf(w.up) = << >>
    BY <1>1, <2>1 DEF Asked
  <2> QED
    BY <1>1, <2>2, AddsNothing
<1> QED
  BY <1>3, <1>4, <1>5, <1>6

LEMMA UpKept ==
    ASSUME NEW w, NEW o, TunnelHalf(w, o), NEW n, TunnelUp(w, n),
           NEW r, r.state = w.state, r.handler = w.handler, r.clientBuffer = w.clientBuffer,
           w.far.localClosed => r.far.localClosed, w.far.remoteClosed => r.far.remoteClosed,
           DataOf(r.up) = DataOf(w.up), Hears(w.acceptor, r.acceptor),
           Quiet(w.connector, r.connector), r.connector.fd = "closed" => r.far.localClosed
    PROVE  TunnelUp(r, n)
<1>0. SockOK(w.connector) /\ SockOK(r.connector)
  BY TunnelFields DEF Quiet
<1>1. Begins(Out(r.connector), Left(4, 7))
  BY <1>0, BeginsTrans, HeardIn DEF TunnelUp, Quiet
<1>2. ASSUME Flows(r)
      PROVE  /\ Start(r) <= n /\ Begins(Gone(r), Left(Start(r), n))
             /\ IsOpen(r.acceptor) =>
                   Runs(Gone(r) \o Unread(r), Left(Start(r), n), r.acceptor.reset)
  <2>1. Flows(w) /\ Start(r) = Start(w)
    BY <1>2 DEF Flows, Start
  <2>2. Out(r.connector) = Out(w.connector)
    BY <1>2 DEF Flows, Quiet
  <2>3. Gone(r) = Gone(w)
    BY <2>2 DEF Gone
  <2>4. /\ r.acceptor.inbox = w.acceptor.inbox /\ r.acceptor.reset = w.acceptor.reset
        /\ IsOpen(r.acceptor) => IsOpen(w.acceptor)
    <3>1. w.acceptor.fd \in {"open", "closed"}
      BY TunnelFields
    <3> QED
      BY <3>1 DEF Hears, IsOpen
  <2>5. Unread(r) = Unread(w)
    BY <2>4 DEF Unread
  <2> QED
    BY <2>1, <2>3, <2>4, <2>5 DEF TunnelUp
<1>3. r.handler = "Connecting" => r.connector.status \notin {"Connected", "Closing"}
  BY DEF TunnelUp, Quiet
<1> QED
  BY <1>1, <1>2, <1>3 DEF TunnelUp

LEMMA DownKept ==
    ASSUME NEW w, NEW o, TunnelHalf(w, o), NEW m, TunnelDown(w, m),
           NEW r, Hears(w.acceptor, r.acceptor), DataOf(r.down) = DataOf(w.down),
           r.connector.inbox = w.connector.inbox, r.connector.reset = w.connector.reset
    PROVE  TunnelDown(r, m)
<1>0. SockOK(w.acceptor) /\ SockOK(r.acceptor) /\ w.acceptor.fd \in {"open", "closed"}
  BY TunnelFields DEF Hears
<1>1. Begins(Heard(r.acceptor), TargetScript)
  BY <1>0, BeginsTrans, HeardIn DEF TunnelDown, Hears
<1>2. ASSUME IsOpen(r.acceptor)
      PROVE  IsOpen(w.acceptor) /\ Heard(r.acceptor) = Heard(w.acceptor)
  BY <1>0, <1>2 DEF Hears, IsOpen
<1> QED
  BY <1>1, <1>2 DEF TunnelDown

LEMMA TunnelQuiet ==
    ASSUME NEW w, NEW o, TunnelHalf(w, o), NEW n, NEW m, TunnelData(w, n, m),
           NEW r, Keeps(w, r), Further(w, r), Adds(w.up, r.up),
           r.down = w.down \/ (Adds(w.down, r.down) /\ r.far.localClosed),
           Hears(w.acceptor, r.acceptor), Quiet(w.connector, r.connector),
           r.connector.fd = "closed" => r.far.localClosed
    PROVE  TunnelData(r, n, m)
<1>1. w.up \in Seq(Frames) /\ w.down \in Seq(Frames) /\ w.acceptor.fd \in {"open", "closed"}
  BY TunnelFields
<1>2. DataOf(r.up) = DataOf(w.up) /\ DataOf(r.down) = DataOf(w.down)
  BY <1>1, AddsNothing DEF Adds
<1>3. Asked(r)
  BY AskedKept DEF TunnelData
<1>4. TunnelUp(r, n)
  <2>1. TunnelUp(w, n) /\ r.state = w.state /\ r.handler = w.handler
        /\ r.clientBuffer = w.clientBuffer
        /\ (w.far.localClosed => r.far.localClosed) /\ (w.far.remoteClosed => r.far.remoteClosed)
    BY DEF TunnelData, Keeps, Further
  <2> QED
    BY <1>2, <2>1, UpKept
<1>5. TunnelDown(r, m)
  <2>1. r.connector.inbox = w.connector.inbox /\ r.connector.reset = w.connector.reset
    BY DEF Quiet
  <2> QED
    BY <1>2, <2>1, DownKept DEF TunnelData
<1>6. Bare(r)
  BY <1>1 DEF TunnelData, Bare, Keeps, Hears, IsOpen
<1> QED
  BY <1>3, <1>4, <1>5, <1>6 DEF TunnelData

(* What the callbacks of a socket make of a tunnel.                        *)
LEMMA NearClosed ==
    ASSUME NEW w, NEW o, TunnelHalf(w, o), Standing(w.near)
    PROVE  LET r == CloseStream(w, "near", TRUE)
           IN  /\ r.acceptor = w.acceptor /\ r.connector = w.connector /\ Keeps(w, r)
               /\ r.far = w.far /\ r.down = w.down /\ Adds(w.up, r.up)
<1>0. w \in TunnelObjs
  BY DEF TunnelHalf
<1>1. PICK n : n = [w.near EXCEPT !.localClosed = TRUE]
  OBVIOUS
<1>2. n \in Streams
  BY <1>1, TunnelFields DEF Streams
<1>3. << >> \in Seq(Unit) /\ "RST" \in Kinds
  BY Cat DEF Kinds
<1>4. PICK x : x = Frame("RST", << >>)
  OBVIOUS
<1>5. x \in Frames /\ x.data = << >>
  BY <1>3, <1>4, FrameIn
<1>6. PICK g : g = Append(w.up, x)
  OBVIOUS
<1>7. g \in Seq(Frames) /\ Adds(w.up, g)
  BY <1>5, <1>6, TunnelFields DEF Adds
<1>8. PICK v : v = [w EXCEPT !.near = n]
  OBVIOUS
<1>9. PICK r : r = CloseStream(w, "near", TRUE)
  OBVIOUS
<1>10. r = Put([w EXCEPT !["near"].localClosed = TRUE], "near", Frame("RST", << >>))
  BY <1>9, TunnelFields DEF CloseStream, Standing
<1>11. /\ v \in TunnelObjs /\ v.acceptor = w.acceptor /\ v.connector = w.connector
       /\ v.state = w.state /\ v.handler = w.handler /\ v.buffer = w.buffer
       /\ v.clientBuffer = w.clientBuffer /\ v.far = w.far /\ v.up = w.up /\ v.down = w.down
  BY <1>0, <1>2, <1>8, SetNear
<1>12. r = [v EXCEPT !.up = g]
  <2>1. [w EXCEPT !["near"].localClosed = TRUE] = v
    BY <1>1, <1>8
  <2> QED
    BY <1>4, <1>6, <1>10, <1>11, <2>1 DEF Put
<1>13. /\ r.acceptor = w.acceptor /\ r.connector = w.connector
       /\ r.state = w.state /\ r.handler = w.handler /\ r.buffer = w.buffer
       /\ r.clientBuffer = w.clientBuffer /\ r.far = w.far /\ r.up = g /\ r.down = w.down
  BY <1>7, <1>11, <1>12, SetUp
<1> QED
  BY <1>7, <1>9, <1>13 DEF Keeps

LEMMA FarClosed ==
    ASSUME NEW w, NEW o, TunnelHalf(w, o), ~IsOpen(w.connector), w.far.known,
           ~w.far.localClosed, w.handler \in {"Connecting", "Connected"}
    PROVE  LET r == CloseStream(w, "far", FALSE)
           IN  /\ r.acceptor = w.acceptor /\ r.connector = w.connector /\ Keeps(w, r)
               /\ r.far.localClosed /\ Further(w, r) /\ r.up = w.up /\ Adds(w.down, r.down)
<1>0. w \in TunnelObjs
  BY DEF TunnelHalf
<1>3. << >> \in Seq(Unit) /\ "FIN" \in Kinds
  BY Cat DEF Kinds
<1>4. PICK x : x = Frame("FIN", << >>)
  OBVIOUS
<1>5. x \in Frames /\ x.data = << >>
  BY <1>3, <1>4, FrameIn
<1>6. PICK g : g = Append(w.down, x)
  OBVIOUS
<1>7. g \in Seq(Frames) /\ Adds(w.down, g)
  BY <1>5, <1>6, TunnelFields DEF Adds
<1>9. PICK r : r = CloseStream(w, "far", FALSE)
  OBVIOUS
<1>10. PICK c : c = Put([w EXCEPT !["far"].localClosed = TRUE], "far", Frame("FIN", << >>))
  OBVIOUS
<1>f. PICK f : /\ f.localClosed /\ f.remoteClosed = w.far.remoteClosed
               /\ r.acceptor = w.acceptor /\ r.connector = w.connector
               /\ r.state = w.state /\ r.handler = w.handler /\ r.buffer = w.buffer
               /\ r.clientBuffer = w.clientBuffer /\ r.far = f /\ r.up = w.up /\ r.down = g
  <2>1. PICK n : n = [w.far EXCEPT !.localClosed = TRUE]
    OBVIOUS
  <2>2. n \in Streams /\ n.localClosed /\ n.remoteClosed = w.far.remoteClosed
    BY <2>1, TunnelFields DEF Streams
  <2>3. PICK v : v = [w EXCEPT !.far = n]
    BY Zenon
  <2>4. /\ v \in TunnelObjs /\ v.acceptor = w.acceptor /\ v.connector = w.connector
        /\ v.state = w.state /\ v.hasStreamId = w.hasStreamId /\ v.handler = w.handler
        /\ v.buffer = w.buffer /\ v.clientBuffer = w.clientBuffer /\ v.far = n
        /\ v.up = w.up /\ v.down = w.down
    BY <1>0, <2>2, <2>3, SetFar
  <2>5. c = [v EXCEPT !.down = g]
    <3>1. [w EXCEPT !["far"].localClosed = TRUE] = v
      BY <2>1, <2>3
    <3> QED
      BY <1>4, <1>6, <1>10, <2>4, <3>1, Zenon DEF Put
  <2>6. /\ c \in TunnelObjs /\ c.acceptor = w.acceptor /\ c.connector = w.connector
        /\ c.state = w.state /\ c.hasStreamId = w.hasStreamId /\ c.handler = w.handler
        /\ c.buffer = w.buffer /\ c.clientBuffer = w.clientBuffer /\ c.far = n
        /\ c.up = w.up /\ c.down = g
    BY <1>7, <2>4, <2>5, SetDown
  <2>7. CASE ~w.far.remoteClosed
    <3>1. r = c
      BY <1>9, <1>10, <2>7, TunnelFields DEF CloseStream
    <3> QED
      BY <2>2, <2>6, <3>1
  <2>8. CASE w.far.remoteClosed
    <3>1. r = [c EXCEPT !["connector"] = Close(@, TRUE), !["far"].known = FALSE,
                        !.hasStreamId = @ /\ "far" # "near"]
      BY <1>9, <1>10, <2>8, TunnelFields DEF CloseStream
    <3>2. PICK m : m = [n EXCEPT !.known = FALSE]
      OBVIOUS
    <3>3. m \in Streams /\ m.localClosed /\ m.remoteClosed = w.far.remoteClosed
      BY <2>2, <3>2 DEF Streams
    <3>4. Close(c.connector, TRUE) = c.connector
      BY <2>6 DEF Close
    <3>5. r = [c EXCEPT !.connector = c.connector, !.far = m, !.hasStreamId = c.hasStreamId]
      BY <2>6, <3>1, <3>2, <3>4 DEF TunnelObjs
    <3>6. /\ r.acceptor = w.acceptor /\ r.connector = w.connector
          /\ r.state = w.state /\ r.handler = w.handler /\ r.buffer = w.buffer
          /\ r.clientBuffer = w.clientBuffer /\ r.far = m /\ r.up = w.up /\ r.down = g
      BY <2>6, <3>3, <3>5, TunnelFields DEF TunnelObjs
    <3> QED
      BY <3>3, <3>6
  <2> QED
    BY <2>7, <2>8
<1>14. Further(w, r)
  BY <1>f DEF Further
<1> QED
  BY <1>7, <1>9, <1>f, <1>14 DEF Keeps

LEMMA NearShape ==
    ASSUME NEW w, NEW o, TunnelOK(w, o), NEW s, Op(w.acceptor, s)
    PROVE  LET r == Update(w, "acceptor", s)
           IN  /\ TunnelOK(r, o) /\ r.acceptor = s /\ r.connector = w.connector /\ Keeps(w, r)
               /\ r.far = w.far /\ r.down = w.down /\ Adds(w.up, r.up)
<1>0. /\ w \in TunnelObjs /\ TunnelHalf(w, o) /\ w["acceptor"] = w.acceptor
      /\ SockOK(s) /\ SockOK(w.acceptor) /\ s \in Socket
  BY TunnelFields DEF TunnelOK, TunnelHalf, Op, SockOK
<1>2. PICK v : v = [w EXCEPT !.acceptor = s]
  OBVIOUS
<1>3. /\ v.acceptor = s /\ v.connector = w.connector /\ v.state = w.state
      /\ v.handler = w.handler /\ v.buffer = w.buffer /\ v.clientBuffer = w.clientBuffer
      /\ v.far = w.far /\ v.near = w.near /\ v.up = w.up /\ v.down = w.down
      /\ v.hasStreamId = w.hasStreamId /\ v \in TunnelObjs
  BY <1>0, <1>2, SetAcceptor
<1>9. PICK r : r = Update(w, "acceptor", s)
  OBVIOUS
<1>8. TunnelOK(r, o)
  BY <1>9, UpdateNear
<1>10. CASE s.status = "Closed" /\ w.acceptor.fd = "open" /\ w.hasStreamId
  <2>1. r = CloseStream(v, "near", TRUE)
    BY <1>0, <1>2, <1>9, <1>10 DEF Update
  <2>2. TunnelHalf(v, o)
    <3>1. ~IsOpen(s) /\ s.fd = "closed"
      BY <1>0, <1>10 DEF Op, SockOK, IsOpen
    <3>2. EndsOK(v)
      BY <1>0, <1>3, <1>10, <3>1 DEF TunnelHalf, EndsOK, PausesAlone
    <3>3. Talking(w)
      BY <1>0, <1>10 DEF TunnelHalf, Unopened
    <3>4. LinesOK(v) /\ Talking(v) /\ NearOK(v) /\ FarOK(v, o)
      BY <1>0, <1>3, <3>1, <3>3 DEF TunnelHalf, LinesOK, NearOK, FarOK, Talking
    <3> QED
      BY <1>0, <1>3, <3>2, <3>4 DEF TunnelHalf
  <2>3. Standing(v.near)
    BY <1>0, <1>3, <1>10 DEF TunnelHalf, Unopened, NearOK, IsOpen
  <2>4. /\ r.acceptor = v.acceptor /\ r.connector = v.connector /\ Keeps(v, r)
        /\ r.far = v.far /\ r.down = v.down /\ Adds(v.up, r.up)
    BY <2>1, <2>2, <2>3, NearClosed
  <2> QED
    BY <1>3, <1>8, <1>9, <2>4 DEF Keeps
<1>11. CASE ~(s.status = "Closed" /\ w.acceptor.fd = "open" /\ w.hasStreamId)
  <2>1. r = v
    BY <1>0, <1>2, <1>9, <1>11 DEF Update
  <2> QED
    BY <1>3, <1>8, <1>9, <2>1 DEF Keeps, Adds
<1> QED
  BY <1>10, <1>11

LEMMA FarShape ==
    ASSUME NEW w, NEW o, TunnelOK(w, o), NEW s, Op(w.connector, s)
    PROVE  LET r == Update(w, "connector", s)
           IN  /\ TunnelOK(r, o) /\ r.connector = s /\ r.acceptor = w.acceptor /\ Keeps(w, r)
               /\ Further(w, r) /\ r.up = w.up
               /\ r.down = w.down \/ (Adds(w.down, r.down) /\ r.far.localClosed)
               /\ s.fd = "closed" => r.far.localClosed
               /\ IsOpen(s) => r.far = w.far
<1>0. /\ w \in TunnelObjs /\ TunnelHalf(w, o) /\ w["connector"] = w.connector
      /\ SockOK(s) /\ SockOK(w.connector) /\ s \in Socket /\ Told(w)
  BY TunnelFields DEF TunnelOK, TunnelHalf, Op, SockOK
<1>2. PICK v : v = [w EXCEPT !.connector = s]
  OBVIOUS
<1>3. /\ v.connector = s /\ v.acceptor = w.acceptor /\ v.state = w.state
      /\ v.handler = w.handler /\ v.buffer = w.buffer /\ v.clientBuffer = w.clientBuffer
      /\ v.far = w.far /\ v.near = w.near /\ v.up = w.up /\ v.down = w.down
      /\ v.hasStreamId = w.hasStreamId /\ v \in TunnelObjs
  BY <1>0, <1>2, SetConnector
<1>9. PICK r : r = Update(w, "connector", s)
  OBVIOUS
<1>8. TunnelOK(r, o)
  BY <1>9, UpdateFar
<1>10. CASE s.status = "Closed" /\ w.connector.fd = "open"
  <2>1. r = CloseStream(v, "far", FALSE)
    BY <1>0, <1>2, <1>9, <1>10 DEF Update
  <2>2. ~IsOpen(s) /\ s.fd = "closed"
    BY <1>0, <1>10 DEF Op, SockOK, IsOpen
  <2>3. Talking(w)
    BY <1>0, <1>10 DEF TunnelHalf, Unopened
  <2>4. FarOK(w, o)
    BY <1>0, <2>3 DEF TunnelHalf
  <2>5. w.handler \notin {"none", "WaitingRequest"} /\ ~w.far.localClosed
    BY <1>10, <2>4 DEF FarOK, IsOpen
  <2>6. w.far.known /\ w.handler \in {"Connecting", "Connected"}
    BY <1>0, <2>4, <2>5, TunnelFields DEF FarOK, Handlers
  <2>7. TunnelHalf(v, o)
    <3>1. EndsOK(v)
      BY <1>0, <1>3, <2>2 DEF TunnelHalf, EndsOK, PausesAlone
    <3>2. LinesOK(v) /\ Talking(v) /\ NearOK(v)
      BY <1>0, <1>3, <2>3 DEF TunnelHalf, LinesOK, NearOK, Talking
    <3>3. s.status \notin {"Ready", "Connecting"}
      BY <1>10
    <3>4. FarOK(v, o)
      BY <1>3, <2>2, <2>4, <2>5, <3>3 DEF FarOK
    <3> QED
      BY <1>0, <1>3, <3>1, <3>2, <3>4 DEF TunnelHalf
  <2>8. /\ r.acceptor = v.acceptor /\ r.connector = v.connector /\ Keeps(v, r)
        /\ r.far.localClosed /\ Further(v, r) /\ r.up = v.up /\ Adds(v.down, r.down)
    BY <1>3, <2>1, <2>2, <2>5, <2>6, <2>7, FarClosed
  <2>9. Keeps(w, r) /\ Further(w, r)
    BY <1>3, <2>8 DEF Keeps, Further
  <2> QED
    BY <1>3, <1>8, <1>9, <2>2, <2>8, <2>9
<1>11. CASE ~(s.status = "Closed" /\ w.connector.fd = "open")
  <2>1. r = v
    BY <1>0, <1>2, <1>9, <1>11 DEF Update
  <2>2. Keeps(w, r) /\ Further(w, r)
    BY <1>3, <2>1 DEF Keeps, Further
  <2>3. s.fd = "closed" => w.connector.fd = "closed"
    BY <1>0, <1>11 DEF Op, SockOK, IsOpen
  <2>4. w.connector.fd = "closed" => w.far.localClosed
    BY <1>0 DEF Told, TunnelHalf, Unopened
  <2> QED
    BY <1>3, <1>8, <1>9, <2>1, <2>2, <2>3, <2>4
<1> QED
  BY <1>10, <1>11

LEMMA FarKnown ==
    ASSUME NEW w, NEW o, TunnelOK(w, o)
    PROVE  /\ TunnelHalf(w, o) /\ SockOK(w.acceptor) /\ SockOK(w.connector)
           /\ w.connector.fd = "closed" => w.far.localClosed
<1>1. TunnelHalf(w, o) /\ Told(w)
  BY DEF TunnelOK
<1>2. w.connector.fd = "closed" => w.far.localClosed
  BY <1>1 DEF Told, TunnelHalf, Unopened
<1> QED
  BY <1>1, <1>2, TunnelFields

LEMMA NearQuiet ==
    ASSUME NEW w, NEW o, TunnelOK(w, o), NEW n, NEW m, TunnelData(w, n, m),
           NEW s, Op(w.acceptor, s), Hears(w.acceptor, s)
    PROVE  LET r == Update(w, "acceptor", s) IN TunnelData(r, n, m)
<1>1. PICK r : r = Update(w, "acceptor", s)
  OBVIOUS
<1>2. /\ TunnelHalf(w, o) /\ SockOK(w.connector)
      /\ (w.connector.fd = "closed" => w.far.localClosed)
  BY FarKnown
<1>3. /\ r.acceptor = s /\ r.connector = w.connector /\ Keeps(w, r)
      /\ r.far = w.far /\ r.down = w.down /\ Adds(w.up, r.up)
  BY <1>1, NearShape
<1>4. Quiet(w.connector, r.connector) /\ Further(w, r) /\ Hears(w.acceptor, r.acceptor)
      /\ (r.connector.fd = "closed" => r.far.localClosed)
  BY <1>2, <1>3, QuietSame DEF Further
<1> QED
  BY <1>1, <1>2, <1>3, <1>4, TunnelQuiet

LEMMA FarQuiet ==
    ASSUME NEW w, NEW o, TunnelOK(w, o), NEW n, NEW m, TunnelData(w, n, m),
           NEW s, Op(w.connector, s), Quiet(w.connector, s)
    PROVE  LET r == Update(w, "connector", s) IN TunnelData(r, n, m)
<1>1. PICK r : r = Update(w, "connector", s)
  OBVIOUS
<1>2. TunnelHalf(w, o) /\ SockOK(w.acceptor)
  BY FarKnown
<1>3. /\ r.connector = s /\ r.acceptor = w.acceptor /\ Keeps(w, r)
      /\ Further(w, r) /\ r.up = w.up
      /\ (r.down = w.down \/ (Adds(w.down, r.down) /\ r.far.localClosed))
      /\ (s.fd = "closed" => r.far.localClosed)
  BY <1>1, FarShape
<1>4. Hears(w.acceptor, r.acceptor) /\ Adds(w.up, r.up) /\ Quiet(w.connector, r.connector)
      /\ (r.connector.fd = "closed" => r.far.localClosed)
  BY <1>2, <1>3, QuietSame DEF Adds
<1> QED
  BY <1>1, <1>2, <1>3, <1>4, TunnelQuiet

LEMMA SideQuiet ==
    ASSUME NEW w, NEW o, TunnelOK(w, o), NEW n, NEW m, TunnelData(w, n, m),
           NEW side \in Sides, NEW s, Op(w[side], s), Quiet(w[side], s)
    PROVE  LET r == Update(w, side, s) IN TunnelData(r, n, m)
<1>0. /\ SockOK(w.acceptor) /\ SockOK(w.connector)
      /\ w["acceptor"] = w.acceptor /\ w["connector"] = w.connector
  BY FarKnown, TunnelFields
<1>1. CASE side = "acceptor"
  <2>1. Op(w.acceptor, s) /\ Hears(w.acceptor, s)
    BY <1>0, <1>1, QuietHears
  <2>2. PICK r : r = Update(w, "acceptor", s)
    OBVIOUS
  <2>3. TunnelData(r, n, m)
    BY <2>1, <2>2, NearQuiet
  <2> QED
    BY <1>1, <2>2, <2>3
<1>2. CASE side = "connector"
  <2>1. Op(w.connector, s) /\ Quiet(w.connector, s)
    BY <1>0, <1>2
  <2>2. PICK r : r = Update(w, "connector", s)
    OBVIOUS
  <2>3. TunnelData(r, n, m)
    BY <2>1, <2>2, FarQuiet
  <2> QED
    BY <1>2, <2>2, <2>3
<1> QED
  BY <1>1, <1>2, TwoSides

LEMMA RefilledIs ==
    ASSUME NEW w, NEW o, TunnelOK(w, o), NEW side \in Sides, Writable(w[side])
    PROVE  Refilled(Update(w, side, OnWritable(w[side])), side)
              = Update(w, side, Drained(w[side]))
<1>1. PICK s, t, d : s = w[side] /\ t = OnWritable(w[side]) /\ d = Drained(w[side])
  OBVIOUS
<1>2. w \in TunnelObjs /\ side \in DOMAIN w
  BY TwoSides DEF TunnelOK, TunnelHalf, TunnelObjs
<1>3. SockOK(s) /\ Writable(s)
  BY <1>1, TwoSides, TunnelFields DEF TunnelOK
<1>4. Op(s, d)
  BY <1>1, <1>3, DrainedOp
<1>5. SockOK(t)
  BY <1>1, <1>3, WritableOp
<1>6. Update(w, side, d)[side] = d
  BY <1>1, <1>4, TunnelUpdate
<1>7. PICK v : v = Update(w, side, t)
  OBVIOUS
<1>8. CASE ResumesReading(t)
  <2>1. PICK u : u = [t EXCEPT !.readPaused = FALSE]
    OBVIOUS
  <2>2. u = d /\ u.status = t.status /\ t.status # "Closed"
    BY <1>1, <1>5, <1>8, <2>1 DEF Drained, ResumesReading, IsOpen, SockOK, Socket
  <2>3. v = [w EXCEPT ![side] = t] /\ Update(w, side, u) = [w EXCEPT ![side] = u]
    BY <1>7, <2>2 DEF Update
  <2>4. v[side] = t
    BY <1>2, <2>3
  <2>5. Refilled(v, side) = Update(v, side, u)
    BY <1>8, <2>1, <2>4 DEF Refilled
  <2>6. Update(v, side, u) = [v EXCEPT ![side] = u]
    BY <2>2 DEF Update
  <2>7. [v EXCEPT ![side] = u] = [w EXCEPT ![side] = u]
    BY <1>2, <2>3
  <2> QED
    BY <1>1, <1>7, <2>2, <2>3, <2>5, <2>6, <2>7
<1>9. CASE ~ResumesReading(t)
  <2>1. d = t
    BY <1>1, <1>9 DEF Drained
  <2>2. v[side] = t
    BY <1>6, <1>7, <2>1
  <2>3. Refilled(v, side) = v
    BY <1>9, <2>2 DEF Refilled
  <2> QED
    BY <1>1, <1>7, <2>1, <2>3
<1> QED
  BY <1>8, <1>9

LEMMA TunnelEventData ==
    ASSUME TunnelInv(obj, orphan), NEW n, NEW m, TunnelData(obj, n, m), NEW side \in Sides,
           WritableEvent(side) \/ FinishedEvent(side) \/ FailureEvent(side)
    PROVE  TunnelData(obj', n, m)
<1>1. SockOK(obj[side]) /\ TunnelOK(obj, orphan)
  BY TwoSides, TunnelIs
<1>2. CASE WritableEvent(side)
  <2>1. PICK w : w = Update(obj, side, OnWritable(obj[side]))
    OBVIOUS
  <2>2. Writable(obj[side]) /\ Becomes(Refilled(w, side))
    BY <1>2, <2>1, TunnelIs DEF WritableEvent, After, Refilled
  <2>3. PICK s : s = Drained(obj[side])
    OBVIOUS
  <2>4. Op(obj[side], s) /\ Quiet(obj[side], s)
    BY <1>1, <2>2, <2>3, DrainedOp, QuietDrained
  <2>5. Refilled(w, side) = Update(obj, side, s)
    BY <1>1, <2>1, <2>2, <2>3, RefilledIs
  <2>6. PICK r : r = Update(obj, side, s)
    OBVIOUS
  <2>7. TunnelData(r, n, m)
    BY <1>1, <2>4, <2>6, SideQuiet
  <2> QED
    BY <2>2, <2>5, <2>6, <2>7 DEF Becomes
<1>3. CASE FinishedEvent(side)
  <2>1. PICK s : s = OnFinished(obj[side])
    OBVIOUS
  <2>2. Finished(obj[side]) /\ Becomes(Update(obj, side, s))
    BY <1>3, <2>1, TunnelIs DEF FinishedEvent, After
  <2>3. Op(obj[side], s) /\ Quiet(obj[side], s)
    BY <1>1, <2>1, <2>2, FinishedOp, QuietFinished
  <2>4. PICK r : r = Update(obj, side, s)
    OBVIOUS
  <2>5. TunnelData(r, n, m)
    BY <1>1, <2>3, <2>4, SideQuiet
  <2> QED
    BY <2>2, <2>4, <2>5 DEF Becomes
<1>4. CASE FailureEvent(side)
  <2>1. PICK s : s = Close(obj[side], TRUE)
    OBVIOUS
  <2>2. Becomes(Update(obj, side, s))
    BY <1>4, <2>1, TunnelIs DEF FailureEvent, After
  <2>3. Op(obj[side], s) /\ Quiet(obj[side], s)
    <3>1. TRUE \in BOOLEAN
      OBVIOUS
    <3> QED
      BY <1>1, <2>1, <3>1, CloseOp, QuietClose
  <2>4. PICK r : r = Update(obj, side, s)
    OBVIOUS
  <2>5. TunnelData(r, n, m)
    BY <1>1, <2>3, <2>4, SideQuiet
  <2> QED
    BY <2>2, <2>4, <2>5 DEF Becomes
<1> QED
  BY <1>2, <1>3, <1>4

(* A tunnel of which a peer has changed one socket.                        *)
Peer(w, r) == Keeps(w, r) /\ r.far = w.far /\ r.up = w.up /\ r.down = w.down

LEMMA PeerAsked ==
    ASSUME NEW w, NEW o, TunnelHalf(w, o), Asked(w), NEW r, Peer(w, r)
    PROVE  Asked(r)
<1>1. Keeps(w, r) /\ Further(w, r) /\ Adds(w.up, r.up) /\ r.down = w.down
  BY DEF Peer, Further, Adds
<1> QED
  BY <1>1, AskedKept

LEMMA GoneIn ==
    ASSUME NEW w, NEW o, TunnelHalf(w, o)
    PROVE  /\ Gone(w) \in Seq(Unit) /\ DataOf(w.up) \in Seq(Unit) /\ DataOf(w.down) \in Seq(Unit)
           /\ Unread(w) \in Seq(Unit) /\ Out(w.connector) \in Seq(Unit)
           /\ Heard(w.acceptor) \in Seq(Unit) /\ w.acceptor.inbox \in Seq(Unit)
           /\ w.connector.inbox \in Seq(Unit) /\ w.clientBuffer \in Seq(Unit)
<1>1. /\ SockOK(w.acceptor) /\ SockOK(w.connector) /\ w.up \in Seq(Frames)
      /\ w.down \in Seq(Frames) /\ w.clientBuffer \in Seq(Unit)
  BY TunnelFields
<1>2. /\ Out(w.connector) \in Seq(Unit) /\ Heard(w.acceptor) \in Seq(Unit)
      /\ w.acceptor.inbox \in Seq(Unit) /\ w.connector.inbox \in Seq(Unit)
  BY <1>1, HeardIn
<1>3. DataOf(w.up) \in Seq(Unit) /\ DataOf(w.down) \in Seq(Unit)
  BY <1>1, LoadsIn
<1>4. Gone(w) \in Seq(Unit) /\ Unread(w) \in Seq(Unit)
  BY <1>1, <1>2, <1>3, Cat DEF Gone, Unread
<1> QED
  BY <1>1, <1>2, <1>3, <1>4

LEMMA StartIn ==
    ASSUME NEW w
    PROVE  Start(w) \in {0, 2, 4} /\ Start(w) \in 0 .. 7
  BY StartIs

LEMMA TunnelClientSends ==
    ASSUME NEW w, NEW o, TunnelHalf(w, o), NEW n \in 0 .. 6, NEW m, TunnelData(w, n, m),
           NEW s, Beneath(w.acceptor, s), ~w.acceptor.reset, ~s.reset,
           s.inbox = w.acceptor.inbox \o <<ClientScript[n + 1]>>,
           NEW r, Peer(w, r), r.acceptor = s, r.connector = w.connector
    PROVE  TunnelData(r, n + 1, m)
<1>1. PICK u, g, a, k, j : /\ u = <<ClientScript[n + 1]>> /\ g = Gone(w) /\ a = Unread(w)
                           /\ k = Start(w) /\ j = n + 1
  OBVIOUS
<1>2. /\ g \in Seq(Unit) /\ a \in Seq(Unit) /\ k \in 0 .. 7 /\ j \in 0 .. 7 /\ n < j /\ n \in 0 .. 7
      /\ SockOK(w.acceptor) /\ Gone(r) = g /\ Start(r) = k
  BY <1>1, GoneIn, StartIn, TunnelFields DEF Peer, Keeps, Gone, Start
<1>3. 0 \in 0 .. 7 /\ 0 <= n
  OBVIOUS
<1>4. u \in Seq(Unit)
  BY <1>1, <1>3, LeftMore, Zenon
<1>5. Unread(r) = a \o u
  <2>1. PICK b \in Seq(Unit) : b = w.clientBuffer
    BY GoneIn
  <2>2. PICK i \in Seq(Unit) : i = w.acceptor.inbox
    BY GoneIn, Zenon
  <2>3. (b \o i) \o u = b \o (i \o u)
    <3>1. Reassoc(b, i, u)
      BY <1>4, CatAssoc, Zenon
    <3> QED
      BY <3>1, Zenon DEF Reassoc
  <2> QED
    BY <1>1, <2>1, <2>2, <2>3, Zenon DEF Unread, Peer, Keeps
<1>6. ASSUME Flows(r)
      PROVE  /\ k <= j /\ Begins(g, Left(k, j))
             /\ IsOpen(s) => Runs(g \o Unread(r), Left(k, j), s.reset)
  <2>1. Flows(w)
    BY <1>6 DEF Flows, Peer, Keeps
  <2>2. /\ k <= n /\ Begins(g, Left(k, n))
        /\ IsOpen(w.acceptor) => g \o a = Left(k, n)
    BY <1>1, <2>1 DEF TunnelData, TunnelUp, Runs
  <2>3. k <= j
    BY <1>2, <2>2
  <2>4. PICK x, y : x = Left(k, n) /\ y = Left(k, j)
    OBVIOUS
  <2>5. y = x \o u
    BY <1>1, <1>2, <2>2, <2>4, LeftMore
  <2>6. x \in Seq(Unit) /\ y \in Seq(Unit)
    BY <1>2, <2>2, <2>3, <2>4, Units, Zenon
  <2>7. Begins(x, y)
    BY <1>4, <2>5, <2>6, BeginsMore
  <2>8. Begins(g, y)
    BY <1>2, <2>2, <2>4, <2>6, <2>7, BeginsTrans
  <2>9. IsOpen(s) => g \o Unread(r) = y
    <3> SUFFICES ASSUME IsOpen(s) PROVE g \o Unread(r) = y
      OBVIOUS
    <3>1. IsOpen(w.acceptor)
      BY DEF Beneath, IsOpen
    <3>2. (g \o a) \o u = g \o (a \o u)
      <4>1. g \in Seq(Unit) /\ a \in Seq(Unit)
        BY <1>2
      <4>2. Reassoc(g, a, u)
        BY <1>4, <4>1, CatAssoc, Zenon
      <4> QED
        BY <4>2, Zenon DEF Reassoc
    <3> QED
      BY <1>5, <2>2, <2>4, <2>5, <3>1, <3>2
  <2>10. Begins(y, y)
    BY <2>6, BeginsSelf
  <2> QED
    BY <2>3, <2>4, <2>8, <2>9, <2>10 DEF Runs
<1>7. TunnelUp(r, j)
  BY <1>2, <1>6 DEF TunnelData, TunnelUp, Peer, Keeps
<1>8. Asked(r)
  BY PeerAsked DEF TunnelData
<1>9. Heard(s) = Heard(w.acceptor) /\ s.fd = w.acceptor.fd
  BY <1>2, BeneathSame
<1>10. TunnelDown(r, m)
  BY <1>9 DEF TunnelData, TunnelDown, Peer, IsOpen
<1>11. Bare(r)
  BY <1>9 DEF TunnelData, Bare, Peer, Keeps, IsOpen
<1> QED
  BY <1>1, <1>7, <1>8, <1>10, <1>11 DEF TunnelData

LEMMA TunnelTargetSends ==
    ASSUME NEW w, NEW o, TunnelHalf(w, o), NEW n, NEW m \in 0 .. 1, TunnelData(w, n, m),
           NEW s, Beneath(w.connector, s), ~w.connector.reset, ~s.reset,
           s.inbox = w.connector.inbox \o <<TargetScript[m + 1]>>,
           NEW r, Peer(w, r), r.connector = s, r.acceptor = w.acceptor
    PROVE  TunnelData(r, n, m + 1)
<1>1. PICK u, in, h, d, j : /\ u = <<TargetScript[m + 1]>> /\ in = w.connector.inbox
                            /\ h = Heard(w.acceptor) /\ d = DataIn(DataOf(w.down)) /\ j = m + 1
  OBVIOUS
<1>2. /\ in \in Seq(Payload) /\ in \in Seq(Unit) /\ h \in Seq(Unit) /\ d \in Seq(Unit)
      /\ SockOK(w.connector)
  BY <1>1, GoneIn, TunnelFields, DataTyped DEF TunnelData, TunnelDown
<1>3. /\ u \in Seq(Payload) /\ u \in Seq(Unit) /\ Had(j) = Had(m) \o u /\ j \in 0 .. 2
      /\ Had(j) \in Seq(Unit)
  <2>1. m \in 0 .. 2 /\ m < 2 /\ j \in 0 .. 2
    BY <1>1
  <2> QED
    BY <1>1, <2>1, HadIs, PayloadUnits
<1>4. s.inbox = in \o u /\ in \o u \in Seq(Payload)
  BY <1>1, <1>2, <1>3
<1>5. (h \o (d \o in)) \o u = h \o (d \o (in \o u))
  <2>0. d \in Seq(Unit) /\ in \in Seq(Unit) /\ u \in Seq(Unit) /\ h \in Seq(Unit)
    BY <1>2, <1>3
  <2>1. Reassoc(d, in, u) /\ d \o in \in Seq(Unit)
    BY <2>0, CatAssoc, CatIn, Zenon
  <2>2. PICK x \in Seq(Unit) : x = d \o in
    BY <2>1, Zenon
  <2>3. Reassoc(h, x, u)
    BY <2>0, CatAssoc, Zenon
  <2> QED
    BY <2>1, <2>2, <2>3, Zenon DEF Reassoc
<1>6. IsOpen(w.acceptor) => Runs(h \o (d \o s.inbox), Had(j), s.reset)
  <2> SUFFICES ASSUME IsOpen(w.acceptor) PROVE Runs(h \o (d \o s.inbox), Had(j), s.reset)
    OBVIOUS
  <2>1. h \o (d \o in) = Had(m)
    BY <1>1, Zenon DEF TunnelData, TunnelDown, Runs
  <2>2. h \o (d \o s.inbox) = Had(j)
    BY <1>3, <1>4, <1>5, <2>1
  <2>3. Begins(Had(j), Had(j))
    BY <1>3, BeginsSelf, Zenon
  <2> QED
    BY <2>2, <2>3, Zenon DEF Runs
<1>7. Out(s) = Out(w.connector)
  BY <1>2, BeneathSame
<1>8. TunnelDown(r, j)
  BY <1>1, <1>3, <1>4, <1>6, Zenon DEF TunnelData, TunnelDown, Peer
<1>9. TunnelUp(r, n)
  <2>1. Gone(r) = Gone(w) /\ Unread(r) = Unread(w) /\ Start(r) = Start(w) /\ (Flows(r) => Flows(w))
    BY <1>7 DEF Gone, Unread, Start, Flows, Peer, Keeps
  <2> QED
    BY <1>1, <1>7, <2>1 DEF TunnelData, TunnelUp, Peer, Keeps, Beneath
<1>10. Asked(r)
  BY PeerAsked DEF TunnelData
<1>11. Bare(r)
  BY DEF TunnelData, Bare, Peer, Keeps
<1> QED
  BY <1>1, <1>8, <1>9, <1>10, <1>11 DEF TunnelData

LEMMA TunnelResetLoses ==
    ASSUME NEW w, NEW o, TunnelHalf(w, o), NEW n, NEW m, TunnelData(w, n, m),
           NEW side \in Sides, NEW s, Beneath(w[side], s), s.inbox = << >>, s.reset,
           NEW r, Peer(w, r), r[side] = s, r[Other(side)] = w[Other(side)],
           r["acceptor"] = r.acceptor, r["connector"] = r.connector
    PROVE  TunnelData(r, n, m)
<1>f. /\ SockOK(w.acceptor) /\ SockOK(w.connector) /\ Gone(w) \in Seq(Unit)
      /\ w["acceptor"] = w.acceptor /\ w["connector"] = w.connector
  BY TunnelFields, GoneIn
<1>a. Asked(r)
  BY PeerAsked DEF TunnelData
<1>1. CASE side = "acceptor"
  <2>1. r.acceptor = s /\ r.connector = w.connector /\ Beneath(w.acceptor, s)
    BY <1>1, <1>f, TwoSides
  <2>2. Heard(s) = Heard(w.acceptor) /\ s.fd = w.acceptor.fd
    BY <1>f, <2>1, BeneathSame
  <2>3. TunnelDown(r, m) /\ Bare(r)
    BY <2>1, <2>2 DEF TunnelData, TunnelDown, Bare, Peer, Keeps, IsOpen
  <2>4. Gone(r) = Gone(w) /\ Start(r) = Start(w) /\ (Flows(r) => Flows(w))
    BY <2>1 DEF Gone, Start, Flows, Peer, Keeps
  <2>5. ASSUME Flows(w), IsOpen(w.acceptor)
        PROVE  Begins(Gone(w) \o Unread(r), Left(Start(w), n))
    <3>1. PICK g \in Seq(Unit) : g = Gone(w)
      BY <1>f
    <3>2. PICK b \in Seq(Unit) : b = w.clientBuffer
      BY GoneIn
    <3>3. PICK i \in Seq(Unit) : i = w.acceptor.inbox
      BY GoneIn
    <3>4. Unread(r) = b \o << >> /\ Unread(w) = b \o i
      BY <2>1, <3>2, <3>3 DEF Unread, Peer, Keeps
    <3>5. b \o << >> = b /\ b \o i \in Seq(Unit) /\ Begins(b, b \o i)
      BY Cat, BeginsMore
    <3>6. PICK y \in Seq(Unit) : y = b \o i
      BY <3>5
    <3>7. Begins(g \o b, g \o y) /\ g \o b \in Seq(Unit) /\ g \o y \in Seq(Unit)
      BY <3>5, <3>6, BeginsBehind, Cat, Zenon
    <3>8. Begins(g \o y, Left(Start(w), n))
      BY <2>5, <3>1, <3>4, <3>6 DEF TunnelData, TunnelUp, Runs
    <3>9. Begins(g \o b, Left(Start(w), n))
      BY <3>7, <3>8, BeginsTrans
    <3> QED
      BY <3>1, <3>4, <3>5, <3>9
  <2>6. IsOpen(s) => IsOpen(w.acceptor)
    BY <2>2 DEF IsOpen
  <2>7. TunnelUp(r, n)
    BY <2>1, <2>4, <2>5, <2>6 DEF TunnelData, TunnelUp, Runs, Peer, Keeps
  <2> QED
    BY <1>a, <2>3, <2>7 DEF TunnelData
<1>2. CASE side = "connector"
  <2>1. r.connector = s /\ r.acceptor = w.acceptor /\ Beneath(w.connector, s)
    BY <1>2, <1>f, TwoSides
  <2>2. Out(s) = Out(w.connector)
    BY <1>f, <2>1, BeneathSame
  <2>3. Gone(r) = Gone(w) /\ Unread(r) = Unread(w) /\ Start(r) = Start(w) /\ (Flows(r) => Flows(w))
    BY <2>1, <2>2 DEF Gone, Unread, Start, Flows, Peer, Keeps
  <2>4. TunnelUp(r, n) /\ Bare(r)
    BY <2>1, <2>2, <2>3 DEF TunnelData, TunnelUp, Bare, Peer, Keeps, Beneath
  <2>5. ASSUME IsOpen(w.acceptor)
        PROVE  Begins(Heard(w.acceptor) \o (DataIn(DataOf(w.down)) \o << >>), Had(m))
    <3>1. PICK h \in Seq(Unit) : h = Heard(w.acceptor)
      BY GoneIn
    <3>2. PICK d \in Seq(Unit) : d = DataIn(DataOf(w.down))
      BY GoneIn, DataTyped
    <3>3. PICK i \in Seq(Unit) : i = w.connector.inbox
      BY GoneIn
    <3>4. d \o << >> = d /\ d \o i \in Seq(Unit) /\ Begins(d, d \o i)
      BY Cat, BeginsMore
    <3>5. PICK y \in Seq(Unit) : y = d \o i
      BY <3>4
    <3>6. Begins(h \o d, h \o y) /\ h \o d \in Seq(Unit) /\ h \o y \in Seq(Unit)
      BY <3>4, <3>5, BeginsBehind, Cat
    <3>7. Begins(h \o y, Had(m))
      BY <2>5, <3>1, <3>2, <3>3, <3>5 DEF TunnelData, TunnelDown, Runs
    <3>8. Begins(h \o d, Had(m))
      BY <3>6, <3>7, BeginsTrans
    <3> QED
      BY <3>1, <3>2, <3>4, <3>8
  <2>6. << >> \in Seq(Payload)
    OBVIOUS
  <2>7. TunnelDown(r, m)
    BY <2>1, <2>5, <2>6 DEF TunnelData, TunnelDown, Runs, Peer
  <2> QED
    BY <1>a, <2>4, <2>7 DEF TunnelData
<1> QED
  BY <1>1, <1>2, TwoSides

LEMMA TunnelSwap ==
    ASSUME TunnelInv(obj, orphan), NEW side \in Sides, NEW s, Beneath(obj[side], s),
           PeerStep(side, s)
    PROVE  /\ Peer(obj, obj') /\ obj'[side] = s /\ obj'[Other(side)] = obj[Other(side)]
           /\ obj'["acceptor"] = obj'.acceptor /\ obj'["connector"] = obj'.connector
<1>1. obj' = [obj EXCEPT ![side] = s] /\ obj \in TunnelObjs /\ s \in Socket
  BY TunnelIs DEF PeerStep, Beneath, SockOK
<1>2. PICK r : r = obj'
  OBVIOUS
<1>3. CASE side = "acceptor"
  <2>1. r = [obj EXCEPT !.acceptor = s]
    BY <1>1, <1>2, <1>3
  <2>2. /\ r.acceptor = s /\ r.connector = obj.connector /\ Peer(obj, r)
    BY <1>1, <2>1, SetAcceptor DEF Peer, Keeps
  <2> QED
    BY <1>2, <1>3, <2>2, TwoSides, TunnelIs
<1>4. CASE side = "connector"
  <2>1. r = [obj EXCEPT !.connector = s]
    BY <1>1, <1>2, <1>4
  <2>2. /\ r.connector = s /\ r.acceptor = obj.acceptor /\ Peer(obj, r)
    BY <1>1, <2>1, SetConnector DEF Peer, Keeps
  <2> QED
    BY <1>2, <1>4, <2>2, TwoSides, TunnelIs
<1> QED
  BY <1>3, <1>4, TwoSides

LEMMA TunnelPeersData ==
    ASSUME TunnelInv(obj, orphan), TunnelData(obj, sentUp, sentDown), Peers
    PROVE  TunnelData(obj', sentUp', sentDown')
<1>f. /\ TunnelHalf(obj, orphan) /\ SockOK(obj.acceptor) /\ SockOK(obj.connector)
      /\ TunnelOK(obj, orphan) /\ sentUp \in 0 .. 7 /\ sentDown \in 0 .. 2
      /\ (obj.connector.fd = "closed" => obj.far.localClosed)
  BY TunnelIs, FarKnown DEF TunnelData, TunnelUp, TunnelDown
<1>1. CASE ClientSends
  <2>1. PICK s : s = Arrived(obj.acceptor, <<ClientScript[sentUp + 1]>>)
    OBVIOUS
  <2>2. /\ PeerMaySend(obj.acceptor) /\ PeerStep("acceptor", s) /\ sentUp \in 0 .. 6
        /\ sentUp' = sentUp + 1 /\ sentDown' = sentDown
    BY <1>f, <1>1, <2>1, Scripts DEF ClientSends
  <2>3. <<ClientScript[sentUp + 1]>> \in Seq(Unit)
    <3>1. sentUp + 1 \in 1 .. 7
      BY <2>2
    <3> QED
      BY <3>1, Scripts, OneUnit
  <2>4. /\ Beneath(obj.acceptor, s) /\ s.reset = obj.acceptor.reset
        /\ s.inbox = obj.acceptor.inbox \o <<ClientScript[sentUp + 1]>>
        /\ ~obj.acceptor.reset
    BY <1>f, <2>1, <2>2, <2>3, PeerOps, PeerFields, Zenon DEF PeerMaySend, Connection
  <2>5. PICK r : r = obj'
    OBVIOUS
  <2>6. Peer(obj, r) /\ r.acceptor = s /\ r.connector = obj.connector
    BY <1>f, <2>2, <2>4, <2>5, TunnelSwap, TunnelIs, TwoSides
  <2>7. TunnelData(r, sentUp + 1, sentDown)
    BY <1>f, <2>2, <2>4, <2>6, TunnelClientSends
  <2> QED
    BY <2>2, <2>5, <2>7
<1>2. CASE TargetSends
  <2>1. PICK s : s = Arrived(obj.connector, <<TargetScript[sentDown + 1]>>)
    OBVIOUS
  <2>2. /\ PeerMaySend(obj.connector) /\ PeerStep("connector", s) /\ sentDown \in 0 .. 1
        /\ sentDown' = sentDown + 1 /\ sentUp' = sentUp
    BY <1>f, <1>2, <2>1, Scripts DEF TargetSends
  <2>3. <<TargetScript[sentDown + 1]>> \in Seq(Unit)
    <3>1. sentDown + 1 \in 1 .. 2
      BY <2>2
    <3> QED
      BY <3>1, Scripts, OneUnit
  <2>4. /\ Beneath(obj.connector, s) /\ s.reset = obj.connector.reset
        /\ s.inbox = obj.connector.inbox \o <<TargetScript[sentDown + 1]>>
        /\ ~obj.connector.reset
    BY <1>f, <2>1, <2>2, <2>3, PeerOps, PeerFields, Zenon DEF PeerMaySend, Connection
  <2>5. PICK r : r = obj'
    OBVIOUS
  <2>6. Peer(obj, r) /\ r.connector = s /\ r.acceptor = obj.acceptor
    BY <1>f, <2>2, <2>4, <2>5, TunnelSwap, TunnelIs, TwoSides
  <2>7. TunnelData(r, sentUp, sentDown + 1)
    BY <1>f, <2>2, <2>4, <2>6, TunnelTargetSends
  <2> QED
    BY <2>2, <2>5, <2>7
<1>3. ASSUME NEW side \in Sides, PeerTakes(side) \/ PeerFinishes(side) \/ PeerFails(side)
      PROVE  TunnelData(obj', sentUp', sentDown')
  <2>0. SockOK(obj[side]) /\ sentUp' = sentUp /\ sentDown' = sentDown
    BY <1>3, TwoSides, TunnelIs, <1>f DEF PeerTakes, PeerFinishes, PeerFails
  <2>1. PICK r : r = obj'
    OBVIOUS
  <2>2. CASE PeerTakes(side) \/ PeerFinishes(side)
    <3>1. PICK s : /\ Beneath(obj[side], s) /\ PeerStep(side, s)
                   /\ s.inbox = obj[side].inbox /\ s.reset = obj[side].reset
      BY <2>0, <2>2, PeerOps, PeerFields DEF PeerTakes, PeerFinishes
    <3>2. /\ Peer(obj, r) /\ r[side] = s /\ r[Other(side)] = obj[Other(side)]
          /\ r["acceptor"] = r.acceptor /\ r["connector"] = r.connector
      BY <2>1, <3>1, TunnelSwap
    <3>3. Quiet(obj[side], s) /\ s.fd = obj[side].fd
      BY <2>0, <3>1, BeneathSame
    <3>4. Quiet(obj.acceptor, r.acceptor) /\ Quiet(obj.connector, r.connector)
          /\ r.connector.fd = obj.connector.fd
      BY <1>f, <3>2, <3>3, QuietSame, TwoSides, TunnelIs
    <3>5. Hears(obj.acceptor, r.acceptor)
      BY <1>f, <3>4, QuietHears
    <3>6. /\ Keeps(obj, r) /\ Further(obj, r) /\ Adds(obj.up, r.up) /\ r.down = obj.down
          /\ (r.connector.fd = "closed" => r.far.localClosed)
      BY <1>f, <3>2, <3>4 DEF Peer, Further, Adds
    <3>7. TunnelData(r, sentUp, sentDown)
      BY <1>f, <3>4, <3>5, <3>6, TunnelQuiet
    <3> QED
      BY <2>0, <2>1, <3>7
  <2>3. CASE PeerFails(side)
    <3>1. PICK s : /\ Beneath(obj[side], s) /\ PeerStep(side, s)
                   /\ s.inbox = << >> /\ s.reset
      BY <2>0, <2>3, PeerOps, PeerFields DEF PeerFails
    <3>2. /\ Peer(obj, r) /\ r[side] = s /\ r[Other(side)] = obj[Other(side)]
          /\ r["acceptor"] = r.acceptor /\ r["connector"] = r.connector
      BY <2>1, <3>1, TunnelSwap
    <3>3. TunnelData(r, sentUp, sentDown)
      BY <1>f, <3>1, <3>2, TunnelResetLoses
    <3> QED
      BY <2>0, <2>1, <3>3
  <2> QED
    BY <1>3, <2>2, <2>3
<1> QED
  BY <1>1, <1>2, <1>3 DEF Peers

-----------------------------------------------------------------------------
(* What the forwarder does with what it has read.                          *)
LEMMA NothingGone ==
    ASSUME NEW w, NEW o, TunnelHalf(w, o), ~Talking(w)
    PROVE  /\ Gone(w) = << >> /\ Out(w.connector) = << >> /\ w.up = << >> /\ w.down = << >>
           /\ w.handler = "none" /\ NotYet(w.far)
<1>1. /\ Unopened(w) /\ SockOK(w.connector)
  BY TunnelFields DEF TunnelHalf
<1>2. Untouched(w.connector)
  BY <1>1 DEF Unopened, SockOK
<1>3. Out(w.connector) = << >>
  BY <1>1, <1>2, OutIn DEF Untouched
<1>4. Gone(w) = << >>
  BY <1>1, <1>3, LoadNone, Cat DEF Gone, Unopened
<1> QED
  BY <1>1, <1>3, <1>4 DEF Unopened

LEMMA RejectData ==
    ASSUME NEW w, NEW o, TunnelOK(w, o), ~Talking(w), NEW n \in 0 .. 7, NEW m,
           TunnelDown(w, m), Begins(Out(w.connector), Left(4, 7)), w.buffer = << >>,
           NEW u \in Unit \ Payload
    PROVE  LET r == Reject(w, <<u>>) IN TunnelData(r, n, m)
<1>d. PICK reply \in Seq(Unit) : reply = <<u>>
  BY OneUnit
<1>1. PICK v, s : v = Sending(w, "acceptor", reply) /\ s = Send(w.acceptor, reply)
  OBVIOUS
<1>2. /\ TunnelHalf(w, o) /\ SockOK(w.acceptor) /\ SockOK(w.connector)
      /\ w.acceptor.status # "Connecting" /\ w["acceptor"] = w.acceptor
  BY FarKnown, TunnelFields
<1>3. Op(w.acceptor, s) /\ Hears(w.acceptor, s)
  BY <1>d, <1>1, <1>2, SendOp, HearsReply
<1>4. v = Update(w, "acceptor", s)
  BY <1>1, <1>2 DEF Sending
<1>5. /\ TunnelOK(v, o) /\ v.acceptor = s /\ v.connector = w.connector /\ Keeps(w, v)
      /\ v.far = w.far /\ v.down = w.down
  BY <1>3, <1>4, NearShape
<1>6. PICK x : x = [v EXCEPT !.state = "Error"]
  OBVIOUS
<1>7. "Error" \in States /\ ~Talking(v) /\ "Error" \notin {"Connecting", "Connected"}
      /\ v \in TunnelObjs
  BY <1>5 DEF States, Talking, Keeps, TunnelOK, TunnelHalf
<1>8. TunnelOK(x, o) /\ x.state = "Error"
  BY <1>5, <1>6, <1>7, TunnelStateSet
<1>9. /\ x.acceptor = s /\ x.connector = w.connector /\ x.buffer = w.buffer
      /\ x.down = w.down /\ x.far = w.far
  BY <1>5, <1>6, <1>7, SetState DEF Keeps
<1>10. PICK t : t = Close(x.acceptor, TRUE)
  BY Zenon
<1>11. Op(s, t) /\ Hears(s, t) /\ ~IsOpen(t)
  <2>1. SockOK(s) /\ TRUE \in BOOLEAN
    BY <1>3 DEF Op
  <2>2. Op(s, t) /\ (~IsOpen(s) => t = s) /\ (IsOpen(s) => t.fd = "closed") /\ Quiet(s, t)
    BY <1>9, <1>10, <2>1, CloseOp, QuietClose
  <2> QED
    BY <2>1, <2>2, QuietHears DEF IsOpen
<1>12. PICK r : r = Reject(w, reply)
  OBVIOUS
<1>13. r = Update(x, "acceptor", t)
  BY <1>1, <1>6, <1>10, <1>12 DEF Reject
<1>14. /\ TunnelOK(r, o) /\ r.acceptor = t /\ r.connector = x.connector /\ Keeps(x, r)
       /\ r.far = x.far /\ r.down = x.down
  BY <1>8, <1>9, <1>11, <1>13, NearShape
<1>15. Hears(w.acceptor, r.acceptor)
  BY <1>2, <1>3, <1>11, <1>14, HearsTrans
<1>16. TunnelDown(r, m)
  BY <1>2, <1>9, <1>14, <1>15, DownKept
<1>17. r.state = "Error" /\ r.buffer = << >>
  BY <1>8, <1>9, <1>14 DEF Keeps
<1>18. Bare(r) /\ Asked(r)
  BY <1>11, <1>14, <1>17 DEF Bare, Asked, Talking
<1>h. r.handler # "Connecting"
  <2>1. w.handler = "none"
    BY <1>2, NothingGone
  <2>2. x.handler = v.handler
    BY <1>6, <1>7, SetState
  <2> QED
    BY <1>5, <1>14, <2>1, <2>2 DEF Keeps
<1>19. TunnelUp(r, n)
  BY <1>9, <1>14, <1>17, <1>h DEF TunnelUp, Flows
<1> QED
  BY <1>d, <1>12, <1>16, <1>18, <1>19 DEF TunnelData

(* Two units taken off what the client sent.                               *)
LEMMA TwoLeave ==
    ASSUME NEW w, NEW o, TunnelHalf(w, o), Len(w.clientBuffer) >= 2,
           NEW k \in {0, 2}, NEW n \in 0 .. 7, k <= n, Unread(w) = Left(k, n)
    PROVE  LET s == SubSeq(w.clientBuffer, 1, 2)
               y == Rest(w.clientBuffer, 2) \o w.acceptor.inbox
           IN  /\ s \in Seq(Unit) /\ Len(s) = 2 /\ y \in Seq(Unit) /\ s \o y = Unread(w)
               /\ Rest(w.clientBuffer, 2) \in Seq(Unit)
               /\ k + 2 <= n /\ y = Left(k + 2, n)
<1>1. PICK b \in Seq(Unit) : b = w.clientBuffer
  BY GoneIn
<1>2. PICK i \in Seq(Unit) : i = w.acceptor.inbox
  BY GoneIn
<1>3. PICK s, e : s = SubSeq(b, 1, 2) /\ e = Rest(b, 2)
  OBVIOUS
<1>4. Len(b) \in Nat /\ 2 \in 0 .. Len(b)
  BY <1>1
<1>5. s \in Seq(Unit) /\ Len(s) = 2 /\ s \o e = b /\ e \in Seq(Unit)
  BY <1>3, <1>4, Splits, TwoLess
<1>6. PICK y : y = e \o i
  OBVIOUS
<1>7. y \in Seq(Unit) /\ s \o y = b \o i
  <2>1. y \in Seq(Unit)
    BY <1>5, <1>6, CatIn
  <2>2. (s \o e) \o i = s \o (e \o i)
    <3>1. s \in Seq(Unit) /\ e \in Seq(Unit) /\ i \in Seq(Unit)
      BY <1>5
    <3>2. Reassoc(s, e, i)
      BY <3>1, CatAssoc, Zenon
    <3> QED
      BY <3>2, Zenon DEF Reassoc
  <2> QED
    BY <1>5, <1>6, <2>1, <2>2
<1>8. s \o y = Left(k, n)
  BY <1>1, <1>2, <1>7 DEF Unread
<1>9. k + 2 <= n /\ y = Left(k + 2, n)
  <2>1. s \in Seq(Unit) /\ Len(s) = 2 /\ y \in Seq(Unit) /\ s \o y = Left(k, n)
    BY <1>5, <1>7, <1>8
  <2>2. TwoAhead(k, n, s)
    BY <2>1, TwoFirst
  <2> QED
    BY <2>1, <2>2, Zenon DEF TwoAhead
<1> QED
  BY <1>1, <1>2, <1>3, <1>5, <1>6, <1>7, <1>9, Zenon DEF Unread

LEMMA ForwarderGreetingData ==
    ASSUME NEW w, NEW o, TunnelOK(w, o), Fresh(w), w.state = "Greeting",
           NEW n, NEW m, TunnelData(w, n, m)
    PROVE  LET r == ForwarderGreeting(w) IN TunnelData(r, n, m)
<1>1. PICK r : r = ForwarderGreeting(w)
  OBVIOUS
<1>g. /\ w.clientBuffer \in Seq(Unit) /\ Len(w.clientBuffer) \in Nat /\ ~Talking(w)
      /\ SockOK(w.acceptor) /\ TunnelHalf(w, o) /\ w \in TunnelObjs
      /\ IsOpen(w.acceptor) /\ ~w.acceptor.reset /\ n \in 0 .. 7
      /\ SockOK(w.connector) /\ w.acceptor.status # "Connecting"
  BY FarKnown, TunnelFields DEF Talking, Fresh, TunnelData, TunnelUp
<1>2. CASE Len(w.clientBuffer) < 2 \/ w.client = "oldVersion"
  <2>2. r = w
    <3>1. CASE Len(w.clientBuffer) < 2
      <4>1. ~(Len(w.clientBuffer) >= 2)
        BY <1>g, <3>1
      <4> QED
        BY <1>1, <3>1, <4>1 DEF ForwarderGreeting
    <3>2. CASE w.client = "oldVersion"
      BY <1>1, <3>2 DEF ForwarderGreeting
    <3> QED
      BY <1>2, <3>1, <3>2
  <2> QED
    BY <1>1, <2>2
<1>b. PICK b \in Seq(Unit) : b = Rest(w.clientBuffer, 2)
  BY <1>g, TwoLess
<1>4. PICK taken : taken = [w EXCEPT !.clientBuffer = b]
  OBVIOUS
<1>5. /\ TunnelOK(taken, o) /\ taken.state = w.state /\ taken.acceptor = w.acceptor
      /\ taken.connector = w.connector /\ taken.buffer = w.buffer /\ taken.down = w.down
      /\ taken.far = w.far /\ taken.handler = w.handler /\ taken.up = w.up
      /\ taken.clientBuffer = b
  <2>1. TunnelOK(taken, o)
    BY <1>4, <1>b, TunnelBuffersSet
  <2>2. PICK z : z = ClientHas(w, b)
    OBVIOUS
  <2>3. << >> \in Seq(Frames)
    OBVIOUS
  <2>4. w \in TunnelObjs
    BY <1>g
  <2>5. /\ z.state = w.state /\ z.acceptor = w.acceptor
        /\ z.connector = w.connector /\ z.buffer = w.buffer /\ z.down = w.down
        /\ z.far = w.far /\ z.handler = w.handler /\ z.up = w.up
        /\ z.clientBuffer = b
    BY <2>2, <2>3, <2>4, TunnelFieldSet, Zenon
  <2>6. taken = z
    BY <1>4, <2>2 DEF ClientHas
  <2> QED
    BY <2>1, <2>5, <2>6
<1>6. [w EXCEPT !.clientBuffer = Rest(@, 2)] = taken
  BY <1>4, <1>b
<1>7. CASE Len(w.clientBuffer) >= 2 /\ w.client = "noAuthRefused"
  <2>0. ~(Len(w.clientBuffer) < 2)
    BY <1>7, <1>g
  <2>1. r = Reject(taken, <<"noMethod">>)
    BY <1>1, <1>6, <1>7, <2>0 DEF ForwarderGreeting
  <2>2. PICK u \in Unit \ Payload : u = "noMethod"
    BY Replies
  <2>3. ~Talking(taken)
    BY <1>5, <1>g DEF Talking
  <2>4. TunnelDown(taken, m) /\ Begins(Out(taken.connector), Left(4, 7)) /\ taken.buffer = << >>
    BY <1>5 DEF TunnelData, TunnelDown, TunnelUp, Bare
  <2>5. PICK x : x = Reject(taken, <<u>>)
    OBVIOUS
  <2>6. TunnelData(x, n, m)
    BY <1>5, <1>g, <2>3, <2>4, <2>5, RejectData
  <2> QED
    BY <1>1, <2>1, <2>2, <2>5, <2>6
<1>8. CASE Len(w.clientBuffer) >= 2 /\ w.client \notin {"oldVersion", "noAuthRefused"}
  <2>0. ~(Len(w.clientBuffer) < 2)
    BY <1>8, <1>g
  <2>1. PICK u : u = Sending(taken, "acceptor", <<"method">>)
    OBVIOUS
  <2>2. r = [u EXCEPT !.state = "Request"]
    BY <1>1, <1>6, <1>8, <2>0, <2>1 DEF ForwarderGreeting
  <2>3. PICK data \in Seq(Unit) : data = <<"method">>
    BY UnitNames
  <2>4. PICK s : s = Send(w.acceptor, data)
    OBVIOUS
  <2>5. Op(w.acceptor, s) /\ Hears(w.acceptor, s)
    <3>1. PICK d \in Unit \ Payload : d = "method"
      BY Replies
    <3> QED
      BY <1>g, <2>3, <2>4, <3>1, SendOp, HearsReply
  <2>6. u = Update(taken, "acceptor", s)
    <3>1. taken["acceptor"] = taken.acceptor
      OBVIOUS
    <3> QED
      BY <1>5, <2>1, <2>3, <2>4, <3>1 DEF Sending
  <2>7. /\ TunnelOK(u, o) /\ u.acceptor = s /\ u.connector = w.connector /\ Keeps(taken, u)
        /\ u.far = w.far /\ u.down = w.down /\ Adds(w.up, u.up)
    BY <1>5, <2>5, <2>6, NearShape
  <2>8. "Request" \in States /\ u \in TunnelObjs
    BY <2>7 DEF States, TunnelOK, TunnelHalf
  <2>9. /\ r.acceptor = s /\ r.connector = w.connector /\ r.state = "Request"
        /\ r.handler = w.handler /\ r.buffer = w.buffer /\ r.clientBuffer = b
        /\ r.far = w.far /\ r.down = w.down /\ Adds(w.up, r.up)
    BY <1>5, <2>2, <2>7, <2>8, SetState DEF Keeps
  <2>10. TunnelDown(r, m)
    BY <1>g, <2>5, <2>9, DownKept DEF TunnelData
  <2>11. Bare(r) /\ Asked(r)
    BY <2>9 DEF TunnelData, Bare, Asked, Talking
  <2>12. Gone(w) = << >> /\ w.up = << >> /\ Out(w.connector) = << >> /\ r.handler = "none"
    BY <1>g, <2>9, NothingGone
  <2>13. Gone(r) = << >>
    <3>1. << >> \in Seq(Frames)
      OBVIOUS
    <3>2. DataOf(r.up) = << >>
      BY <2>9, <2>12, <3>1, AddsNothing, LoadNone, Zenon
    <3> QED
      BY <2>9, <2>12, <3>2, Cat DEF Gone
  <2>14. Start(r) = 2
    BY <2>9 DEF Start
  <2>15. ASSUME Flows(r)
         PROVE  2 <= n /\ Unread(r) = Left(2, n)
    <3>1. Flows(w) /\ Start(w) = 0
      BY <2>9, <2>15 DEF Flows, Start
    <3>2. Unread(w) = Left(0, n)
      <4>1. Gone(w) \o Unread(w) = Left(0, n)
        BY <1>g, <3>1 DEF TunnelData, TunnelUp, Runs
      <4>2. Unread(w) \in Seq(Unit)
        BY <1>g, GoneIn
      <4> QED
        BY <2>12, <4>1, <4>2, Cat
    <3>3. 0 \in {0, 2} /\ 0 <= n /\ 0 + 2 = 2
      BY <1>g
    <3>4. PICK k \in {0, 2} : k = 0
      BY <3>3
    <3>5. k + 2 <= n /\ Rest(w.clientBuffer, 2) \o w.acceptor.inbox = Left(k + 2, n)
      BY <1>g, <1>8, <3>2, <3>3, <3>4, TwoLeave, Zenon
    <3>6. r.acceptor.inbox = w.acceptor.inbox
      BY <2>5, <2>9 DEF Hears
    <3> QED
      BY <1>b, <2>9, <3>3, <3>4, <3>5, <3>6 DEF Unread
  <2>16. TunnelUp(r, n)
    <3>1. Begins(Out(r.connector), Left(4, 7))
      BY <2>9 DEF TunnelData, TunnelUp
    <3>2. ASSUME Flows(r)
          PROVE  /\ 2 <= n /\ Begins(<< >>, Left(2, n))
                 /\ Runs(<< >> \o Unread(r), Left(2, n), r.acceptor.reset)
      <4>1. 2 \in 0 .. 7 /\ 2 <= n
        BY <2>15, <3>2
      <4>2. Left(2, n) \in Seq(Unit)
        BY <1>g, <4>1, Units
      <4>3. << >> \o Left(2, n) = Left(2, n) /\ << >> \in Seq(Unit)
        BY <4>2, Cat
      <4>4. Begins(<< >>, Left(2, n)) /\ Begins(Left(2, n), Left(2, n))
        BY <4>2, <4>3, BeginsSelf, Zenon DEF Begins
      <4> QED
        BY <2>15, <3>2, <4>1, <4>3, <4>4 DEF Runs
    <3> QED
      BY <1>g, <2>12, <2>13, <2>14, <3>1, <3>2 DEF TunnelUp
  <2> QED
    BY <1>1, <2>10, <2>11, <2>16 DEF TunnelData
<1> QED
  BY <1>2, <1>7, <1>8, <1>g

LEMMA TwoOf ==
    ASSUME NEW x \in Frames, NEW y \in Frames
    PROVE  Append(<<x>>, y) = <<x, y>>
<1>1. PICK s : s = Append(<<x>>, y)
  BY Zenon
<1>2. PICK t : t = <<x, y>>
  OBVIOUS
<1>3. PICK a : a = <<x>>
  OBVIOUS
<1>4. a \in Seq(Frames) /\ Len(a) = 1 /\ a[1] = x
  BY <1>3
<1>5. s = Append(a, y)
  BY <1>1, <1>3, Zenon
<1>6. s \in Seq(Frames) /\ Len(s) = 2 /\ s[1] = x /\ s[2] = y
  <2>1. \A c \in Seq(Frames) :
           Len(c) = 1 => /\ Append(c, y) \in Seq(Frames) /\ Len(Append(c, y)) = 2
                         /\ Append(c, y)[1] = c[1] /\ Append(c, y)[2] = y
    <3>1. SUFFICES ASSUME NEW c \in Seq(Frames), Len(c) = 1
                   PROVE  /\ Append(c, y) \in Seq(Frames) /\ Len(Append(c, y)) = 2
                          /\ Append(c, y)[1] = c[1] /\ Append(c, y)[2] = y
      OBVIOUS
    <3>2. PICK d : d = Append(c, y)
      OBVIOUS
    <3>3. /\ d \in Seq(Frames) /\ Len(d) = Len(c) + 1
          /\ \A i \in 1 .. Len(c) : d[i] = c[i]
          /\ d[Len(c) + 1] = y
      BY <3>2, AppendProperties, ZenonT(30)
    <3>4. Len(d) = 2 /\ d[1] = c[1] /\ d[2] = y
      <4>1. Len(c) + 1 = 2 /\ 1 \in 1 .. Len(c)
        BY <3>1
      <4> QED
        BY <3>3, <4>1, ZenonT(30)
    <3> QED
      BY <3>2, <3>3, <3>4, Zenon
  <2> QED
    BY <1>4, <1>5, <2>1, ZenonT(30)
<1>7. t \in Seq(Frames) /\ Len(t) = 2 /\ t[1] = x /\ t[2] = y
  BY <1>2
<1>8. \A i \in 1 .. Len(s) : s[i] = t[i]
  BY <1>6, <1>7
<1>9. s = t
  BY <1>6, <1>7, <1>8, SeqEqual
<1> QED
  BY <1>1, <1>2, <1>9, Zenon

(* What a stream opened for a request is.                                  *)
Requesting(w, request, b, r) ==
    /\ r.acceptor = w.acceptor /\ r.connector = w.connector
    /\ r.handler = "none" /\ r.buffer = w.buffer /\ r.far = w.far
    /\ r.down = << >> /\ r.state = "Connecting" /\ r.clientBuffer = b
    /\ \E x, y \in Frames : /\ r.up = <<x, y>> /\ x.data = << >>
                            /\ y.kind = "Data" /\ y.data = request

LEMMA RequestShape ==
    ASSUME NEW w, NEW o, TunnelOK(w, o), w.state = "Request", ~Talking(w),
           Len(w.clientBuffer) >= 2, w.client # "badRequest",
           NEW request \in Seq(Unit), request = SubSeq(w.clientBuffer, 1, 2), request # << >>,
           NEW b \in Seq(Unit), b = Rest(w.clientBuffer, 2)
    PROVE  Requesting(w, request, b, ForwarderRequest(w))
<1>1. PICK r : r = ForwarderRequest(w)
  OBVIOUS
<1>0. w \in TunnelObjs /\ TunnelHalf(w, o) /\ Unopened(w) /\ Len(w.clientBuffer) \in Nat
  <2>1. TunnelHalf(w, o)
    BY DEF TunnelOK
  <2> QED
    BY <2>1, TunnelFields DEF TunnelHalf
<1>2. ~(Len(w.clientBuffer) < 2)
  BY <1>0
<1>3. PICK open : open = OpenStream
  OBVIOUS
<1>4. open \in Streams /\ open.known /\ ~open.localClosed
  BY <1>3 DEF OpenStream, NoStream, Streams
<1>5. PICK x : x = Frame("SYN", << >>)
  OBVIOUS
<1>6. PICK y : y = Frame("Data", request)
  OBVIOUS
<1>7. x \in Frames /\ x.data = << >> /\ y \in Frames /\ y.kind = "Data" /\ y.data = request
  <2>1. "SYN" \in Kinds /\ "Data" \in Kinds /\ << >> \in Seq(Unit)
    BY Cat DEF Kinds
  <2>2. x \in Frames /\ x.data = << >>
    BY <1>5, <2>1, FrameIn, Zenon
  <2>3. y \in Frames /\ y.kind = "Data" /\ y.data = request
    <3>1. \A q \in Seq(Unit) : /\ Frame("Data", q) \in Frames /\ Frame("Data", q).kind = "Data"
                               /\ Frame("Data", q).data = q
      BY <2>1, FrameIn
    <3>2. request \in Seq(Unit)
      OBVIOUS
    <3> QED
      BY <1>6, <3>1, <3>2, ZenonT(30)
  <2> QED
    BY <2>2, <2>3
<1>8. PICK g : g = Append(w.up, x)
  OBVIOUS
<1>9. g \in Seq(Frames) /\ g = <<x>>
  <2>1. w.up = << >>
    BY <1>0 DEF Unopened
  <2>2. g = <<x>>
    BY <1>8, <2>1
  <2> QED
    BY <1>7, <2>2
<1>10. PICK h : h = Append(g, y)
  OBVIOUS
<1>11. h \in Seq(Frames) /\ h = <<x, y>>
  <2>1. h \in Seq(Frames)
    BY <1>7, <1>9, <1>10, EndedAppend
  <2>3. Append(<<x>>, y) = <<x, y>>
    BY <1>7, TwoOf
  <2> QED
    BY <1>9, <1>10, <2>1, <2>3, Zenon
<1>12. PICK v1 : v1 = [w EXCEPT !.clientBuffer = b]
  BY Zenon
<1>13. PICK v2 : v2 = [v1 EXCEPT !.state = "Connecting"]
  OBVIOUS
<1>14. PICK v3 : v3 = [v2 EXCEPT !.hasStreamId = TRUE]
  OBVIOUS
<1>15. PICK v4 : v4 = [v3 EXCEPT !.near = open]
  OBVIOUS
<1>16. PICK v : v = [v4 EXCEPT !.up = g]
  OBVIOUS
<1> DEFINE Same(t) == /\ t \in TunnelObjs /\ t.acceptor = w.acceptor
                      /\ t.connector = w.connector /\ t.handler = w.handler
                      /\ t.buffer = w.buffer /\ t.far = w.far /\ t.down = w.down
                      /\ t.clientBuffer = b
<1>17. Same(v1) /\ v1.up = w.up
  BY <1>0, <1>12, SetClientBuffer
<1>18. "Connecting" \in States
  BY DEF States
<1>19. Same(v2) /\ v2.up = w.up /\ v2.state = "Connecting"
  BY <1>13, <1>17, <1>18, SetState
<1>20. Same(v3) /\ v3.up = w.up /\ v3.state = "Connecting"
  BY <1>14, <1>19, SetHasStreamId, Zenon
<1>21. Same(v4) /\ v4.up = w.up /\ v4.state = "Connecting" /\ v4.near = open
  BY <1>4, <1>15, <1>20, SetNear
<1>22. Same(v) /\ v.up = g /\ v.state = "Connecting" /\ v.near = open
  <2>1. v4 \in TunnelObjs /\ g \in Seq(Frames)
    BY <1>9, <1>21
  <2>2. PICK z : z = UpHas(v4, g)
    OBVIOUS
  <2>e. << >> \in Seq(Unit)
    OBVIOUS
  <2>3. /\ z \in TunnelObjs /\ z.up = g /\ z.acceptor = v4.acceptor
        /\ z.connector = v4.connector /\ z.state = v4.state
        /\ z.clientBuffer = v4.clientBuffer /\ z.handler = v4.handler
        /\ z.buffer = v4.buffer /\ z.near = v4.near /\ z.far = v4.far /\ z.down = v4.down
    BY <2>1, <2>2, <2>e, TunnelFieldSet
  <2>4. v = z
    BY <1>16, <2>2 DEF UpHas
  <2> QED
    BY <1>21, <2>3, <2>4
<1>23. r = SendToStream(v, "near", request)
  <2>1. PICK z : z = [w EXCEPT !.clientBuffer = b, !.state = "Connecting",
                               !.hasStreamId = TRUE, !.near = open]
    OBVIOUS
  <2>2. v = Put(z, "near", x)
    <3>1. z = v4
      BY <1>12, <1>13, <1>14, <1>15, <2>1
    <3> QED
      BY <1>8, <1>16, <1>21, <3>1 DEF Put
  <2>3. z = [w EXCEPT !.clientBuffer = Rest(@, 2), !.state = "Connecting",
                      !.hasStreamId = TRUE, !.near = OpenStream]
    BY <1>3, <2>1
  <2> QED
    BY <1>1, <1>2, <1>5, <2>2, <2>3 DEF ForwarderRequest
<1>24. r = [v EXCEPT !.up = h]
  <2>1. v["near"] = open
    BY <1>22
  <2>2. r = Put(v, "near", y)
    BY <1>4, <1>6, <1>23, <2>1 DEF SendToStream
  <2> QED
    BY <1>10, <1>22, <2>2 DEF Put
<1>25. Same(r) /\ r.up = h /\ r.state = "Connecting"
  <2>1. v \in TunnelObjs /\ h \in Seq(Frames)
    BY <1>11, <1>22
  <2>2. PICK z : z = UpHas(v, h)
    OBVIOUS
  <2>e. << >> \in Seq(Unit)
    OBVIOUS
  <2>3. /\ z \in TunnelObjs /\ z.up = h /\ z.acceptor = v.acceptor
        /\ z.connector = v.connector /\ z.state = v.state
        /\ z.clientBuffer = v.clientBuffer /\ z.handler = v.handler
        /\ z.buffer = v.buffer /\ z.far = v.far /\ z.down = v.down
    BY <2>1, <2>2, <2>e, TunnelFieldSet
  <2>4. r = z
    BY <1>24, <2>2 DEF UpHas
  <2> QED
    BY <1>22, <2>3, <2>4
<1>26. w.handler = "none" /\ w.down = << >>
  BY <1>0 DEF Unopened
<1>27. \E c, d \in Frames : /\ r.up = <<c, d>> /\ c.data = << >>
                            /\ d.kind = "Data" /\ d.data = request
  BY <1>7, <1>11, <1>25
<1> QED
  BY <1>1, <1>25, <1>26, <1>27 DEF Requesting

LEMMA TwoFrames ==
    ASSUME NEW x \in Frames, NEW y \in Frames, x.data = << >>, y.kind = "Data", Len(y.data) = 2
    PROVE  LET f == <<x, y>>
           IN  /\ f \in Seq(Frames) /\ f # << >> /\ f[1].data = << >> /\ RequestFirst(Tail(f))
               /\ DataOf(f) = y.data
<1>1. PICK f, g, e : f = <<x, y>> /\ g = <<y>> /\ e = Tail(g)
  BY Zenon
<1>2. /\ f \in Seq(Frames) /\ f # << >> /\ Tail(f) = g /\ f[1] = x
      /\ g \in Seq(Frames) /\ g # << >> /\ g[1] = y /\ e = << >>
  BY <1>1
<1>3. y.data \in Seq(Unit)
  BY DEF Frames
<1>4. DataOf(e) = << >>
  BY <1>2, LoadNone
<1>5. DataOf(g) = y.data \o << >>
  BY <1>1, <1>2, <1>4, LoadTail, Zenon
<1>6. DataOf(f) = << >> \o DataOf(g)
  BY <1>1, <1>2, LoadTail, Zenon
<1>7. DataOf(f) = y.data
  BY <1>3, <1>5, <1>6, Cat
<1>8. RequestFirst(g)
  BY <1>1, <1>2, <1>4 DEF RequestFirst
<1> QED
  BY <1>1, <1>2, <1>7, <1>8

LEMMA ForwarderRequestData ==
    ASSUME NEW w, NEW o, TunnelOK(w, o), Fresh(w), w.state = "Request",
           NEW n, NEW m, TunnelData(w, n, m)
    PROVE  LET r == ForwarderRequest(w) IN TunnelData(r, n, m)
<1>1. PICK r : r = ForwarderRequest(w)
  OBVIOUS
<1>g. /\ w.clientBuffer \in Seq(Unit) /\ Len(w.clientBuffer) \in Nat /\ ~Talking(w)
      /\ SockOK(w.acceptor) /\ TunnelHalf(w, o) /\ w \in TunnelObjs
      /\ IsOpen(w.acceptor) /\ ~w.acceptor.reset /\ n \in 0 .. 7
      /\ SockOK(w.connector)
  BY FarKnown, TunnelFields DEF Talking, Fresh, TunnelData, TunnelUp
<1>2. CASE Len(w.clientBuffer) < 2
  <2>1. ~(Len(w.clientBuffer) >= 2)
    BY <1>2, <1>g
  <2>2. r = w
    BY <1>1, <1>2, <2>1 DEF ForwarderRequest
  <2> QED
    BY <1>1, <2>2
<1>3. CASE Len(w.clientBuffer) >= 2 /\ w.client = "badRequest"
  <2>0. ~(Len(w.clientBuffer) < 2)
    BY <1>3, <1>g
  <2>1. r = Reject(w, <<"error">>)
    BY <1>1, <1>3, <2>0 DEF ForwarderRequest
  <2>2. PICK u \in Unit \ Payload : u = "error"
    BY Replies
  <2>3. TunnelDown(w, m) /\ Begins(Out(w.connector), Left(4, 7)) /\ w.buffer = << >>
    BY DEF TunnelData, TunnelUp, Bare
  <2>4. PICK x : x = Reject(w, <<u>>)
    OBVIOUS
  <2>5. TunnelData(x, n, m)
    BY <1>g, <2>3, <2>4, RejectData
  <2> QED
    BY <1>1, <2>1, <2>2, <2>4, <2>5
<1>4. CASE Len(w.clientBuffer) >= 2 /\ w.client # "badRequest"
  <2>1. PICK q : q = SubSeq(w.clientBuffer, 1, 2)
    OBVIOUS
  <2>2. q \in Seq(Unit) /\ Len(q) = 2 /\ q # << >>
    BY <1>4, <1>g, <2>1
  <2>3. PICK b \in Seq(Unit) : b = Rest(w.clientBuffer, 2)
    BY <1>g, TwoLess
  <2>4. /\ r.acceptor = w.acceptor /\ r.connector = w.connector
        /\ r.handler = "none" /\ r.buffer = w.buffer /\ r.far = w.far
        /\ r.down = << >> /\ r.state = "Connecting" /\ r.clientBuffer = b
        /\ \E x, y \in Frames : /\ r.up = <<x, y>> /\ x.data = << >>
                                /\ y.kind = "Data" /\ y.data = q
    <3>1. Len(w.clientBuffer) >= 2 /\ w.client # "badRequest"
      BY <1>4
    <3>2. PICK x : x = ForwarderRequest(w)
      OBVIOUS
    <3>3. Requesting(w, q, b, x)
      BY <1>g, <2>1, <2>2, <2>3, <3>1, <3>2, RequestShape, Zenon
    <3> QED
      BY <1>1, <3>2, <3>3, Zenon DEF Requesting
  <2>5. PICK x \in Frames, y \in Frames : /\ r.up = <<x, y>> /\ x.data = << >>
                                          /\ y.kind = "Data" /\ y.data = q
    BY <2>4
  <2>6. /\ r.up # << >> /\ r.up[1].data = << >> /\ RequestFirst(Tail(r.up))
        /\ DataOf(r.up) = q
    BY <2>2, <2>5, TwoFrames
  <2>7. /\ NotYet(w.far) /\ w.down = << >> /\ Gone(w) = << >> /\ Out(w.connector) = << >>
    BY <1>g, NothingGone
  <2>8. Asked(r) /\ Bare(r)
    BY <2>4, <2>6, <2>7 DEF Asked, TunnelData, Bare, Waits
  <2>9. TunnelDown(r, m)
    BY <2>4, <2>7 DEF TunnelData, TunnelDown
  <2>10. Start(r) = 2 /\ Gone(r) = q
    <3>1. Start(r) = 2
      BY <2>4 DEF Start
    <3>2. Gone(r) = << >> \o q
      BY <2>4, <2>6, <2>7 DEF Gone
    <3> QED
      BY <2>2, <3>1, <3>2, Cat
  <2>11. ASSUME Flows(r)
         PROVE  2 <= n /\ Begins(q, Left(2, n)) /\ q \o Unread(r) = Left(2, n)
    <3>1. Flows(w) /\ Start(w) = 2
      BY <2>4, <2>11 DEF Flows, Start
    <3>2. Unread(w) = Left(2, n) /\ 2 <= n
      <4>1. Gone(w) \o Unread(w) = Left(2, n) /\ 2 <= n
        BY <1>g, <3>1 DEF TunnelData, TunnelUp, Runs
      <4>2. Unread(w) \in Seq(Unit)
        BY <1>g, GoneIn
      <4> QED
        BY <2>7, <4>1, <4>2, Cat
    <3>3. PICK k \in {0, 2} : k = 2
      OBVIOUS
    <3>4. PICK y1 : y1 = b \o w.acceptor.inbox
      BY Zenon
    <3>5. q \o y1 = Unread(w) /\ y1 \in Seq(Unit)
      BY <1>g, <1>4, <2>1, <2>3, <3>2, <3>3, <3>4, TwoLeave
    <3>6. Unread(r) = y1
      BY <2>4, <3>4 DEF Unread
    <3>7. Begins(q, q \o y1)
      BY <2>2, <3>5, BeginsMore, Zenon
    <3> QED
      BY <3>2, <3>5, <3>6, <3>7
  <2>12. TunnelUp(r, n)
    <3>1. Begins(Out(r.connector), Left(4, 7))
      BY <2>4 DEF TunnelData, TunnelUp
    <3>2. ASSUME Flows(r)
          PROVE  Runs(q \o Unread(r), Left(2, n), r.acceptor.reset)
      <4>1. 2 \in 0 .. 7 /\ 2 <= n
        BY <2>11, <3>2
      <4>2. Left(2, n) \in Seq(Unit)
        BY <1>g, <4>1, Units
      <4>3. Begins(Left(2, n), Left(2, n))
        BY <4>2, BeginsSelf
      <4> QED
        BY <2>11, <3>2, <4>3 DEF Runs
    <3> QED
      BY <1>g, <2>4, <2>10, <2>11, <3>1, <3>2 DEF TunnelUp
  <2> QED
    BY <1>1, <2>8, <2>9, <2>12 DEF TunnelData
<1> QED
  BY <1>2, <1>3, <1>4, <1>g

(* What is sent on the stream, up and down.                                *)
LEMMA SentUp ==
    ASSUME NEW w, NEW o, TunnelHalf(w, o), NEW data \in Seq(Unit)
    PROVE  LET r == SendToStream(w, "near", data)
           IN  /\ Alike(w, r) /\ r.down = w.down
               /\ w.near.known /\ ~w.near.localClosed => DataOf(r.up) = DataOf(w.up) \o data
               /\ ~(w.near.known /\ ~w.near.localClosed) => r.up = w.up
<1>1. PICK r : r = SendToStream(w, "near", data)
  OBVIOUS
<1>2. Alike(w, r)
  BY <1>1, StreamSent
<1>3. CASE ~(w.near.known /\ ~w.near.localClosed)
  <2>1. r = w
    BY <1>1, <1>3, TunnelFields DEF SendToStream
  <2> QED
    BY <1>1, <1>2, <1>3, <2>1
<1>4. CASE data = << >>
  <2>1. r = w
    BY <1>1, <1>4 DEF SendToStream
  <2>2. DataOf(w.up) \in Seq(Unit)
    BY GoneIn
  <2>3. DataOf(w.up) \o data = DataOf(w.up)
    BY <1>4, <2>2, Cat
  <2> QED
    BY <1>1, <1>2, <2>1, <2>3
<1>5. CASE data # << >> /\ w.near.known /\ ~w.near.localClosed
  <2>1. PICK x : x = Frame("Data", data)
    OBVIOUS
  <2>2. x \in Frames /\ x.data = data
    <3>1. "Data" \in Kinds
      BY DEF Kinds
    <3> QED
      BY <2>1, <3>1, FrameIn
  <2>3. PICK g : g = Append(w.up, x)
    OBVIOUS
  <2>4. r = [w EXCEPT !.up = g]
    BY <1>1, <1>5, <2>1, <2>3, TunnelFields DEF SendToStream, Put, TunnelObjs
  <2>5. g \in Seq(Frames) /\ DataOf(g) = DataOf(w.up) \o data
    <3>1. w.up \in Seq(Frames)
      BY TunnelFields
    <3>2. Append(w.up, x) \in Seq(Frames)
      BY <2>2, <3>1, EndedAppend
    <3>3. DataOf(Append(w.up, x)) = DataOf(w.up) \o x.data
      BY <2>2, <3>1, LoadAppend, ZenonT(30)
    <3> QED
      BY <2>2, <2>3, <3>2, <3>3
  <2>6. w \in TunnelObjs
    BY DEF TunnelHalf
  <2>7. r.up = g /\ r.down = w.down
    BY <2>4, <2>5, <2>6, SetUp
  <2> QED
    BY <1>1, <1>2, <1>5, <2>5, <2>7
<1> QED
  BY <1>3, <1>4, <1>5

LEMMA SentDown ==
    ASSUME NEW w, NEW o, TunnelHalf(w, o), NEW data \in Seq(Unit)
    PROVE  LET r == SendToStream(w, "far", data)
           IN  /\ Alike(w, r) /\ r.up = w.up
               /\ w.far.known /\ ~w.far.localClosed =>
                     DataOf(r.down) = DataOf(w.down) \o data
               /\ ~(w.far.known /\ ~w.far.localClosed) => r.down = w.down
<1>1. PICK r : r = SendToStream(w, "far", data)
  OBVIOUS
<1>2. Alike(w, r)
  BY <1>1, StreamSent
<1>3. CASE ~(w.far.known /\ ~w.far.localClosed)
  <2>1. r = w
    BY <1>1, <1>3, TunnelFields DEF SendToStream
  <2> QED
    BY <1>1, <1>2, <1>3, <2>1
<1>4. CASE data = << >>
  <2>1. r = w
    BY <1>1, <1>4 DEF SendToStream
  <2>2. DataOf(w.down) \in Seq(Unit)
    BY GoneIn
  <2>3. DataOf(w.down) \o data = DataOf(w.down)
    BY <1>4, <2>2, Cat
  <2> QED
    BY <1>1, <1>2, <2>1, <2>3
<1>5. CASE data # << >> /\ w.far.known /\ ~w.far.localClosed
  <2>1. PICK x : x = Frame("Data", data)
    OBVIOUS
  <2>2. x \in Frames /\ x.data = data
    <3>1. "Data" \in Kinds
      BY DEF Kinds
    <3> QED
      BY <2>1, <3>1, FrameIn
  <2>3. PICK g : g = Append(w.down, x)
    OBVIOUS
  <2>4. r = [w EXCEPT !.down = g]
    BY <1>1, <1>5, <2>1, <2>3, TunnelFields DEF SendToStream, Put, TunnelObjs
  <2>5. g \in Seq(Frames) /\ DataOf(g) = DataOf(w.down) \o data
    <3>1. w.down \in Seq(Frames)
      BY TunnelFields
    <3>2. Append(w.down, x) \in Seq(Frames)
      BY <2>2, <3>1, EndedAppend
    <3>3. DataOf(Append(w.down, x)) = DataOf(w.down) \o x.data
      BY <2>2, <3>1, LoadAppend, ZenonT(30)
    <3> QED
      BY <2>2, <2>3, <3>2, <3>3
  <2>6. w \in TunnelObjs
    BY DEF TunnelHalf
  <2>7. r.down = g /\ r.up = w.up
    BY <2>4, <2>5, <2>6, SetDown
  <2> QED
    BY <1>1, <1>2, <1>5, <2>5, <2>7
<1> QED
  BY <1>3, <1>4, <1>5

LEMMA ForwardShape ==
    ASSUME NEW w, NEW o, TunnelOK(w, o), Talking(w)
    PROVE  LET r == ForwardToStream(w)
           IN  /\ r.acceptor = w.acceptor /\ r.connector = w.connector
               /\ r.state = w.state /\ r.handler = w.handler /\ r.buffer = w.buffer
               /\ r.far = w.far /\ r.down = w.down /\ r.clientBuffer = << >>
               /\ \/ DataOf(r.up) = DataOf(w.up) /\ ~IsOpen(w.acceptor)
                  \/ /\ DataOf(r.up) = DataOf(w.up) \o w.clientBuffer
                     /\ IsOpen(w.acceptor) \/ w.far.localClosed
<1>1. PICK v : v = IF w.hasStreamId THEN SendToStream(w, "near", w.clientBuffer) ELSE w
  OBVIOUS
<1>2. w.clientBuffer \in Seq(Unit) /\ TunnelHalf(w, o) /\ Told(w)
  BY TunnelFields DEF TunnelOK
<1>3. NearOK(w)
  BY <1>2 DEF TunnelHalf
<1>4. PICK s : s = SendToStream(w, "near", w.clientBuffer)
  OBVIOUS
<1>5. /\ Alike(w, s) /\ s.down = w.down /\ TunnelHalf(s, o)
      /\ w.near.known /\ ~w.near.localClosed => DataOf(s.up) = DataOf(w.up) \o w.clientBuffer
      /\ ~(w.near.known /\ ~w.near.localClosed) => s.up = w.up
  BY <1>2, <1>4, SentUp, StreamSent
<1>6. /\ Alike(w, v) /\ v.down = w.down /\ v \in TunnelObjs
      /\ \/ DataOf(v.up) = DataOf(w.up) /\ ~IsOpen(w.acceptor)
         \/ /\ DataOf(v.up) = DataOf(w.up) \o w.clientBuffer
            /\ IsOpen(w.acceptor) \/ w.far.localClosed
  <2>1. CASE w.hasStreamId /\ w.near.known /\ ~w.near.localClosed
    <3>1. v = s
      BY <1>1, <1>4, <2>1
    <3>2. IsOpen(w.acceptor) \/ w.far.localClosed
      BY <1>2, <1>3, <2>1 DEF Told, NearOK
    <3> QED
      BY <1>5, <2>1, <3>1, <3>2, TunnelFields, Zenon
  <2>2. CASE w.hasStreamId /\ ~(w.near.known /\ ~w.near.localClosed)
    <3>1. v = s
      BY <1>1, <1>4, <2>2
    <3>2. ~IsOpen(w.acceptor)
      BY <1>3, <2>2 DEF NearOK, Standing
    <3> QED
      BY <1>5, <2>2, <3>1, <3>2, TunnelFields
  <2>3. CASE ~w.hasStreamId
    <3>1. v = w
      BY <1>1, <2>3
    <3>2. ~IsOpen(w.acceptor)
      BY <1>3, <2>3 DEF NearOK
    <3> QED
      BY <1>2, <3>1, <3>2, TunnelFields DEF Alike
  <2> QED
    BY <2>1, <2>2, <2>3
<1>7. PICK r : r = [v EXCEPT !.clientBuffer = << >>]
  OBVIOUS
<1>8. << >> \in Seq(Unit)
  BY Cat
<1>9. /\ r.clientBuffer = << >> /\ r.acceptor = v.acceptor /\ r.connector = v.connector
      /\ r.state = v.state /\ r.handler = v.handler /\ r.buffer = v.buffer
      /\ r.far = v.far /\ r.up = v.up /\ r.down = v.down
  BY <1>6, <1>7, <1>8, SetClientBuffer
<1>10. ForwardToStream(w) = r
  BY <1>1, <1>7 DEF ForwardToStream
<1> QED
  BY <1>6, <1>9, <1>10 DEF Alike

LEMMA ForwardToStreamData ==
    ASSUME NEW w, NEW o, TunnelOK(w, o), w.state = "Connected",
           NEW n, NEW m, TunnelData(w, n, m)
    PROVE  LET r == ForwardToStream(w) IN TunnelData(r, n, m)
<1>1. PICK r : r = ForwardToStream(w)
  OBVIOUS
<1>2. TunnelHalf(w, o) /\ Talking(w) /\ n \in 0 .. 7
  BY FarKnown DEF Talking, TunnelData, TunnelUp
<1>3. /\ r.acceptor = w.acceptor /\ r.connector = w.connector
      /\ r.state = w.state /\ r.handler = w.handler /\ r.buffer = w.buffer
      /\ r.far = w.far /\ r.down = w.down /\ r.clientBuffer = << >>
      /\ \/ DataOf(r.up) = DataOf(w.up) /\ ~IsOpen(w.acceptor)
         \/ /\ DataOf(r.up) = DataOf(w.up) \o w.clientBuffer
            /\ IsOpen(w.acceptor) \/ w.far.localClosed
  BY <1>1, <1>2, ForwardShape
<1>4. ~Waits(w)
  BY <1>2 DEF TunnelData, Asked
<1>5. Bare(r) /\ Asked(r)
  BY <1>3, <1>4 DEF TunnelData, Bare, Asked, Waits
<1>6. TunnelDown(r, m)
  BY <1>3 DEF TunnelData, TunnelDown
<1>7. PICK k : k = Start(w)
  OBVIOUS
<1>8. Start(r) = k /\ k \in 0 .. 7
  BY <1>3, <1>7, StartIn DEF Start
<1>9. Begins(Out(w.connector), Left(4, 7)) /\ (Flows(w) => k <= n /\ Begins(Gone(w), Left(k, n)))
  BY <1>7 DEF TunnelData, TunnelUp
<1>10. CASE DataOf(r.up) = DataOf(w.up) /\ ~IsOpen(w.acceptor)
  <2>1. Gone(r) = Gone(w) /\ Flows(r) = Flows(w)
    BY <1>3, <1>10 DEF Gone, Flows
  <2> QED
    BY <1>1, <1>2, <1>3, <1>5, <1>6, <1>8, <1>9, <1>10, <2>1 DEF TunnelData, TunnelUp
<1>11. CASE /\ DataOf(r.up) = DataOf(w.up) \o w.clientBuffer
            /\ IsOpen(w.acceptor) \/ w.far.localClosed
  <2>1. CASE w.far.localClosed
    <3>1. ~Flows(r)
      BY <1>3, <2>1 DEF Flows
    <3> QED
      BY <1>1, <1>2, <1>3, <1>5, <1>6, <1>9, <3>1 DEF TunnelData, TunnelUp
  <2>2. CASE IsOpen(w.acceptor)
    <3>1. PICK g, b, i, d, u \in Seq(Unit) :
             /\ g = Out(w.connector) /\ b = w.clientBuffer /\ i = w.acceptor.inbox
             /\ d = DataOf(w.up) /\ u = Unread(w)
      BY <1>2, GoneIn
    <3>2. Gone(w) = g \o d /\ u = b \o i /\ Gone(r) = g \o (d \o b) /\ Unread(r) = i
      <4>1. Unread(r) = << >> \o i
        BY <1>3, <3>1 DEF Unread
      <4>2. Unread(r) = i
        BY <3>1, <4>1, Cat
      <4> QED
        BY <1>3, <1>11, <3>1, <4>2 DEF Gone, Unread
    <3>3. /\ Gone(r) \in Seq(Unit) /\ Gone(r) \o Unread(r) = Gone(w) \o Unread(w)
      <4>0. g \in Seq(Unit) /\ b \in Seq(Unit) /\ i \in Seq(Unit) /\ d \in Seq(Unit)
        OBVIOUS
      <4>1. Reassoc(g, d, b) /\ g \o d \in Seq(Unit) /\ d \o b \in Seq(Unit)
        BY <4>0, CatAssoc, CatIn, Zenon
      <4>2. Reassoc(g \o d, b, i) /\ (g \o d) \o b \in Seq(Unit)
        BY <4>0, <4>1, CatAssoc, CatIn, Zenon
      <4> QED
        BY <3>1, <3>2, <4>1, <4>2, Zenon DEF Reassoc
    <3>4. ASSUME Flows(r)
          PROVE  /\ k <= n /\ Begins(Gone(r), Left(k, n))
                 /\ Runs(Gone(r) \o Unread(r), Left(k, n), r.acceptor.reset)
      <4>1. Flows(w)
        BY <1>3, <3>4 DEF Flows
      <4>2. Runs(Gone(r) \o Unread(r), Left(k, n), r.acceptor.reset)
        BY <1>3, <1>7, <2>2, <3>3, <4>1 DEF TunnelData, TunnelUp
      <4>3. Begins(Gone(r), Gone(r) \o Unread(r)) /\ Gone(r) \o Unread(r) \in Seq(Unit)
        BY <3>1, <3>2, <3>3, BeginsMore, Cat, Zenon
      <4>4. Begins(Gone(r) \o Unread(r), Left(k, n))
        BY <4>2 DEF Runs
      <4>5. Begins(Gone(r), Left(k, n))
        BY <3>3, <4>3, <4>4, BeginsTrans
      <4> QED
        BY <1>9, <4>1, <4>2, <4>5
    <3> QED
      BY <1>1, <1>2, <1>3, <1>5, <1>6, <1>8, <1>9, <3>4 DEF TunnelData, TunnelUp
  <2> QED
    BY <1>11, <2>1, <2>2
<1> QED
  BY <1>3, <1>10, <1>11

LEMMA ForwarderTurnData ==
    ASSUME NEW w, NEW o, TunnelOK(w, o), Fresh(w), NEW n, NEW m, TunnelData(w, n, m)
    PROVE  LET r == ForwarderTurn(w) IN TunnelData(r, n, m)
<1>1. PICK r : r = ForwarderTurn(w)
  OBVIOUS
<1>2. CASE w.clientBuffer # << >> /\ w.state = "Greeting"
  <2>1. PICK x : x = ForwarderGreeting(w)
    OBVIOUS
  <2>2. TunnelData(x, n, m)
    BY <1>2, <2>1, ForwarderGreetingData
  <2>3. r = x
    BY <1>1, <1>2, <2>1 DEF ForwarderTurn
  <2> QED
    BY <1>1, <2>2, <2>3
<1>3. CASE w.clientBuffer # << >> /\ w.state = "Request"
  <2>1. PICK x : x = ForwarderRequest(w)
    OBVIOUS
  <2>2. TunnelData(x, n, m)
    BY <1>3, <2>1, ForwarderRequestData
  <2>3. r = x
    BY <1>1, <1>3, <2>1 DEF ForwarderTurn
  <2> QED
    BY <1>1, <2>2, <2>3
<1>4. CASE w.clientBuffer # << >> /\ w.state = "Connected"
  <2>1. PICK x : x = ForwardToStream(w)
    OBVIOUS
  <2>2. TunnelData(x, n, m)
    BY <1>4, <2>1, ForwardToStreamData
  <2>3. r = x
    BY <1>1, <1>4, <2>1 DEF ForwarderTurn
  <2> QED
    BY <1>1, <2>2, <2>3
<1>5. CASE w.clientBuffer = << >> \/ w.state \notin {"Greeting", "Request", "Connected"}
  <2>1. r = w
    BY <1>1, <1>5 DEF ForwarderTurn
  <2> QED
    BY <1>1, <2>1
<1> QED
  BY <1>2, <1>3, <1>4, <1>5

(* What is read from the client goes to clientBuffer, ...                  *)
LEMMA TunnelStored ==
    ASSUME NEW w, NEW o, TunnelHalf(w, o), NEW n, NEW m, TunnelData(w, n, m),
           NEW s, Beneath(w.acceptor, s), s.reset = w.acceptor.reset,
           NEW r, r.state = w.state, r.handler = w.handler, r.buffer = w.buffer,
           r.far = w.far, r.up = w.up, r.down = w.down, r.acceptor = s,
           r.connector = w.connector, Unread(r) = Unread(w)
    PROVE  TunnelData(r, n, m)
<1>1. SockOK(w.acceptor)
  BY TunnelFields
<1>2. Heard(s) = Heard(w.acceptor) /\ s.fd = w.acceptor.fd
  BY <1>1, BeneathSame
<1>3. Bare(r)
  BY <1>2 DEF TunnelData, Bare, IsOpen
<1>4. Asked(r)
  BY DEF TunnelData, Asked, Waits, Talking
<1>5. TunnelDown(r, m)
  BY <1>2 DEF TunnelData, TunnelDown, IsOpen
<1>6. Gone(r) = Gone(w) /\ Start(r) = Start(w) /\ Flows(r) = Flows(w)
  BY DEF Gone, Start, Flows
<1>7. TunnelUp(r, n)
  BY <1>2, <1>6 DEF TunnelData, TunnelUp, IsOpen
<1> QED
  BY <1>3, <1>4, <1>5, <1>7 DEF TunnelData

(* ... and from there as far as it can.                                    *)
LEMMA ForwarderDataHeard ==
    ASSUME NEW w, NEW o, TunnelOK(w, o), NEW n, NEW m, TunnelData(w, n, m),
           MayRead(w.acceptor), NEW k \in 1 .. Len(w.acceptor.inbox),
           NEW v, TunnelOK(v, o), Peer(w, v), v.connector = w.connector,
           v.acceptor = Read(w.acceptor, k)
    PROVE  LET r == OnReceiveData(v, SubSeq(w.acceptor.inbox, 1, k)) IN TunnelData(r, n, m)
<1>1. PICK d, i, s : /\ d = SubSeq(w.acceptor.inbox, 1, k) /\ i = Rest(w.acceptor.inbox, k)
                     /\ s = Read(w.acceptor, k)
  BY Zenon
<1>2. SockOK(w.acceptor) /\ TunnelHalf(w, o) /\ w.clientBuffer \in Seq(Unit)
  BY FarKnown, TunnelFields
<1>3. /\ Beneath(w.acceptor, s) /\ s.inbox = i /\ s.reset = w.acceptor.reset
      /\ d \in Seq(Unit) /\ i \in Seq(Unit) /\ d \o i = w.acceptor.inbox
      /\ IsOpen(w.acceptor) /\ ~w.acceptor.reset
  BY <1>1, <1>2, ReadOp, Zenon
<1>4. PICK b : b = w.clientBuffer \o d
  OBVIOUS
<1>5. b \in Seq(Unit) /\ b \o i = Unread(w)
  <2>1. PICK c \in Seq(Unit) : c = w.clientBuffer
    BY <1>2
  <2>2. c \o d \in Seq(Unit) /\ Reassoc(c, d, i)
    BY <1>3, CatIn, CatAssoc, Zenon
  <2> QED
    BY <1>3, <1>4, <2>1, <2>2 DEF Unread, Reassoc
<1>6. PICK x : x = [v EXCEPT !.clientBuffer = b]
  BY Zenon
<1>7. v \in TunnelObjs
  BY DEF TunnelOK, TunnelHalf
<1>8. /\ x.state = v.state /\ x.handler = v.handler /\ x.buffer = v.buffer
      /\ x.far = v.far /\ x.up = v.up /\ x.down = v.down /\ x.acceptor = v.acceptor
      /\ x.connector = v.connector /\ x.clientBuffer = b
  BY <1>5, <1>6, <1>7, SetClientBuffer
<1>9. Unread(x) = Unread(w)
  BY <1>1, <1>3, <1>5, <1>8 DEF Unread
<1>10. TunnelData(x, n, m)
  <2>1. /\ x.state = w.state /\ x.handler = w.handler /\ x.buffer = w.buffer
        /\ x.far = w.far /\ x.up = w.up /\ x.down = w.down /\ x.acceptor = s
        /\ x.connector = w.connector
    BY <1>1, <1>8 DEF Peer, Keeps
  <2> QED
    BY <1>2, <1>3, <1>9, <2>1, TunnelStored
<1>11. TunnelOK(x, o) /\ Fresh(x)
  <2>1. TunnelOK(x, o)
    BY <1>5, <1>6, TunnelBuffersSet
  <2>2. IsOpen(x.acceptor) /\ ~x.acceptor.reset
    BY <1>1, <1>3, <1>8 DEF Beneath, IsOpen
  <2> QED
    BY <2>1, <2>2 DEF Fresh
<1>12. PICK y : y = ForwarderTurn(x)
  OBVIOUS
<1>13. TunnelOK(y, o) /\ Fresh(y) /\ TunnelData(y, n, m)
  BY <1>10, <1>11, <1>12, ForwarderTurnOK, ForwarderTurnData
<1>14. PICK z : z = ForwarderTurn(y)
  OBVIOUS
<1>15. TunnelOK(z, o) /\ Fresh(z) /\ TunnelData(z, n, m)
  BY <1>13, <1>14, ForwarderTurnOK, ForwarderTurnData
<1>16. PICK r : r = ForwarderTurn(z)
  OBVIOUS
<1>17. TunnelData(r, n, m)
  BY <1>15, <1>16, ForwarderTurnData
<1>18. OnReceiveData(v, d) = r
  <2>1. [v EXCEPT !.clientBuffer = @ \o d] = x
    BY <1>4, <1>6 DEF Peer, Keeps
  <2> QED
    BY <1>12, <1>14, <1>16, <2>1, Zenon DEF OnReceiveData
<1> QED
  BY <1>1, <1>17, <1>18

-----------------------------------------------------------------------------
(* What a frame from the far end brings.                                   *)
Owed(w, data, m) ==
    /\ m \in 0 .. 2
    /\ w.connector.inbox \in Seq(Payload)
    /\ Begins(Heard(w.acceptor), TargetScript)
    /\ IsOpen(w.acceptor) =>
          Runs(Heard(w.acceptor)
                   \o (DataIn(data) \o (DataIn(DataOf(w.down)) \o w.connector.inbox)),
               Had(m), w.connector.reset)

(* No answer is there before the request has been answered.                *)
LEMMA Answered ==
    ASSUME NEW w, NEW o, TunnelHalf(w, o), Asked(w), w.down # << >>
    PROVE  Talking(w) /\ ~Waits(w)
  BY DEF TunnelHalf, Unopened, Asked

LEMMA TakenDown ==
    ASSUME NEW w, NEW o, TunnelHalf(w, o), NEW m, TunnelDown(w, m), w.down # << >>,
           NEW r, r.acceptor = w.acceptor, r.connector = w.connector, r.down = Tail(w.down)
    PROVE  Owed(r, w.down[1].data, m) /\ w.down[1].data \in Seq(Unit)
<1>0. w.down \in Seq(Frames)
  BY TunnelFields
<1>1. /\ DataOf(w.down) = w.down[1].data \o DataOf(r.down)
      /\ w.down[1].data \in Seq(Unit) /\ DataOf(r.down) \in Seq(Unit)
  BY <1>0, LoadTail
<1>2. PICK d, e : d = w.down[1].data /\ e = DataOf(r.down)
  OBVIOUS
<1>3. DataIn(d \o e) = DataIn(d) \o DataIn(e) /\ DataIn(d) \in Seq(Unit) /\ DataIn(e) \in Seq(Unit)
  BY <1>1, <1>2, DataCat, DataTyped
<1>4. PICK p, q, i \in Seq(Unit) : p = DataIn(d) /\ q = DataIn(e) /\ i = w.connector.inbox
  BY <1>3, GoneIn
<1>5. (p \o q) \o i = p \o (q \o i)
  <2>1. Reassoc(p, q, i)
    BY CatAssoc, Zenon
  <2> QED
    BY <2>1, Zenon DEF Reassoc
<1>6. DataIn(DataOf(w.down)) \o i = p \o (q \o i)
  BY <1>1, <1>2, <1>3, <1>4, <1>5
<1> QED
  BY <1>1, <1>2, <1>4, <1>6 DEF TunnelDown, Owed

(* It is dropped when there is nobody to get it, ...                       *)
LEMMA DownDropped ==
    ASSUME NEW w, NEW o, TunnelHalf(w, o), NEW n, NEW m, TunnelData(w, n, m), w.down # << >>,
           NEW r, r.state = w.state, r.handler = w.handler, r.buffer = w.buffer,
           r.far = w.far, r.up = w.up, r.connector = w.connector,
           ~IsOpen(r.acceptor), Hears(w.acceptor, r.acceptor)
    PROVE  TunnelData(r, n, m)
<1>1. ~Waits(w)
  BY Answered DEF TunnelData
<1>2. Asked(r) /\ Bare(r)
  BY <1>1 DEF Asked, Waits, Bare, TunnelData
<1>3. TunnelDown(r, m)
  <2>1. Begins(Heard(r.acceptor), Heard(w.acceptor)) /\ SockOK(r.acceptor)
    BY DEF Hears
  <2>2. Heard(r.acceptor) \in Seq(Unit) /\ Heard(w.acceptor) \in Seq(Unit)
    BY <2>1, HeardIn, GoneIn
  <2>3. Begins(Heard(r.acceptor), TargetScript)
    BY <2>1, <2>2, BeginsTrans DEF TunnelData, TunnelDown
  <2> QED
    BY <2>3 DEF TunnelData, TunnelDown
<1>4. Gone(r) = Gone(w) /\ Start(r) = Start(w) /\ Flows(r) = Flows(w)
  BY DEF Gone, Start, Flows
<1>5. TunnelUp(r, n)
  BY <1>4 DEF TunnelData, TunnelUp
<1> QED
  BY <1>2, <1>3, <1>5 DEF TunnelData

(* ... or sent to the client, ...                                          *)
LEMMA SentOn ==
    ASSUME NEW w, NEW o, TunnelOK(w, o), Talking(w), ~Waits(w), NEW data \in Seq(Unit),
           NEW n, NEW m, Bare(w), TunnelUp(w, n), Owed(w, data, m)
    PROVE  LET r == Sending(w, "acceptor", data) IN TunnelData(r, n, m) /\ Keeps(w, r)
                                                    /\ r.far = w.far
<1>1. PICK s : s = Send(w.acceptor, data)
  OBVIOUS
<1>2. TunnelHalf(w, o) /\ SockOK(w.acceptor) /\ w["acceptor"] = w.acceptor
      /\ (IsOpen(w.acceptor) => w.acceptor.status # "Connecting")
  BY FarKnown, TunnelFields
<1>3. Op(w.acceptor, s)
  BY <1>1, <1>2, SendOp
<1>4. Passes(w.acceptor, s, data)
  BY <1>1, <1>2, SendPasses
<1>5. PICK r : r = Update(w, "acceptor", s)
  OBVIOUS
<1>6. /\ r.acceptor = s /\ r.connector = w.connector /\ Keeps(w, r)
      /\ r.far = w.far /\ r.down = w.down /\ Adds(w.up, r.up)
  BY <1>3, <1>5, NearShape
<1>7. Sending(w, "acceptor", data) = r
  BY <1>1, <1>2, <1>5 DEF Sending
<1>8. DataOf(r.up) = DataOf(w.up)
  BY <1>2, <1>6, AddsNothing, TunnelFields
<1>9. Bare(r) /\ Asked(r)
  BY <1>6 DEF Bare, Asked, Waits, Keeps, Talking
<1>10. Gone(r) = Gone(w) /\ Start(r) = Start(w) /\ Flows(r) = Flows(w)
       /\ Unread(r) = Unread(w)
  BY <1>4, <1>6, <1>8 DEF Gone, Start, Flows, Unread, Keeps, Passes
<1>11. TunnelUp(r, n)
  BY <1>4, <1>6, <1>10 DEF TunnelUp, Passes, Keeps
<1>12. PICK tail : tail = DataIn(DataOf(w.down)) \o w.connector.inbox
  OBVIOUS
<1>13. tail \in Seq(Unit)
  <2>1. DataOf(w.down) \in Seq(Unit) /\ w.connector.inbox \in Seq(Unit)
    BY <1>2, GoneIn
  <2>2. DataIn(DataOf(w.down)) \in Seq(Unit)
    BY <2>1, DataTyped
  <2> QED
    BY <1>12, <2>1, <2>2, Cat, ZenonT(30)
<1>14. /\ Begins(Heard(s), TargetScript)
       /\ IsOpen(s) => Runs(Heard(s) \o tail, Had(m), w.connector.reset)
  <2>1. CASE IsOpen(w.acceptor)
    <3>1. Runs(Heard(w.acceptor) \o (DataIn(data) \o tail), Had(m), w.connector.reset)
      BY <1>12, <2>1 DEF Owed
    <3>2. Had(m) \in Seq(Unit) /\ Begins(Had(m), TargetScript) /\ w.connector.reset \in BOOLEAN
      BY <1>2, HadIs, TunnelFields, Fields, Zenon DEF Owed
    <3>3. /\ IsOpen(s) => Runs(Heard(s) \o tail, Had(m), w.connector.reset)
          /\ Begins(Heard(s), Had(m))
      BY <1>2, <1>4, <1>13, <3>1, <3>2, DownPassed
    <3>4. Heard(s) \in Seq(Unit)
      BY <1>4, HeardIn DEF Passes
    <3> QED
      BY <3>2, <3>3, <3>4, BeginsTrans
  <2>2. CASE ~IsOpen(w.acceptor)
    <3>1. s = w.acceptor
      BY <1>4, <2>2 DEF Passes
    <3> QED
      BY <2>2, <3>1 DEF Owed
  <2> QED
    BY <2>1, <2>2
<1>15. TunnelDown(r, m)
  BY <1>6, <1>12, <1>14 DEF TunnelDown, Owed
<1> QED
  BY <1>6, <1>7, <1>9, <1>11, <1>15 DEF TunnelData

(* ... and the first of it lets go what has come meanwhile.                *)
LEMMA ConnectedSet ==
    ASSUME NEW w, NEW o, TunnelOK(w, o), Talking(w), ~Waits(w),
           NEW n, NEW m, TunnelData(w, n, m)
    PROVE  LET r == [w EXCEPT !.state = "Connected"]
           IN  TunnelData(r, n, m) /\ TunnelOK(r, o) /\ r.state = "Connected"
<1>1. PICK r : r = [w EXCEPT !.state = "Connected"]
  BY Zenon
<1>2. "Connected" \in States
  BY DEF States
<1>3. w \in TunnelObjs
  BY FarKnown DEF TunnelHalf
<1>4. /\ r.state = "Connected" /\ r.acceptor = w.acceptor /\ r.connector = w.connector
      /\ r.clientBuffer = w.clientBuffer /\ r.handler = w.handler /\ r.buffer = w.buffer
      /\ r.far = w.far /\ r.up = w.up /\ r.down = w.down
  BY <1>1, <1>2, <1>3, SetState
<1>5. TunnelOK(r, o)
  BY <1>1, <1>2, TunnelStateSet DEF Talking
<1>6. Bare(r) /\ Asked(r)
  BY <1>4 DEF TunnelData, Bare, Asked, Waits
<1>7. TunnelDown(r, m)
  BY <1>4 DEF TunnelData, TunnelDown
<1>8. /\ Gone(r) = Gone(w) /\ Start(r) = Start(w) /\ Unread(r) = Unread(w)
      /\ Flows(r) = Flows(w)
  BY <1>4 DEF Gone, Start, Unread, Flows, Talking
<1>9. TunnelUp(r, n)
  BY <1>4, <1>8 DEF TunnelData, TunnelUp
<1> QED
  BY <1>1, <1>4, <1>5, <1>6, <1>7, <1>9 DEF TunnelData

LEMMA ReplyData ==
    ASSUME NEW w, NEW o, TunnelOK(w, o), Talking(w), ~Waits(w), NEW data \in Seq(Unit),
           NEW n, NEW m, Bare(w), TunnelUp(w, n), Owed(w, data, m)
    PROVE  LET r == ForwarderStreamData(w, data) IN TunnelData(r, n, m)
<1>1. PICK v : v = Sending(w, "acceptor", data)
  OBVIOUS
<1>2. TunnelData(v, n, m) /\ Keeps(w, v) /\ v.far = w.far
  BY <1>1, SentOn
<1>3. TunnelOK(v, o)
  BY <1>1, SendingNear
<1>4. PICK r : r = ForwarderStreamData(w, data)
  OBVIOUS
<1>5. CASE w.state = "Connecting"
  <2>1. Talking(v) /\ ~Waits(v)
    BY <1>2 DEF Keeps, Talking, Waits
  <2>2. PICK x : x = [v EXCEPT !.state = "Connected"]
    OBVIOUS
  <2>3. TunnelData(x, n, m) /\ TunnelOK(x, o) /\ x.state = "Connected"
    BY <1>2, <1>3, <2>1, <2>2, ConnectedSet
  <2>4. PICK y : y = ForwardToStream(x)
    OBVIOUS
  <2>5. TunnelData(y, n, m)
    BY <2>3, <2>4, ForwardToStreamData
  <2>6. r = y
    BY <1>1, <1>4, <1>5, <2>2, <2>4 DEF ForwarderStreamData
  <2> QED
    BY <1>4, <2>5, <2>6
<1>6. CASE w.state = "Connected"
  <2>1. r = v
    BY <1>1, <1>4, <1>6 DEF ForwarderStreamData
  <2> QED
    BY <1>2, <1>4, <2>1
<1> QED
  BY <1>5, <1>6 DEF Talking

LEMMA NearFrameData ==
    ASSUME NEW w, NEW o, TunnelOK(w, o), w.down # << >>, NEW result \in ConnectResults,
           NEW n, NEW m, TunnelData(w, n, m)
    PROVE  LET r == HandleFrame(w, "near", result) IN TunnelData(r, n, m)
<1>0. w \in TunnelObjs /\ TunnelHalf(w, o) /\ w.down \in Seq(Frames) /\ EndsOK(w) /\ LinesOK(w)
      /\ Told(w)
  BY TunnelFields DEF TunnelOK, TunnelHalf
<1>t. Talking(w) /\ FarOK(w, o) /\ NearOK(w) /\ ~Waits(w)
  BY <1>0, Answered DEF TunnelHalf, Unopened, TunnelData
<1>1. PICK x, g : x = Head(w.down) /\ g = Tail(w.down)
  OBVIOUS
<1>2. /\ x \in Frames /\ g \in Seq(Frames) /\ (Ended(w.down) <=> Ends(x) \/ Ended(g))
      /\ NoSyn(g) /\ x.kind # "SYN" /\ x = w.down[1]
  BY <1>0, <1>1, EndedTail DEF LinesOK
<1>3. PICK rest : rest = [w EXCEPT !.down = g]
  OBVIOUS
<1>4. /\ rest \in TunnelObjs /\ rest.connector = w.connector /\ rest.acceptor = w.acceptor
      /\ rest.state = w.state /\ rest.hasStreamId = w.hasStreamId /\ rest.handler = w.handler
      /\ rest.near = w.near /\ rest.far = w.far /\ rest.up = w.up /\ rest.down = g
      /\ rest.buffer = w.buffer /\ rest.clientBuffer = w.clientBuffer
  BY <1>0, <1>2, <1>3, SetDown
<1>5. PICK r : r = HandleFrame(w, "near", result)
  OBVIOUS
<1>6. [w EXCEPT !.down = Tail(@)] = rest
  BY <1>1, <1>3
<1>7. w["near"] = w.near /\ rest["near"] = rest.near
  OBVIOUS
<1>8. SockOK(w.acceptor) /\ TRUE \in BOOLEAN
  BY <1>0, TunnelFields
<1>9. CASE ~w.near.known \/ w.near.remoteClosed
  <2>1. ~IsOpen(rest.acceptor)
    BY <1>t, <1>4, <1>9 DEF NearOK
  <2>2. Hears(w.acceptor, rest.acceptor)
    BY <1>4, <1>8, QuietSame
  <2>3. TunnelData(rest, n, m)
    BY <1>0, <1>4, <2>1, <2>2, DownDropped
  <2>4. r = rest
    BY <1>1, <1>2, <1>5, <1>6, <1>7, <1>9 DEF HandleFrame
  <2> QED
    BY <1>5, <2>3, <2>4
<1>10. CASE w.near.known /\ ~w.near.remoteClosed /\ x.kind = "Data"
  <2>1. ~Ends(x) /\ x.data \in Seq(Unit)
    BY <1>2, <1>10 DEF Ends, Frames
  <2>2. r = ForwarderStreamData(rest, x.data)
    BY <1>1, <1>2, <1>5, <1>6, <1>7, <1>10, Zenon DEF HandleFrame
  <2>3. TunnelOK(rest, o)
    <3>1. EndsOK(rest) /\ LinesOK(rest) /\ Talking(rest) /\ NearOK(rest) /\ Told(rest)
      BY <1>0, <1>t, <1>2, <1>4 DEF EndsOK, PausesAlone, LinesOK, Talking, NearOK, Told
    <3>2. FarOK(rest, o)
      BY <1>t, <1>2, <1>4, <2>1 DEF FarOK
    <3> QED
      BY <1>0, <1>4, <3>1, <3>2 DEF TunnelOK, TunnelHalf
  <2>4. Owed(rest, x.data, m)
    BY <1>0, <1>1, <1>2, <1>4, TakenDown DEF TunnelData
  <2>5. Talking(rest) /\ ~Waits(rest) /\ Bare(rest)
    BY <1>t, <1>4 DEF Talking, Waits, Bare, TunnelData
  <2>6. TunnelUp(rest, n)
    <3>1. /\ Gone(rest) = Gone(w) /\ Start(rest) = Start(w) /\ Unread(rest) = Unread(w)
          /\ Flows(rest) = Flows(w)
      BY <1>4 DEF Gone, Start, Unread, Flows
    <3> QED
      BY <1>4, <3>1 DEF TunnelData, TunnelUp
  <2>7. PICK y : y = ForwarderStreamData(rest, x.data)
    OBVIOUS
  <2>8. TunnelData(y, n, m)
    BY <2>1, <2>3, <2>4, <2>5, <2>6, <2>7, ReplyData
  <2> QED
    BY <1>5, <2>2, <2>7, <2>8
<1>11. CASE w.near.known /\ ~w.near.remoteClosed /\ x.kind # "Data"
  <2>1. PICK k : k = [w.near EXCEPT !.remoteClosed = TRUE]
    OBVIOUS
  <2>2. k \in Streams /\ k.localClosed = w.near.localClosed
    BY <1>0, <2>1, TunnelFields DEF Streams
  <2>3. PICK heard : heard = [rest EXCEPT !.near = k]
    OBVIOUS
  <2>4. /\ heard \in TunnelObjs /\ heard.connector = w.connector /\ heard.acceptor = w.acceptor
        /\ heard.state = w.state /\ heard.handler = w.handler /\ heard.buffer = w.buffer
        /\ heard.near = k /\ heard.far = w.far /\ heard.up = w.up
    BY <1>4, <2>2, <2>3, SetNear
  <2>5. heard = [rest EXCEPT !["near"].remoteClosed = TRUE]
    BY <1>4, <2>1, <2>3
  <2>6. r = StreamClosed(rest, "near")
    BY <1>1, <1>2, <1>5, <1>6, <1>7, <1>11 DEF HandleFrame
  <2>7. r = IF k.localClosed THEN heard ELSE ForwarderStreamClose(heard)
    BY <2>4, <2>5, <2>6 DEF StreamClosed
  <2>8. PICK a : a = Close(w.acceptor, TRUE)
    BY Zenon
  <2>9. Op(w.acceptor, a) /\ ~IsOpen(a) /\ Hears(w.acceptor, a)
    <3>1. /\ Op(w.acceptor, a)
          /\ IsOpen(w.acceptor) => a.fd = "closed"
          /\ ~IsOpen(w.acceptor) => a = w.acceptor
      BY <1>8, <2>8, CloseOp, Zenon
    <3>2. Quiet(w.acceptor, a)
      BY <1>8, <2>8, QuietClose
    <3> QED
      BY <1>8, <3>1, <3>2, QuietHears DEF IsOpen
  <2>10. k.localClosed => w.acceptor = a
    BY <1>t, <2>2, <2>9 DEF NearOK, Op
  <2>11. /\ r.connector = w.connector /\ r.acceptor = a /\ r.state = w.state
         /\ r.handler = w.handler /\ r.buffer = w.buffer /\ r.far = w.far /\ r.up = w.up
    <3>1. CASE k.localClosed
      BY <2>4, <2>7, <2>10, <3>1
    <3>2. CASE ~k.localClosed
      <4>1. PICK v : v = [heard EXCEPT !.hasStreamId = FALSE]
        OBVIOUS
      <4>2. FALSE \in BOOLEAN
        OBVIOUS
      <4>3. /\ v \in TunnelObjs /\ v.connector = w.connector /\ v.acceptor = w.acceptor
            /\ v.state = w.state /\ v.handler = w.handler /\ v.buffer = w.buffer
            /\ v.far = w.far /\ v.up = w.up
        BY <2>4, <4>1, <4>2, SetHasStreamId
      <4>4. r = [v EXCEPT !.acceptor = a]
        BY <2>4, <2>7, <2>8, <3>2, <4>1, <4>3 DEF ForwarderStreamClose
      <4>5. a \in Socket
        BY <2>9 DEF Op, SockOK
      <4> QED
        BY <4>3, <4>4, <4>5, SetAcceptor
    <3> QED
      BY <3>1, <3>2
  <2>12. TunnelData(r, n, m)
    BY <1>0, <2>9, <2>11, DownDropped
  <2> QED
    BY <1>5, <2>12
<1> QED
  BY <1>9, <1>10, <1>11

-----------------------------------------------------------------------------
(* What a frame from the near end brings.                                  *)
LEMMA FirstUp ==
    ASSUME NEW w, NEW o, TunnelHalf(w, o), w.up # << >>
    PROVE  /\ Talking(w) /\ Tail(w.up) \in Seq(Frames)
           /\ w.up[1].data \in Seq(Unit) /\ DataOf(Tail(w.up)) \in Seq(Unit)
           /\ DataOf(w.up) = w.up[1].data \o DataOf(Tail(w.up))
           /\ DataOf(w.up) = << >> => w.up[1].data = << >> /\ DataOf(Tail(w.up)) = << >>
<1>1. w.up \in Seq(Frames)
  BY TunnelFields
<1>2. /\ DataOf(w.up) = w.up[1].data \o DataOf(Tail(w.up)) /\ Tail(w.up) \in Seq(Frames)
      /\ w.up[1].data \in Seq(Unit) /\ DataOf(Tail(w.up)) \in Seq(Unit)
  BY <1>1, LoadTail
<1>3. DataOf(w.up) = << >> => w.up[1].data = << >> /\ DataOf(Tail(w.up)) = << >>
  BY <1>2, NothingIn, Zenon
<1>4. Talking(w)
  BY DEF TunnelHalf, Unopened
<1> QED
  BY <1>2, <1>3, <1>4

(* It is dropped when there is nobody to get it.                           *)
LEMMA UpDropped ==
    ASSUME NEW w, NEW o, TunnelHalf(w, o), NEW n, NEW m, TunnelData(w, n, m), w.up # << >>,
           w.far.remoteClosed \/ w.handler = "Connecting",
           NEW r, r.state = w.state, r.handler = w.handler, r.buffer = w.buffer,
           r.clientBuffer = w.clientBuffer, r.far = w.far, r.down = w.down,
           r.acceptor = w.acceptor, r.connector = w.connector, r.up = Tail(w.up)
    PROVE  TunnelData(r, n, m)
<1>1. Talking(w) /\ (DataOf(w.up) = << >> => DataOf(r.up) = << >>)
  BY FirstUp
<1>2. Asked(w) /\ Bare(w) /\ TunnelUp(w, n) /\ TunnelDown(w, m)
  BY DEF TunnelData
<1>3. w.handler \notin {"none", "WaitingRequest"}
  BY <1>1, <1>2 DEF Asked, NotYet, Standing
<1>4. Asked(r)
  BY <1>1, <1>2, <1>3 DEF Asked, Waits, Talking
<1>5. Bare(r) /\ TunnelDown(r, m)
  BY <1>2 DEF Bare, TunnelDown
<1>6. Flows(r) = Flows(w) /\ Start(r) = Start(w) /\ Unread(r) = Unread(w)
  BY DEF Flows, Start, Unread
<1>7. Flows(w) => Gone(r) = Gone(w)
  <2> SUFFICES ASSUME Flows(w) PROVE Gone(r) = Gone(w)
    OBVIOUS
  <2>1. DataOf(w.up) = << >>
    BY <1>1, <1>2 DEF Flows, Asked
  <2> QED
    BY <1>1, <2>1 DEF Gone
<1>8. TunnelUp(r, n)
  BY <1>2, <1>6, <1>7 DEF TunnelUp
<1> QED
  BY <1>4, <1>5, <1>8 DEF TunnelData

(* The stream is there at the far end.                                     *)
LEMMA SynData ==
    ASSUME NEW w, NEW o, TunnelHalf(w, o), NEW n, NEW m, TunnelData(w, n, m), w.up # << >>,
           NotYet(w.far), w.handler = "none",
           NEW r, r.state = w.state, r.handler = "WaitingRequest", r.buffer = w.buffer,
           r.clientBuffer = w.clientBuffer, Standing(r.far), r.down = w.down,
           r.acceptor = w.acceptor, r.connector = w.connector, r.up = Tail(w.up)
    PROVE  TunnelData(r, n, m)
<1>1. Talking(w) /\ DataOf(w.up) = w.up[1].data \o DataOf(r.up) /\ DataOf(r.up) \in Seq(Unit)
  BY FirstUp
<1>2. Asked(w) /\ Bare(w) /\ TunnelUp(w, n) /\ TunnelDown(w, m)
  BY DEF TunnelData
<1>3. w.up[1].data = << >> /\ RequestFirst(r.up) /\ Waits(w)
  BY <1>1, <1>2 DEF Asked, Waits
<1>4. w.state = "Connecting" /\ w.down = << >>
  BY <1>1, <1>2, <1>3 DEF Asked
<1>5. Asked(r)
  BY <1>3, <1>4 DEF Asked, Waits
<1>6. Bare(r) /\ TunnelDown(r, m)
  BY <1>2 DEF Bare, TunnelDown
<1>7. Flows(r) = Flows(w) /\ Unread(r) = Unread(w) /\ Start(r) = Start(w)
  <2>1. Flows(w) /\ Flows(r)
    BY <1>4 DEF Flows, NotYet, Standing
  <2>2. Start(r) = Start(w)
    BY <1>4 DEF Start
  <2> QED
    BY <2>1, <2>2 DEF Unread
<1>8. Gone(r) = Gone(w)
  <2>1. DataOf(w.up) = DataOf(r.up)
    BY <1>1, <1>3, Cat
  <2> QED
    BY <2>1 DEF Gone
<1>9. TunnelUp(r, n)
  BY <1>2, <1>7, <1>8 DEF TunnelUp
<1> QED
  BY <1>5, <1>6, <1>9 DEF TunnelData

(* Its first data is the request: what follows is for the target.          *)
LEMMA AskedForData ==
    ASSUME NEW w, NEW o, TunnelHalf(w, o), NEW n, NEW m, TunnelData(w, n, m), w.up # << >>,
           w.handler = "WaitingRequest", Out(w.connector) = << >>,
           NEW r, r.state = w.state, r.handler = "Connecting", r.buffer = << >>,
           r.clientBuffer = w.clientBuffer, r.far = w.far, r.down = w.down,
           r.acceptor = w.acceptor, Out(r.connector) = << >>,
           r.connector.inbox = w.connector.inbox, r.connector.reset = w.connector.reset,
           r.connector.status \notin {"Connected", "Closing"}, r.up = Tail(w.up)
    PROVE  TunnelData(r, n, m)
<1>1. /\ Talking(w) /\ DataOf(w.up) = w.up[1].data \o DataOf(r.up)
      /\ w.up[1].data \in Seq(Unit)
  BY FirstUp, Zenon
<1>2. Asked(w) /\ Bare(w) /\ TunnelUp(w, n) /\ TunnelDown(w, m)
  BY DEF TunnelData
<1>3. RequestFirst(w.up) /\ Waits(w) /\ Standing(w.far)
  BY <1>1, <1>2 DEF Asked, Waits
<1>4. w.state = "Connecting" /\ w.down = << >>
  BY <1>1, <1>2, <1>3 DEF Asked
<1>5. DataOf(r.up) = << >>
  BY <1>3 DEF RequestFirst
<1>6. Asked(r)
  BY <1>4, <1>5 DEF Asked, Waits
<1>7. Bare(r) /\ TunnelDown(r, m)
  BY <1>2 DEF Bare, TunnelDown
<1>8. Flows(w) /\ Flows(r) /\ Unread(r) = Unread(w) /\ Start(w) = 2 /\ Start(r) = 4
  <2>1. Flows(w) /\ Flows(r)
    BY <1>3, <1>4 DEF Flows, Standing
  <2>2. Start(r) = 4 /\ Start(w) = 2
    BY <1>4 DEF Start
  <2> QED
    BY <2>1, <2>2 DEF Unread
<1>9. PICK s \in Seq(Unit) : s = w.up[1].data
  BY <1>1
<1>10. Gone(w) = s /\ Gone(r) = << >> /\ Len(s) = 2
  <2>1. DataOf(w.up) = s \o << >>
    BY <1>1, <1>5, <1>9
  <2>2. DataOf(w.up) = s
    BY <2>1, Cat
  <2>3. Gone(w) = << >> \o s /\ Gone(r) = << >> \o << >>
    BY <1>5, <2>2 DEF Gone
  <2>4. << >> \o s = s /\ << >> \o << >> = << >>
    BY Cat
  <2>5. Len(s) = 2
    BY <1>3, <1>9 DEF RequestFirst
  <2> QED
    BY <2>3, <2>4, <2>5
<1>11. PICK x \in Seq(Unit) : x = Unread(w)
  BY GoneIn
<1>12. /\ n \in 0 .. 7 /\ 2 <= n /\ Begins(s, Left(2, n))
       /\ IsOpen(w.acceptor) => Runs(s \o x, Left(2, n), w.acceptor.reset)
       /\ Begins(Out(w.connector), Left(4, 7))
  BY <1>2, <1>8, <1>10, <1>11 DEF TunnelUp
<1>13. PICK k \in {0, 2} : k = 2
  OBVIOUS
<1>14. 4 <= n /\ Begins(<< >>, Left(4, n))
  <2>1. PICK e \in Seq(Unit) : e = << >>
    BY Cat, Zenon
  <2>2. s \o e = s
    BY <2>1, Cat
  <2>3. Begins(s \o e, Left(k, n)) /\ k <= n
    BY <1>12, <1>13, <2>2
  <2>4. k + 2 <= n /\ Begins(e, Left(k + 2, n))
    BY <1>10, <1>12, <2>3, TwoTaken
  <2>5. k + 2 = 4
    BY <1>13
  <2> QED
    BY <2>1, <2>4, <2>5
<1>15. IsOpen(w.acceptor) => Runs(x, Left(4, n), w.acceptor.reset)
  <2> SUFFICES ASSUME IsOpen(w.acceptor) PROVE Runs(x, Left(4, n), w.acceptor.reset)
    OBVIOUS
  <2>1. Begins(s \o x, Left(k, n)) /\ k <= n
        /\ (~w.acceptor.reset => s \o x = Left(k, n))
    BY <1>12, <1>13 DEF Runs
  <2>2. Begins(x, Left(k + 2, n)) /\ (s \o x = Left(k, n) => x = Left(k + 2, n))
    BY <1>10, <1>12, <2>1, TwoTaken, Zenon
  <2>3. k + 2 = 4
    BY <1>13
  <2> QED
    BY <2>1, <2>2, <2>3 DEF Runs
<1>16. << >> \o x = x
  BY Cat
<1>17. TunnelUp(r, n)
  BY <1>8, <1>10, <1>11, <1>12, <1>14, <1>15, <1>16 DEF TunnelUp
<1> QED
  BY <1>6, <1>7, <1>17 DEF TunnelData

(* The target could not be reached.                                        *)
LEMMA ConnectFailedData ==
    ASSUME NEW w, NEW o, TunnelHalf(w, o), NEW n, NEW m, TunnelData(w, n, m),
           w.connector.fd = "none", w.far.known, ~w.far.localClosed, w.handler = "Connecting"
    PROVE  LET r == ConnectFailed(w) IN TunnelData(r, n, m)
<1>1. PICK u \in Unit \ Payload : u = "error"
  BY Replies
<1>2. PICK data : data = <<u>>
  OBVIOUS
<1>3. data \in Seq(Unit) /\ DataIn(data) = << >>
  <2>1. data \in Seq(Unit)
    BY <1>2
  <2>2. DataIn(<<u>>) = << >>
    BY DataOne
  <2> QED
    BY <1>2, <2>1, <2>2
<1>4. PICK v : v = SendToStream(w, "far", data)
  OBVIOUS
<1>5. /\ TunnelHalf(v, o) /\ Alike(w, v) /\ v.up = w.up
      /\ DataOf(v.down) = DataOf(w.down) \o data
  BY <1>3, <1>4, StreamSent, SentDown
<1>6. PICK r : r = CloseStream(v, "far", FALSE)
  BY Zenon
<1>7. /\ ~IsOpen(v.connector) /\ v.far.known /\ ~v.far.localClosed
      /\ v.handler \in {"Connecting", "Connected"}
  BY <1>5 DEF Alike, IsOpen
<1>8. /\ r.acceptor = v.acceptor /\ r.connector = v.connector /\ Keeps(v, r)
      /\ r.far.localClosed /\ r.up = v.up /\ Adds(v.down, r.down)
  BY <1>5, <1>6, <1>7, FarClosed, Zenon
<1>9. DataOf(r.down) = DataOf(w.down) \o data
  BY <1>5, <1>8, AddsNothing, TunnelFields
<1>10. DataIn(DataOf(r.down)) = DataIn(DataOf(w.down))
  <2>1. DataOf(w.down) \in Seq(Unit)
    BY GoneIn
  <2>2. PICK d \in Seq(Unit) : d = DataOf(w.down)
    BY <2>1
  <2>3. DataIn(d \o data) = DataIn(d) \o DataIn(data) /\ DataIn(d) \in Seq(Unit)
    BY <1>3, DataCat, DataTyped, Zenon
  <2>4. DataIn(d) \o << >> = DataIn(d)
    BY <2>3, Cat
  <2> QED
    BY <1>3, <1>9, <2>2, <2>3, <2>4
<1>11. Asked(r) /\ ~Flows(r)
  BY <1>5, <1>8 DEF Asked, Waits, Flows, Alike, Keeps
<1>12. Bare(r) /\ TunnelDown(r, m)
  BY <1>5, <1>8, <1>10 DEF TunnelData, Bare, TunnelDown, Alike, Keeps
<1>13. TunnelUp(r, n)
  BY <1>5, <1>8, <1>11 DEF TunnelData, TunnelUp, Alike
<1>14. r = ConnectFailed(w)
  BY <1>1, <1>2, <1>4, <1>6 DEF ConnectFailed
<1> QED
  BY <1>11, <1>12, <1>13, <1>14 DEF TunnelData

(* What comes once the target is connected is sent to it.                  *)
LEMMA UpSent ==
    ASSUME NEW w, NEW o, TunnelOK(w, o), NEW n, NEW m, TunnelData(w, n, m), w.up # << >>,
           w.handler = "Connected", ~w.far.remoteClosed,
           NEW v, TunnelOK(v, o), v.state = w.state, v.handler = w.handler,
           v.buffer = w.buffer, v.clientBuffer = w.clientBuffer, v.far = w.far,
           v.down = w.down, v.acceptor = w.acceptor, v.connector = w.connector,
           v.up = Tail(w.up)
    PROVE  LET r == Sending(v, "connector", w.up[1].data) IN TunnelData(r, n, m)
<1>1. TunnelHalf(w, o) /\ Talking(w) /\ TunnelHalf(v, o)
  BY FarKnown, FirstUp
<1>2. FarOK(w, o) /\ Told(w)
  BY <1>1 DEF TunnelHalf, TunnelOK
<1>3. PICK d \in Seq(Unit) : d = w.up[1].data
  BY <1>1, FirstUp
<1>4. PICK e \in Seq(Unit) : e = DataOf(v.up)
  BY <1>1, FirstUp
<1>5. DataOf(w.up) = d \o e
  BY <1>1, <1>3, <1>4, FirstUp
<1>6. PICK s : s = Send(v.connector, d)
  OBVIOUS
<1>7. SockOK(v.connector) /\ v["connector"] = v.connector
      /\ (IsOpen(v.connector) => v.connector.status # "Connecting")
  BY <1>1, <1>2, TunnelFields DEF FarOK
<1>8. Op(v.connector, s) /\ Passes(v.connector, s, d)
  BY <1>6, <1>7, SendOp, SendPasses
<1>9. PICK r : r = Update(v, "connector", s)
  OBVIOUS
<1>10. /\ r.connector = s /\ r.acceptor = v.acceptor /\ Keeps(v, r)
       /\ Further(v, r) /\ r.up = v.up
       /\ r.down = v.down \/ (Adds(v.down, r.down) /\ r.far.localClosed)
       /\ s.fd = "closed" => r.far.localClosed
       /\ IsOpen(s) => r.far = v.far
  BY <1>8, <1>9, FarShape
<1>11. Sending(v, "connector", w.up[1].data) = r
  BY <1>3, <1>6, <1>7, <1>9 DEF Sending
<1>12. Asked(r) /\ Bare(r)
  BY <1>10 DEF TunnelData, Asked, Waits, Bare, Keeps
<1>13. DataOf(r.down) = DataOf(w.down)
  <2>1. v.down \in Seq(Frames)
    BY <1>1, TunnelFields
  <2> QED
    BY <1>10, <2>1, AddsNothing
<1>14. TunnelDown(r, m)
  <2>1. s.inbox = w.connector.inbox /\ s.reset = w.connector.reset
    BY <1>8 DEF Passes
  <2> QED
    BY <1>10, <1>13, <2>1 DEF TunnelData, TunnelDown
<1>15. IsOpen(w.connector) => Flows(w)
  BY <1>1, <1>2 DEF FarOK, Flows, Talking
<1>16. w.connector.fd # "none" /\ (w.connector.fd = "closed" => w.far.localClosed)
  BY <1>1, <1>2 DEF FarOK, Told
<1>17. Start(r) = Start(w) /\ Unread(r) = Unread(w)
  BY <1>10 DEF Start, Unread, Keeps
<1>18. PICK g, k : g = Out(w.connector) /\ k = Start(w)
  OBVIOUS
<1>19. g \in Seq(Unit) /\ Begins(g, Left(4, 7)) /\ n \in 0 .. 7 /\ k \in 0 .. 7
  BY <1>1, <1>18, GoneIn, StartIn DEF TunnelData, TunnelUp
<1>20. Flows(w) => /\ k <= n /\ Begins(g \o (d \o e), Left(k, n))
                   /\ IsOpen(w.acceptor) =>
                         Runs((g \o (d \o e)) \o Unread(w), Left(k, n), w.acceptor.reset)
  BY <1>5, <1>18 DEF TunnelData, TunnelUp, Gone
<1>21. g \o (d \o e) = (g \o d) \o e /\ g \o d \in Seq(Unit)
  <2>1. Reassoc(g, d, e) /\ g \o d \in Seq(Unit)
    BY <1>19, CatAssoc, CatIn, Zenon
  <2> QED
    BY <2>1, Zenon DEF Reassoc
<1>22. CASE ~IsOpen(w.connector)
  <2>1. s = w.connector
    BY <1>8, <1>22 DEF Passes
  <2>2. w.far.localClosed
    <3>1. w.connector.fd \in {"none", "open", "closed"}
      BY <1>1, TunnelFields
    <3> QED
      BY <1>16, <1>22, <3>1 DEF IsOpen
  <2>3. ~Flows(r)
    BY <1>10, <2>2 DEF Flows, Further
  <2>4. TunnelUp(r, n)
    BY <1>10, <1>18, <1>19, <2>1, <2>3 DEF TunnelUp, Keeps
  <2> QED
    BY <1>11, <1>12, <1>14, <2>4 DEF TunnelData
<1>23. CASE IsOpen(w.connector)
  <2>1. k <= n /\ Begins((g \o d) \o e, Left(k, n)) /\ k = 4
    <3>1. Start(w) = 4
      BY <1>1, StartIs DEF Talking
    <3> QED
      BY <1>15, <1>18, <1>20, <1>21, <1>23, <3>1
  <2>2. Begins(g \o d, Left(4, 7))
    <3>1. Left(k, n) \in Seq(Unit) /\ (g \o d) \o e \in Seq(Unit) /\ 7 \in 0 .. 7
      <4>1. Left(k, n) \in Seq(Unit)
        BY <1>19, <2>1, Units, ZenonT(30)
      <4>2. (g \o d) \o e \in Seq(Unit)
        BY <1>21, Cat, ZenonT(30)
      <4> QED
        BY <4>1, <4>2
    <3>2. Begins(g \o d, (g \o d) \o e)
      BY <1>21, BeginsMore
    <3>3. Begins(g \o d, Left(k, n))
      BY <1>21, <2>1, <3>1, <3>2, BeginsTrans
    <3>4. Begins(Left(k, n), Left(k, 7))
      BY <1>19, <2>1, LeftBegins
    <3> QED
      BY <1>21, <2>1, <3>1, <3>3, <3>4, BeginsTrans
  <2>3. Begins(Out(s), Left(4, 7))
    <3>1. Begins(Out(s), g \o d) /\ SockOK(s)
      BY <1>8, <1>18 DEF Passes
    <3>2. Out(s) \in Seq(Unit)
      BY <3>1, OutIn
    <3> QED
      BY <1>21, <2>2, <3>1, <3>2, BeginsTrans, Zenon
  <2>4. ASSUME Flows(r)
        PROVE  Gone(r) = Gone(w)
    <3>1. s.fd # "closed"
      BY <1>10, <2>4 DEF Flows
    <3>2. IsOpen(s)
      BY <1>8, <1>23, <3>1 DEF Op
    <3>3. Out(s) = g \o d
      BY <1>8, <1>18, <3>2 DEF Passes
    <3>4. Gone(r) = (g \o d) \o e
      BY <1>4, <1>10, <3>3 DEF Gone
    <3> QED
      BY <1>5, <1>18, <1>21, <3>4 DEF Gone
  <2>5. Flows(r) => Flows(w)
    BY <1>15, <1>23
  <2>6. TunnelUp(r, n)
    BY <1>10, <1>17, <1>19, <2>3, <2>4, <2>5 DEF TunnelData, TunnelUp, Keeps
  <2> QED
    BY <1>11, <1>12, <1>14, <2>6 DEF TunnelData
<1> QED
  BY <1>22, <1>23

(* What the handler makes of the request.                                  *)
LEMMA AskedShape ==
    ASSUME NEW w, NEW o, TunnelOK(w, o), Talking(w), w.far.known,
           w.handler = "WaitingRequest", w.buffer = << >>, ~w.far.remoteClosed,
           NEW data \in Seq(Unit), Len(data) = 2, NEW result \in ConnectResults
    PROVE  \E r : /\ TunnelHalf(r, o) /\ r.acceptor = w.acceptor
                  /\ r.connector = ConnectTo(w.connector, result)
                  /\ r.clientBuffer = w.clientBuffer /\ r.state = w.state
                  /\ r.far = w.far /\ r.up = w.up /\ r.down = w.down
                  /\ r.handler = "Connecting" /\ r.buffer = << >>
                  /\ HandlerStreamData(w, data, result)
                        = IF result \in {"failed", "refused", "noRequest"}
                          THEN ConnectFailed(r) ELSE r
<1>0. w \in TunnelObjs /\ FarOK(w, o) /\ TunnelHalf(w, o)
  BY DEF TunnelOK, TunnelHalf
<1>1. PICK b \in Seq(Unit) : b = w.buffer \o data
  BY <1>0, TunnelFields, Cat
<1>b. b = data
  BY <1>1, Cat
<1>l. Len(b) = 2
  BY <1>b
<1>2. PICK got : got = [w EXCEPT !.buffer = b]
  OBVIOUS
<1>3. TunnelOK(got, o)
  BY <1>2, HandlerBufferSet
<1>4. /\ got \in TunnelObjs /\ got.buffer = b /\ got.state = w.state
      /\ got.acceptor = w.acceptor /\ got.connector = w.connector /\ got.far = w.far
      /\ got.near = w.near /\ got.hasStreamId = w.hasStreamId
      /\ got.up = w.up /\ got.down = w.down /\ got.clientBuffer = w.clientBuffer
  <2>1. PICK z : z = HandlerHas(w, b)
    OBVIOUS
  <2>2. << >> \in Seq(Frames)
    OBVIOUS
  <2>3. w \in TunnelObjs /\ b \in Seq(Unit)
    BY <1>0
  <2>4. /\ z \in TunnelObjs /\ z.buffer = b /\ z.state = w.state
        /\ z.acceptor = w.acceptor /\ z.connector = w.connector /\ z.far = w.far
        /\ z.near = w.near /\ z.hasStreamId = w.hasStreamId
        /\ z.up = w.up /\ z.down = w.down /\ z.clientBuffer = w.clientBuffer
    BY <2>1, <2>2, <2>3, TunnelFieldSet, ZenonT(40)
  <2>5. got = z
    BY <1>2, <2>1 DEF HandlerHas
  <2> QED
    BY <2>4, <2>5
<1>5. PICK c : c = ConnectTo(w.connector, result)
  OBVIOUS
<1>6. SockOK(w.connector) /\ w.connector.fd = "none" /\ ~w.far.localClosed
      /\ w.connector.readPaused \in BOOLEAN
  BY <1>0, TunnelFields, Fields DEF FarOK
<1>7. /\ SockOK(c) /\ c.readPaused = w.connector.readPaused
      /\ c.fd = IF result = "inProgress" THEN "open" ELSE "none"
  BY <1>5, <1>6, ConnectToOp
<1>8. PICK rest \in Seq(Unit) : rest = Rest(b, 2)
  BY TwoLess
<1>9. rest = << >>
  <2>1. 2 \in 0 .. Len(b) /\ Len(b) - 2 = 0
    BY <1>l
  <2>2. Len(rest) = 0
    BY <1>8, <2>1, RestLen, Zenon
  <2> QED
    BY <2>2, EmptySeq
<1>10. PICK v1 : v1 = [got EXCEPT !.handler = "Connecting"]
  OBVIOUS
<1>11. PICK v2 : v2 = [v1 EXCEPT !.buffer = rest]
  OBVIOUS
<1>12. PICK asked : asked = [v2 EXCEPT !.connector = c]
  OBVIOUS
<1>13. "Connecting" \in Handlers /\ c \in Socket
  BY <1>7 DEF Handlers, SockOK
<1>14. /\ v1 \in TunnelObjs /\ v1.acceptor = w.acceptor /\ v1.connector = w.connector
       /\ v1.handler = "Connecting" /\ v1.far = w.far /\ v1.up = w.up /\ v1.down = w.down
       /\ v1.near = w.near /\ v1.hasStreamId = w.hasStreamId /\ v1.state = w.state
       /\ v1.buffer = b /\ v1.clientBuffer = w.clientBuffer
  BY <1>4, <1>10, <1>13, SetHandler
<1>15. /\ v2 \in TunnelObjs /\ v2.acceptor = w.acceptor /\ v2.connector = w.connector
       /\ v2.handler = "Connecting" /\ v2.far = w.far /\ v2.up = w.up /\ v2.down = w.down
       /\ v2.near = w.near /\ v2.hasStreamId = w.hasStreamId /\ v2.state = w.state
       /\ v2.buffer = rest /\ v2.clientBuffer = w.clientBuffer
  BY <1>8, <1>11, <1>14, SetBuffer
<1>16. /\ asked \in TunnelObjs /\ asked.acceptor = w.acceptor /\ asked.connector = c
       /\ asked.handler = "Connecting" /\ asked.far = w.far /\ asked.up = w.up
       /\ asked.near = w.near /\ asked.hasStreamId = w.hasStreamId /\ asked.state = w.state
       /\ asked.down = w.down /\ asked.buffer = rest /\ asked.clientBuffer = w.clientBuffer
  BY <1>12, <1>13, <1>15, SetConnector
<1>17. asked = [got EXCEPT !.handler = "Connecting", !.buffer = Rest(@, 2),
                           !.connector = ConnectTo(@, result)]
  BY <1>4, <1>5, <1>8, <1>10, <1>11, <1>12, <1>14, <1>15
<1>18. HandlerStreamData(w, data, result)
          = IF result \in {"failed", "refused", "noRequest"} THEN ConnectFailed(asked) ELSE asked
  <2>1. PICK z : z = HandlerStreamData(w, data, result)
    OBVIOUS
  <2>2. z = IF Len(b) < 2 THEN got
            ELSE IF result \in {"failed", "refused", "noRequest"} THEN ConnectFailed(asked)
            ELSE asked
    BY <1>1, <1>2, <1>4, <1>17, <2>1 DEF HandlerStreamData
  <2>3. ~(Len(b) < 2)
    BY <1>l
  <2> QED
    BY <2>1, <2>2, <2>3
<1>19. TunnelHalf(asked, o)
  <2>1. ~c.readPaused
    BY <1>0, <1>6, <1>7 DEF TunnelHalf, EndsOK, PausesAlone, SockOK, Untouched
  <2>2. c.fd # "closed" /\ w.far.known /\ ~w.far.localClosed
    BY <1>6, <1>7
  <2>4. IsOpen(c) /\ w.far.remoteClosed => o
    OBVIOUS
  <2>3. TunnelOK(asked, o)
    BY <1>7, <1>16, <2>1, <2>2, <2>4, HandlerAsks
  <2> QED
    BY <2>3 DEF TunnelOK
<1> QED
  BY <1>5, <1>9, <1>16, <1>18, <1>19

LEMMA HandlerData ==
    ASSUME NEW w, NEW o, TunnelOK(w, o), NEW n, NEW m, TunnelData(w, n, m), w.up # << >>,
           w.far.known, ~w.far.remoteClosed, NEW result \in ConnectResults,
           NEW v, TunnelOK(v, o), v.state = w.state, v.handler = w.handler,
           v.buffer = w.buffer, v.clientBuffer = w.clientBuffer, v.far = w.far,
           v.down = w.down, v.acceptor = w.acceptor, v.connector = w.connector,
           v.up = Tail(w.up)
    PROVE  LET r == HandlerStreamData(v, w.up[1].data, result) IN TunnelData(r, n, m)
<1>1. TunnelHalf(w, o) /\ Talking(w) /\ TunnelHalf(v, o)
  BY FarKnown, FirstUp
<1>2. Asked(w) /\ Bare(w) /\ FarOK(w, o) /\ w.handler \in Handlers /\ SockOK(w.connector)
  BY <1>1, TunnelFields DEF TunnelHalf, TunnelData
<1>3. PICK r : r = HandlerStreamData(v, w.up[1].data, result)
  OBVIOUS
<1>4. CASE w.handler = "WaitingRequest"
  <2>1. PICK d \in Seq(Unit) : d = w.up[1].data
    BY <1>1, FirstUp
  <2>2. Len(d) = 2
    BY <1>1, <1>2, <1>4, <2>1 DEF Asked, RequestFirst
  <2>3. Talking(v) /\ v.far.known /\ v.buffer = << >> /\ v.handler = "WaitingRequest"
    BY <1>1, <1>2, <1>4 DEF Talking, Bare
  <2>4. PICK x : /\ TunnelHalf(x, o) /\ x.acceptor = v.acceptor
                 /\ x.connector = ConnectTo(v.connector, result)
                 /\ x.clientBuffer = v.clientBuffer /\ x.state = v.state
                 /\ x.far = v.far /\ x.up = v.up /\ x.down = v.down
                 /\ x.handler = "Connecting" /\ x.buffer = << >>
                 /\ HandlerStreamData(v, d, result)
                       = IF result \in {"failed", "refused", "noRequest"}
                         THEN ConnectFailed(x) ELSE x
    BY <2>2, <2>3, AskedShape
  <2>5. PICK c : c = ConnectTo(w.connector, result)
    OBVIOUS
  <2>6. w.connector.fd = "none" /\ ~w.far.localClosed
    BY <1>2, <1>4 DEF FarOK
  <2>7. /\ SockOK(c) /\ c.inbox = w.connector.inbox /\ c.got = w.connector.got
        /\ c.writeQueue = w.connector.writeQueue /\ c.reset = w.connector.reset
        /\ c.fd = IF result = "inProgress" THEN "open" ELSE "none"
        /\ c.status \notin {"Connected", "Closing"}
    BY <1>2, <2>5, <2>6, ConnectToOp
  <2>8. Out(w.connector) = << >> /\ Out(c) = << >>
    <3>1. ~Full(w.connector) /\ w.connector.got = << >>
      BY <1>2, <2>6 DEF SockOK, Untouched
    <3>2. Out(w.connector) = << >>
      BY <1>2, <3>1, OutIn
    <3> QED
      BY <2>7, <3>2 DEF Out, Queued
  <2>9. TunnelData(x, n, m)
    BY <1>1, <1>4, <2>4, <2>5, <2>7, <2>8, AskedForData
  <2>10. CASE result \in {"failed", "refused", "noRequest"}
    <3>1. x.connector.fd = "none" /\ x.far.known /\ ~x.far.localClosed
      BY <2>4, <2>5, <2>6, <2>7, <2>10
    <3>2. PICK y : y = ConnectFailed(x)
      OBVIOUS
    <3>3. TunnelData(y, n, m)
      BY <2>4, <2>9, <3>1, <3>2, ConnectFailedData
    <3> QED
      BY <1>3, <2>1, <2>4, <2>10, <3>2, <3>3
  <2>11. CASE result \notin {"failed", "refused", "noRequest"}
    BY <1>3, <2>1, <2>4, <2>9, <2>11
  <2> QED
    BY <2>10, <2>11
<1>5. CASE w.handler = "Connected"
  <2>1. PICK y : y = Sending(v, "connector", w.up[1].data)
    OBVIOUS
  <2>2. TunnelData(y, n, m)
    BY <1>5, <2>1, UpSent
  <2>3. r = y
    BY <1>3, <1>5, <2>1 DEF HandlerStreamData
  <2> QED
    BY <1>3, <2>2, <2>3
<1>6. CASE w.handler \in {"none", "Connecting"}
  <2>1. r = v
    BY <1>3, <1>6 DEF HandlerStreamData
  <2>2. w.handler = "Connecting"
    BY <1>1, <1>2, <1>6 DEF Asked, NotYet
  <2>3. TunnelData(v, n, m)
    BY <1>1, <2>2, UpDropped
  <2> QED
    BY <1>3, <2>1, <2>3
<1> QED
  BY <1>2, <1>4, <1>5, <1>6 DEF Handlers

LEMMA FarFrameData ==
    ASSUME NEW w, NEW o, TunnelOK(w, o), w.up # << >>, NEW result \in ConnectResults,
           NEW n, NEW m, TunnelData(w, n, m)
    PROVE  LET r == HandleFrame(w, "far", result) IN TunnelData(r, n, m)
<1>0. w \in TunnelObjs /\ TunnelHalf(w, o) /\ w.up \in Seq(Frames) /\ EndsOK(w) /\ LinesOK(w)
      /\ Told(w)
  BY TunnelFields DEF TunnelOK, TunnelHalf
<1>t. Talking(w) /\ FarOK(w, o) /\ NearOK(w) /\ Asked(w)
  BY <1>0 DEF TunnelHalf, Unopened, TunnelData
<1>1. PICK x, g : x = Head(w.up) /\ g = Tail(w.up)
  OBVIOUS
<1>2. /\ x \in Frames /\ g \in Seq(Frames) /\ (Ended(w.up) <=> Ends(x) \/ Ended(g))
      /\ NoSyn(g) /\ x = w.up[1] /\ (x.kind = "SYN" => NotYet(w.far))
  BY <1>0, <1>1, EndedTail DEF LinesOK
<1>3. PICK rest : rest = [w EXCEPT !.up = g]
  OBVIOUS
<1>4. /\ rest \in TunnelObjs /\ rest.connector = w.connector /\ rest.acceptor = w.acceptor
      /\ rest.state = w.state /\ rest.hasStreamId = w.hasStreamId /\ rest.handler = w.handler
      /\ rest.near = w.near /\ rest.far = w.far /\ rest.up = g /\ rest.down = w.down
      /\ rest.buffer = w.buffer /\ rest.clientBuffer = w.clientBuffer
  BY <1>0, <1>2, <1>3, SetUp
<1>5. \A stream : SynFirst(g, stream)
  BY <1>2, NoSynFirst
<1>6. EndsOK(rest) /\ LinesOK(rest) /\ Talking(rest) /\ Told(rest)
  BY <1>0, <1>t, <1>5, <1>4 DEF EndsOK, PausesAlone, LinesOK, Talking, Told
<1>7. PICK r : r = HandleFrame(w, "far", result)
  OBVIOUS
<1>8. [w EXCEPT !.up = Tail(@)] = rest
  BY <1>1, <1>3
<1>9. w["far"] = w.far /\ rest["far"] = rest.far
  OBVIOUS
<1>10. CASE x.kind = "SYN"
  <2>1. PICK open : open = OpenStream
    OBVIOUS
  <2>2. open \in Streams /\ Standing(open)
    BY <2>1 DEF OpenStream, NoStream, Streams, Standing
  <2>3. PICK v : v = [rest EXCEPT !.far = open]
    BY Zenon
  <2>4. /\ v \in TunnelObjs /\ v.connector = w.connector /\ v.acceptor = w.acceptor
        /\ v.state = w.state /\ v.far = open /\ v.up = g /\ v.down = w.down
        /\ v.buffer = w.buffer /\ v.clientBuffer = w.clientBuffer
    BY <1>4, <2>2, <2>3, SetFar
  <2>5. r = [v EXCEPT !.handler = "WaitingRequest"]
    BY <1>1, <1>7, <1>8, <1>10, <2>1, <2>3 DEF HandleFrame
  <2>6. "WaitingRequest" \in Handlers
    BY DEF Handlers
  <2>7. /\ r.connector = w.connector /\ r.acceptor = w.acceptor
        /\ r.state = w.state /\ r.handler = "WaitingRequest" /\ r.far = open /\ r.up = g
        /\ r.down = w.down /\ r.buffer = w.buffer /\ r.clientBuffer = w.clientBuffer
    BY <2>4, <2>5, <2>6, SetHandler
  <2>8. NotYet(w.far) /\ w.handler = "none"
    BY <1>t, <1>2, <1>10 DEF FarOK
  <2>9. TunnelData(r, n, m)
    BY <1>0, <1>1, <2>2, <2>7, <2>8, SynData
  <2> QED
    BY <1>7, <2>9
<1>11. CASE x.kind # "SYN" /\ (~w.far.known \/ w.far.remoteClosed)
  <2>1. w.far.remoteClosed
    BY <1>t, <1>2, <1>11 DEF FarOK
  <2>2. r = rest
    BY <1>1, <1>7, <1>8, <1>9, <1>11 DEF HandleFrame
  <2>3. TunnelData(rest, n, m)
    BY <1>0, <1>1, <1>4, <2>1, UpDropped
  <2> QED
    BY <1>7, <2>2, <2>3
<1>12. CASE w.far.known /\ ~w.far.remoteClosed /\ x.kind = "Data"
  <2>1. ~Ends(x) /\ x.data \in Seq(Unit)
    BY <1>2, <1>12 DEF Ends, Frames
  <2>2. r = HandlerStreamData(rest, x.data, result)
    BY <1>1, <1>7, <1>8, <1>9, <1>12, Zenon DEF HandleFrame
  <2>3. TunnelOK(rest, o)
    <3>1. NearOK(rest)
      BY <1>t, <1>2, <1>4, <2>1 DEF NearOK
    <3>2. FarOK(rest, o)
      BY <1>t, <1>2, <1>4, <1>12 DEF FarOK
    <3> QED
      BY <1>0, <1>4, <1>6, <3>1, <3>2 DEF TunnelOK, TunnelHalf
  <2>4. PICK y : y = HandlerStreamData(rest, w.up[1].data, result)
    OBVIOUS
  <2>5. TunnelData(y, n, m)
    BY <1>1, <1>4, <1>12, <2>3, <2>4, HandlerData
  <2> QED
    BY <1>2, <1>7, <2>2, <2>4, <2>5
<1>13. CASE w.far.known /\ ~w.far.remoteClosed /\ x.kind \notin {"SYN", "Data"}
  <2>0. Ends(x)
    BY <1>2, <1>13 DEF Ends, Frames, Kinds
  <2>1. PICK k : k = [w.far EXCEPT !.remoteClosed = TRUE]
    BY Zenon
  <2>2. k \in Streams /\ k.remoteClosed /\ k.known /\ k.localClosed = w.far.localClosed
    BY <1>0, <1>13, <2>1, TunnelFields, Zenon DEF Streams
  <2>3. PICK heard : heard = [rest EXCEPT !.far = k]
    OBVIOUS
  <2>4. /\ heard \in TunnelObjs /\ heard.connector = w.connector /\ heard.acceptor = w.acceptor
        /\ heard.state = w.state /\ heard.hasStreamId = w.hasStreamId
        /\ heard.handler = w.handler
        /\ heard.near = w.near /\ heard.far = k /\ heard.up = g /\ heard.down = w.down
        /\ heard.buffer = w.buffer /\ heard.clientBuffer = w.clientBuffer
    BY <1>4, <2>2, <2>3, SetFar
  <2>5. heard = [rest EXCEPT !["far"].remoteClosed = TRUE]
    BY <1>4, <2>1, <2>3, Zenon
  <2>6. r = StreamClosed(rest, "far")
    BY <1>1, <1>7, <1>8, <1>9, <1>13 DEF HandleFrame
  <2>7. r = IF k.localClosed THEN heard ELSE HandlerStreamClose(heard)
    BY <2>4, <2>5, <2>6, Zenon DEF StreamClosed
  <2>8. EndsOK(heard) /\ LinesOK(heard) /\ Talking(heard) /\ Told(heard)
    BY <1>0, <1>t, <1>5, <2>2, <2>4 DEF EndsOK, PausesAlone, LinesOK, Talking, Told
  <2>9. NearOK(heard)
    BY <1>t, <2>2, <2>4 DEF NearOK
  <2>10. FarOK(heard, TRUE)
    BY <1>t, <1>13, <2>2, <2>4 DEF FarOK, NotYet
  <2>11. TunnelOK(heard, TRUE)
    BY <2>4, <2>8, <2>9, <2>10, Zenon DEF TunnelOK, TunnelHalf
  <2>12. w.handler \in {"Connecting", "Connected"}
    <3>1. w.handler # "none"
      BY <1>t, <1>13 DEF Asked, NotYet
    <3>2. w.handler # "WaitingRequest"
      BY <1>t, <1>2, <1>13 DEF Asked, RequestFirst
    <3>3. w.handler \in Handlers
      BY <1>0, TunnelFields
    <3> QED
      BY <3>1, <3>2, <3>3 DEF Handlers
  <2>13. TunnelData(heard, n, m)
    <3>1. Asked(heard)
      <4>1. DataOf(w.up) = << >> => DataOf(g) = << >>
        BY <1>0, <1>1, FirstUp, Zenon
      <4>2. Waits(heard) <=> Waits(w)
        BY <2>2, <2>4 DEF Waits
      <4> QED
        BY <1>t, <2>2, <2>4, <2>12, <4>1, <4>2 DEF Asked
    <3>2. ~Flows(heard)
      BY <2>2, <2>4 DEF Flows
    <3>3. Bare(heard) /\ TunnelUp(w, n) /\ TunnelDown(w, m)
      BY <2>4 DEF TunnelData, Bare
    <3>4. TunnelUp(heard, n)
      BY <2>4, <3>2, <3>3 DEF TunnelUp
    <3>5. TunnelDown(heard, m)
      BY <2>4, <3>3 DEF TunnelDown
    <3> QED
      BY <3>1, <3>3, <3>4, <3>5 DEF TunnelData
  <2>14. CASE k.localClosed
    BY <1>7, <2>7, <2>13, <2>14
  <2>15. CASE ~k.localClosed
    <3>1. PICK s : s = Close(heard.connector, TRUE)
      OBVIOUS
    <3>2. SockOK(heard.connector) /\ TRUE \in BOOLEAN
      BY <2>8 DEF EndsOK
    <3>3. Op(heard.connector, s)
      BY <3>1, <3>2, CloseOp
    <3>4. Quiet(heard.connector, s)
      BY <3>1, <3>2, QuietClose
    <3>5. r = Update(heard, "connector", s)
      BY <2>7, <2>15, <3>1 DEF HandlerStreamClose
    <3>6. PICK z : z = Update(heard, "connector", s)
      OBVIOUS
    <3>7. TunnelData(z, n, m)
      BY <2>11, <2>13, <3>3, <3>4, <3>6, FarQuiet, Zenon
    <3> QED
      BY <1>7, <3>5, <3>6, <3>7
  <2> QED
    BY <2>14, <2>15
<1> QED
  BY <1>10, <1>11, <1>12, <1>13

-----------------------------------------------------------------------------
(* The target is connected: the client is told, and nothing has come yet   *)
(* that would have to be sent now.                                         *)
LEMMA TunnelConnectedData ==
    ASSUME NEW w, NEW o, TunnelOK(w, o), InHandshake(w.connector),
           NEW n, NEW m, TunnelData(w, n, m)
    PROVE  \E r : /\ r = ConnectorConnected([w EXCEPT !.connector.status = "Connected"])
                  /\ TunnelData(r, n, m)
<1>0. /\ w \in TunnelObjs /\ TunnelHalf(w, o) /\ IsOpen(w.connector) /\ SockOK(w.connector)
      /\ w.connector.status = "Connecting" /\ w.connector.fd = "open"
      /\ w.handler \in Handlers
  BY TunnelFields DEF TunnelOK, InHandshake, TunnelHalf, IsOpen
<1>t. Talking(w) /\ FarOK(w, o) /\ Asked(w) /\ Bare(w) /\ TunnelUp(w, n) /\ TunnelDown(w, m)
  BY <1>0 DEF TunnelHalf, Unopened, TunnelData
<1>h. /\ w.handler = "Connecting" /\ ~w.far.localClosed /\ w.buffer = << >>
      /\ w.state = "Connecting"
  <2>1. ~w.far.localClosed /\ w.handler \notin {"none", "WaitingRequest", "Connected"}
    BY <1>0, <1>t DEF FarOK
  <2>2. w.handler = "Connecting"
    BY <1>0, <2>1 DEF Handlers
  <2> QED
    BY <1>t, <2>1, <2>2 DEF Asked, Waits, Bare
<1>1. PICK c : c = [w.connector EXCEPT !.status = "Connected"]
  OBVIOUS
<1>2. /\ c \in Socket /\ c.status = "Connected" /\ c.fd = w.connector.fd
      /\ c.writeQueue = w.connector.writeQueue /\ c.inbox = w.connector.inbox
      /\ c.reset = w.connector.reset /\ c.got = w.connector.got
  BY <1>0, <1>1 DEF SockOK, Socket, Statuses
<1>3. Out(c) = Out(w.connector)
  BY <1>2 DEF Out, Queued
<1>4. PICK v0 : v0 = [w EXCEPT !.connector = c]
  OBVIOUS
<1>5. /\ v0 \in TunnelObjs /\ v0.connector = c /\ v0.acceptor = w.acceptor
      /\ v0.state = w.state /\ v0.buffer = w.buffer /\ v0.clientBuffer = w.clientBuffer
      /\ v0.far = w.far /\ v0.up = w.up /\ v0.down = w.down
  BY <1>0, <1>2, <1>4, SetConnector
<1>6. PICK v : v = [v0 EXCEPT !.handler = "Connected"]
  OBVIOUS
<1>7. "Connected" \in Handlers
  BY DEF Handlers
<1>8. /\ v \in TunnelObjs /\ v.connector = c /\ v.acceptor = w.acceptor
      /\ v.state = w.state /\ v.buffer = w.buffer /\ v.clientBuffer = w.clientBuffer
      /\ v.far = w.far /\ v.up = w.up /\ v.down = w.down /\ v.handler = "Connected"
  BY <1>5, <1>6, <1>7, SetHandler
<1>9. PICK u \in Unit \ Payload : u = "success"
  BY Replies
<1>10. PICK data : data = <<u>>
  OBVIOUS
<1>11. data # << >> /\ data \in Seq(Unit) /\ DataIn(data) = << >>
  <2>1. data \in Seq(Unit) /\ data # << >>
    BY <1>10
  <2>2. DataIn(<<u>>) = << >>
    BY DataOne
  <2> QED
    BY <1>10, <2>1, <2>2
<1>12. PICK x : x = SendToStream(v, "far", data)
  OBVIOUS
<1>13. PICK f : f = Append(w.down, Frame("Data", data))
  OBVIOUS
<1>14. f \in Seq(Frames) /\ DataIn(DataOf(f)) = DataIn(DataOf(w.down))
  <2>1. PICK y : y = Frame("Data", data)
    OBVIOUS
  <2>2. y \in Frames /\ y.data = data
    <3>1. "Data" \in Kinds
      BY DEF Kinds
    <3> QED
      BY <1>11, <2>1, <3>1, FrameIn
  <2>3. w.down \in Seq(Frames)
    BY <1>0, TunnelFields
  <2>4. PICK d \in Seq(Unit) : d = DataOf(w.down)
    BY <1>0, GoneIn
  <2>5. DataOf(Append(w.down, y)) = d \o data /\ Append(w.down, y) \in Seq(Frames)
    BY <2>2, <2>3, <2>4, LoadAppend, EndedAppend, ZenonT(30)
  <2>6. DataIn(d \o data) = DataIn(d) \o DataIn(data) /\ DataIn(d) \in Seq(Unit)
    BY <1>11, DataCat, DataTyped
  <2>7. DataIn(d) \o << >> = DataIn(d)
    BY <2>6, Cat
  <2> QED
    BY <1>11, <1>13, <2>1, <2>4, <2>5, <2>6, <2>7
<1>15. x = v \/ x = [v EXCEPT !.down = f]
  <2>1. v["far"] = v.far /\ "far" # "near"
    OBVIOUS
  <2> QED
    BY <1>8, <1>12, <1>13, <2>1 DEF SendToStream, Put
<1>16. /\ x \in TunnelObjs /\ x.connector = c /\ x.acceptor = w.acceptor
       /\ x.state = w.state /\ x.buffer = w.buffer /\ x.clientBuffer = w.clientBuffer
       /\ x.far = w.far /\ x.up = w.up /\ x.handler = "Connected"
       /\ DataIn(DataOf(x.down)) = DataIn(DataOf(w.down))
  <2>1. CASE x = v
    BY <1>8, <2>1
  <2>2. CASE x = [v EXCEPT !.down = f]
    BY <1>8, <1>14, <2>2, SetDown
  <2> QED
    BY <1>15, <2>1, <2>2
<1>17. Sending(x, "connector", x.buffer) = x
  <2>1. Send(x["connector"], x.buffer) = c /\ x["connector"] = c
    BY <1>h, <1>16 DEF Send
  <2>2. [x EXCEPT !["connector"] = c] = x
    BY <1>16 DEF TunnelObjs
  <2>3. c.status # "Closed"
    BY <1>2
  <2> QED
    BY <2>1, <2>2, <2>3 DEF Sending, Update
<1>18. [x EXCEPT !.buffer = << >>] = x
  BY <1>h, <1>16 DEF TunnelObjs
<1>19. x = ConnectorConnected(v0)
  <2>1. v0.buffer = x.buffer
    BY <1>5, <1>16
  <2> QED
    BY <1>6, <1>9, <1>10, <1>12, <1>17, <1>18, <2>1 DEF ConnectorConnected
<1>20. v0 = [w EXCEPT !.connector.status = "Connected"]
  BY <1>1, <1>4
<1>21. Asked(x) /\ Bare(x)
  BY <1>t, <1>16 DEF Asked, Waits, Bare
<1>22. TunnelUp(x, n)
  <2>1. Start(x) = 4 /\ Start(w) = 4
    BY <1>h, <1>16 DEF Start
  <2>2. Gone(x) = Gone(w) /\ Unread(x) = Unread(w) /\ (Flows(x) <=> Flows(w))
    BY <1>3, <1>16 DEF Gone, Unread, Flows
  <2> QED
    BY <1>t, <1>3, <1>16, <2>1, <2>2 DEF TunnelUp
<1>23. TunnelDown(x, m)
  BY <1>t, <1>2, <1>16 DEF TunnelDown
<1> QED
  BY <1>19, <1>20, <1>21, <1>22, <1>23 DEF TunnelData

(* The name of the target is known, or is not to be had.                   *)
LEMMA SameConnector ==
    ASSUME NEW w, NEW n, NEW m, TunnelData(w, n, m),
           NEW r, Peer(w, r), r.acceptor = w.acceptor,
           Out(r.connector) = Out(w.connector), r.connector.inbox = w.connector.inbox,
           r.connector.reset = w.connector.reset,
           w.connector.status \notin {"Connected", "Closing"} =>
              r.connector.status \notin {"Connected", "Closing"}
    PROVE  TunnelData(r, n, m)
<1>1. Asked(r) /\ Bare(r)
  BY DEF TunnelData, Asked, Waits, Bare, Peer, Keeps, Talking
<1>2. TunnelUp(r, n)
  <2>1. /\ Start(r) = Start(w) /\ Gone(r) = Gone(w) /\ Unread(r) = Unread(w)
        /\ Flows(r) = Flows(w)
    BY DEF Start, Gone, Unread, Flows, Peer, Keeps
  <2> QED
    BY <2>1 DEF TunnelData, TunnelUp, Peer, Keeps
<1>3. TunnelDown(r, m)
  BY DEF TunnelData, TunnelDown, Peer
<1> QED
  BY <1>1, <1>2, <1>3 DEF TunnelData

LEMMA TunnelLookupData ==
    ASSUME NEW w, NEW o, TunnelOK(w, o), HandlerLooksUp(w), w.far.remoteClosed => o,
           NEW n, NEW m, TunnelData(w, n, m)
    PROVE  /\ \E r : r = [w EXCEPT !.connector.fd = "open"] /\ TunnelData(r, n, m)
           /\ \E r : /\ r = ConnectFailed([w EXCEPT !.connector.status = "Closed"])
                     /\ TunnelData(r, n, m)
<1>0. /\ w \in TunnelObjs /\ TunnelHalf(w, o) /\ SockOK(w.connector) /\ w.connector \in Socket
      /\ w.connector.fd = "none" /\ w.connector.status = "Connecting" /\ ~w.far.localClosed
      /\ Untouched(w.connector)
  <2>1. /\ w.connector.fd = "none" /\ w.connector.status = "Connecting" /\ ~w.far.localClosed
        /\ TunnelHalf(w, o)
    BY DEF TunnelOK, HandlerLooksUp, InLookup
  <2> QED
    BY <2>1, TunnelFields DEF SockOK, TunnelHalf
<1>t. Talking(w) /\ FarOK(w, o)
  BY <1>0 DEF TunnelHalf, Unopened
<1>h. w.handler = "Connecting" /\ w.far.known
  <2>1. w.handler = "Connecting"
    BY <1>0, <1>t, TunnelFields DEF FarOK, Handlers
  <2> QED
    BY <1>0, <1>t, <2>1 DEF FarOK
<1>p. w.connector.readPaused = FALSE
  BY <1>0, Fields DEF TunnelHalf, EndsOK, PausesAlone, Untouched
<1>1. \E r : r = [w EXCEPT !.connector.fd = "open"] /\ TunnelData(r, n, m)
  <2>1. PICK c : c = [w.connector EXCEPT !.fd = "open"]
    OBVIOUS
  <2>2. /\ c \in Socket /\ c.writeQueue = w.connector.writeQueue
        /\ c.inbox = w.connector.inbox /\ c.reset = w.connector.reset
        /\ c.got = w.connector.got /\ c.status = w.connector.status
    BY <1>0, <2>1 DEF Socket
  <2>3. PICK r : r = [w EXCEPT !.connector = c]
    OBVIOUS
  <2>4. Peer(w, r) /\ r.connector = c /\ r.acceptor = w.acceptor
    BY <1>0, <2>2, <2>3, SetConnector DEF Peer, Keeps
  <2>5. Out(r.connector) = Out(w.connector) /\ r.connector.inbox = w.connector.inbox
        /\ r.connector.reset = w.connector.reset /\ r.connector.status = w.connector.status
    BY <2>2, <2>4 DEF Out, Queued
  <2>6. TunnelData(r, n, m)
    BY <2>4, <2>5, SameConnector
  <2>7. r = [w EXCEPT !.connector.fd = "open"]
    BY <2>1, <2>3
  <2> QED
    BY <2>6, <2>7
<1>2. \E r : /\ r = ConnectFailed([w EXCEPT !.connector.status = "Closed"])
             /\ TunnelData(r, n, m)
  <2>1. PICK c : c = [w.connector EXCEPT !.status = "Closed"]
    OBVIOUS
  <2>2. /\ c \in Socket /\ c.status = "Closed" /\ c.fd = "none"
        /\ c.writeQueue = w.connector.writeQueue /\ c.readPaused = FALSE
        /\ c.shut = w.connector.shut /\ c.pendingClose = w.connector.pendingClose
        /\ c.room = w.connector.room /\ c.reset = w.connector.reset
        /\ c.inbox = w.connector.inbox /\ c.fin = w.connector.fin /\ c.got = w.connector.got
    BY <1>0, <1>p, <2>1 DEF Socket, Statuses
  <2>3. SockOK(c)
    BY <1>0, <2>2 DEF SockOK, Untouched, Full
  <2>4. PICK v : v = [w EXCEPT !.connector = c]
    OBVIOUS
  <2>5. /\ v \in TunnelObjs /\ v.connector = c /\ v.acceptor = w.acceptor
        /\ v.state = w.state /\ v.hasStreamId = w.hasStreamId /\ v.handler = w.handler
        /\ v.near = w.near /\ v.far = w.far /\ v.up = w.up /\ v.down = w.down
        /\ v.buffer = w.buffer /\ v.clientBuffer = w.clientBuffer
    BY <1>0, <2>2, <2>4, SetConnector
  <2>6. TunnelOK(v, o)
    BY <1>0, <1>t, <1>h, <2>2, <2>3, <2>5, HandlerAsks DEF IsOpen
  <2>7. v = [w EXCEPT !.connector.status = "Closed"]
    BY <2>1, <2>4
  <2>8. Peer(w, v)
    BY <2>5 DEF Peer, Keeps
  <2>9. Out(v.connector) = Out(w.connector) /\ v.connector.inbox = w.connector.inbox
        /\ v.connector.reset = w.connector.reset /\ v.connector.status = "Closed"
    BY <2>2, <2>5 DEF Out, Queued
  <2>10. TunnelData(v, n, m)
    BY <2>5, <2>8, <2>9, SameConnector
  <2>11. PICK r : r = ConnectFailed(v)
    OBVIOUS
  <2>12. TunnelHalf(v, o) /\ v.connector.fd = "none" /\ v.far.known /\ ~v.far.localClosed
         /\ v.handler = "Connecting"
    BY <1>0, <1>h, <2>2, <2>5, <2>6 DEF TunnelOK
  <2>13. TunnelData(r, n, m)
    BY <2>10, <2>11, <2>12, ConnectFailedData
  <2> QED
    BY <2>7, <2>11, <2>13
<1> QED
  BY <1>1, <1>2

(* What is read from the target goes on the stream at once.                *)
LEMMA TargetDataHeard ==
    ASSUME NEW w, NEW o, TunnelOK(w, o), NEW n, NEW m, TunnelData(w, n, m),
           MayRead(w.connector), NEW k \in 1 .. Len(w.connector.inbox),
           NEW v, TunnelOK(v, o), Peer(w, v), v.acceptor = w.acceptor,
           v.connector = Read(w.connector, k)
    PROVE  LET r == SendToStream(v, "far", SubSeq(w.connector.inbox, 1, k))
           IN  TunnelData(r, n, m)
<1>1. PICK data, i, s : /\ data = SubSeq(w.connector.inbox, 1, k)
                        /\ i = Rest(w.connector.inbox, k) /\ s = Read(w.connector, k)
  OBVIOUS
<1>2. SockOK(w.acceptor) /\ SockOK(w.connector) /\ TunnelHalf(w, o) /\ TunnelHalf(v, o)
  BY FarKnown
<1>3. /\ Beneath(w.connector, s) /\ s.inbox = i /\ s.reset = w.connector.reset
      /\ data \in Seq(Unit) /\ i \in Seq(Unit) /\ data \o i = w.connector.inbox
      /\ IsOpen(w.connector) /\ w.connector.status # "Connecting"
  BY <1>1, <1>2, ReadOp, Zenon
<1>4. w.connector.fd = "open" /\ w.connector.status \in {"Connected", "Closing"}
  <2>1. \A x : SockOK(x) /\ IsOpen(x) => /\ x.fd = "open"
                                         /\ x.status \in {"Connecting", "Connected", "Closing"}
    BY DEF SockOK, IsOpen
  <2> QED
    BY <1>2, <1>3, <2>1
<1>5. Talking(w) /\ FarOK(w, o) /\ Asked(w) /\ Bare(w) /\ TunnelUp(w, n) /\ TunnelDown(w, m)
  BY <1>2, <1>4 DEF TunnelHalf, Unopened, TunnelData
<1>6. w.handler = "Connected"
  <2>1. w.handler \notin {"none", "WaitingRequest"}
    BY <1>4, <1>5 DEF FarOK
  <2>2. w.handler # "Connecting"
    BY <1>4, <1>5 DEF TunnelUp
  <2>3. w.handler \in Handlers
    BY <1>2, TunnelFields
  <2> QED
    BY <2>1, <2>2, <2>3 DEF Handlers
<1>7. w.far.known /\ ~w.far.localClosed
  BY <1>3, <1>5, <1>6 DEF FarOK
<1>8. PICK r : r = SendToStream(v, "far", data)
  OBVIOUS
<1>9. Alike(v, r) /\ r.up = v.up /\ DataOf(r.down) = DataOf(v.down) \o data
  BY <1>2, <1>3, <1>7, <1>8, SentDown, Zenon DEF Peer
<1>10. /\ r.acceptor = w.acceptor /\ r.connector = s /\ r.state = w.state
       /\ r.handler = w.handler /\ r.buffer = w.buffer /\ r.clientBuffer = w.clientBuffer
       /\ r.far = w.far /\ r.up = w.up /\ DataOf(r.down) = DataOf(w.down) \o data
  BY <1>1, <1>9 DEF Alike, Peer, Keeps
<1>11. Out(s) = Out(w.connector) /\ s.status = w.connector.status
  BY <1>2, <1>3, BeneathSame, Zenon DEF Beneath
<1>12. Asked(r) /\ Bare(r)
  BY <1>5, <1>6, <1>10 DEF Asked, Waits, Bare
<1>13. TunnelUp(r, n)
  <2>1. /\ Gone(r) = Gone(w) /\ Start(r) = Start(w) /\ Flows(r) = Flows(w)
        /\ Unread(r) = Unread(w)
    BY <1>10, <1>11 DEF Gone, Start, Flows, Unread
  <2> QED
    BY <1>5, <1>10, <1>11, <2>1 DEF TunnelUp
<1>14. data \in Seq(Payload) /\ i \in Seq(Payload) /\ DataIn(data) = data
  <2>1. data \o i \in Seq(Payload)
    BY <1>3, <1>5 DEF TunnelDown
  <2>2. data \in Seq(Payload) /\ i \in Seq(Payload)
    BY <1>3, <2>1, Parts, Zenon
  <2> QED
    BY <2>2, DataAll
<1>15. PICK d \in Seq(Unit) : d = DataOf(w.down)
  BY <1>2, GoneIn
<1>16. DataIn(DataOf(r.down)) \o i = DataIn(d) \o w.connector.inbox
  <2>1. DataIn(d \o data) = DataIn(d) \o data /\ DataIn(d) \in Seq(Unit)
    BY <1>3, <1>14, DataCat, DataTyped, Zenon
  <2>2. PICK e \in Seq(Unit) : e = DataIn(d)
    BY <2>1
  <2>3. (e \o data) \o i = e \o (data \o i)
    BY <1>3, CatThree, Zenon
  <2> QED
    BY <1>3, <1>10, <1>15, <2>1, <2>2, <2>3
<1>17. TunnelDown(r, m)
  BY <1>3, <1>5, <1>10, <1>14, <1>15, <1>16, Zenon DEF TunnelDown
<1> QED
  BY <1>1, <1>8, <1>12, <1>13, <1>17 DEF TunnelData

LEMMA TunnelReadsData ==
    ASSUME TunnelInv(obj, orphan), NEW n, NEW m, TunnelData(obj, n, m),
           NEW side \in Sides, ReadChunk(side)
    PROVE  TunnelData(obj', n, m)
<1>1. PICK k \in 1 .. Len(obj[side].inbox), result \in ConnectResults :
          Becomes(Received([obj EXCEPT ![side] = Read(@, k)], side,
                           SubSeq(obj[side].inbox, 1, k), result))
  BY DEF ReadChunk
<1>2. PICK s, data : s = Read(obj[side], k) /\ data = SubSeq(obj[side].inbox, 1, k)
  BY Zenon
<1>3. MayRead(obj[side]) /\ SockOK(obj[side]) /\ obj \in TunnelObjs
  BY TwoSides, TunnelIs DEF ReadChunk
<1>4. Beneath(obj[side], s) /\ s \in Socket
  BY <1>2, <1>3, ReadOp DEF Beneath, SockOK
<1>5. PICK v : v = [obj EXCEPT ![side] = s]
  OBVIOUS
<1>6. TunnelOK(v, orphan) /\ TunnelOK(obj, orphan)
  <2>1. TunnelOK(obj, orphan)
    BY TunnelIs
  <2>2. v = Swapped(obj, side, s)
    BY <1>5 DEF Swapped
  <2> QED
    BY <1>4, <2>1, <2>2, TunnelBeneath
<1>7. [obj EXCEPT ![side] = Read(@, k)] = v
  BY <1>2, <1>5, TwoSides, TunnelIs
<1>8. Becomes(Received(v, side, data, result))
  BY <1>1, <1>2, <1>7, Zenon
<1>9. CASE side = "acceptor"
  <2>1. /\ Peer(obj, v) /\ v.connector = obj.connector /\ v.acceptor = s
        /\ MayRead(obj.acceptor) /\ k \in 1 .. Len(obj.acceptor.inbox)
        /\ s = Read(obj.acceptor, k) /\ data = SubSeq(obj.acceptor.inbox, 1, k)
    <3>1. v = [obj EXCEPT !.acceptor = s]
      BY <1>5, <1>9
    <3>2. /\ v.acceptor = s /\ v.connector = obj.connector /\ v.state = obj.state
          /\ v.clientBuffer = obj.clientBuffer /\ v.handler = obj.handler
          /\ v.buffer = obj.buffer /\ v.far = obj.far /\ v.up = obj.up /\ v.down = obj.down
      BY <1>3, <1>4, <3>1, SetAcceptor
    <3>3. obj[side] = obj.acceptor
      BY <1>9
    <3> QED
      BY <1>2, <1>3, <3>2, <3>3 DEF Peer, Keeps
  <2>2. PICK r : r = OnReceiveData(v, SubSeq(obj.acceptor.inbox, 1, k))
    OBVIOUS
  <2>3. TunnelData(r, n, m)
    BY <1>6, <2>1, <2>2, ForwarderDataHeard
  <2>4. Received(v, side, data, result) = r
    BY <1>9, <2>1, <2>2, TunnelIs DEF Received
  <2> QED
    BY <1>8, <2>3, <2>4 DEF Becomes
<1>10. CASE side = "connector"
  <2>1. /\ Peer(obj, v) /\ v.acceptor = obj.acceptor /\ v.connector = s
        /\ MayRead(obj.connector) /\ k \in 1 .. Len(obj.connector.inbox)
        /\ s = Read(obj.connector, k) /\ data = SubSeq(obj.connector.inbox, 1, k)
    <3>1. v = [obj EXCEPT !.connector = s]
      BY <1>5, <1>10
    <3>2. /\ v.connector = s /\ v.acceptor = obj.acceptor /\ v.state = obj.state
          /\ v.clientBuffer = obj.clientBuffer /\ v.handler = obj.handler
          /\ v.buffer = obj.buffer /\ v.far = obj.far /\ v.up = obj.up /\ v.down = obj.down
      BY <1>3, <1>4, <3>1, SetConnector
    <3>3. obj[side] = obj.connector
      BY <1>10
    <3> QED
      BY <1>2, <1>3, <3>2, <3>3 DEF Peer, Keeps
  <2>2. PICK r : r = SendToStream(v, "far", SubSeq(obj.connector.inbox, 1, k))
    OBVIOUS
  <2>3. TunnelData(r, n, m)
    BY <1>6, <2>1, <2>2, TargetDataHeard
  <2>4. Received(v, side, data, result) = r
    BY <1>10, <2>1, <2>2, TunnelIs DEF Received
  <2> QED
    BY <1>8, <2>3, <2>4 DEF Becomes
<1> QED
  BY <1>9, <1>10, TwoSides

(* A tunnel between two events, with what its peers have sent.             *)
TunnelKeeps(w, o, n, m) == TunnelInv(w, o) /\ TunnelData(w, n, m)

LEMMA TunnelKept ==
    ASSUME TunnelKeeps(obj, orphan, sentUp, sentDown), Next
    PROVE  TunnelKeeps(obj', orphan', sentUp', sentDown')
<1>f. /\ TunnelInv(obj, orphan) /\ TunnelData(obj, sentUp, sentDown) /\ TunnelOK(obj, orphan)
      /\ sentUp \in Nat /\ sentDown \in Nat /\ ~IsProxy
  BY TunnelIs DEF TunnelKeeps, TunnelData, TunnelUp, TunnelDown
<1>1. TunnelInv(obj', orphan')
  BY <1>f, TunnelNext
<1>2. CASE Peers
  BY <1>f, <1>1, <1>2, TunnelPeersData DEF TunnelKeeps
<1>3. ASSUME TunnelData(obj', sentUp, sentDown), UNCHANGED <<sentUp, sentDown>>
      PROVE  TunnelKeeps(obj', orphan', sentUp', sentDown')
  BY <1>1, <1>3 DEF TunnelKeeps
<1>4. CASE LookupAnswered
  <2>1. HandlerLooksUp(obj) /\ (obj.far.remoteClosed => orphan)
    BY <1>f, <1>4 DEF LookupAnswered, Asks, TunnelInv
  <2>2. PICK w : w = [obj EXCEPT !.connector.fd = "open"] /\ TunnelData(w, sentUp, sentDown)
    BY <1>f, <2>1, TunnelLookupData
  <2>3. PICK r : /\ r = ConnectFailed([obj EXCEPT !.connector.status = "Closed"])
                 /\ TunnelData(r, sentUp, sentDown)
    BY <1>f, <2>1, TunnelLookupData
  <2>4. Becomes(w) \/ Becomes(r)
    BY <1>f, <1>4, <2>2, <2>3 DEF LookupAnswered
  <2> QED
    BY <1>3, <2>2, <2>3, <2>4 DEF Becomes
<1>5. CASE HandshakeDone
  <2>1. InHandshake(obj.connector)
    BY <1>5 DEF HandshakeDone
  <2>2. PICK r : /\ r = ConnectorConnected([obj EXCEPT !.connector.status = "Connected"])
                 /\ TunnelData(r, sentUp, sentDown)
    BY <1>f, <2>1, TunnelConnectedData
  <2>3. Becomes(r)
    BY <1>f, <1>5, <2>2 DEF HandshakeDone
  <2> QED
    BY <1>3, <2>2, <2>3 DEF Becomes
<1>6. ASSUME NEW end \in {"near", "far"}, FrameArrives(end)
      PROVE  TunnelKeeps(obj', orphan', sentUp', sentDown')
  <2>1. PICK result \in ConnectResults : Becomes(HandleFrame(obj, end, result))
    BY <1>6 DEF FrameArrives
  <2>2. IF end = "near" THEN obj.down # << >> ELSE obj.up # << >>
    BY <1>6 DEF FrameArrives
  <2>3. PICK r : r = HandleFrame(obj, end, result)
    OBVIOUS
  <2>4. TunnelData(r, sentUp, sentDown)
    BY <1>f, <2>2, <2>3, NearFrameData, FarFrameData
  <2> QED
    BY <1>3, <2>1, <2>3, <2>4 DEF Becomes
<1>7. ASSUME NEW side \in Sides,
             ReadChunk(side) \/ WritableEvent(side) \/ FinishedEvent(side) \/ FailureEvent(side)
      PROVE  TunnelKeeps(obj', orphan', sentUp', sentDown')
  <2>1. UNCHANGED <<sentUp, sentDown>>
    BY <1>7 DEF ReadChunk, WritableEvent, FinishedEvent, FailureEvent, Becomes
  <2>2. CASE ReadChunk(side)
    BY <1>f, <1>3, <2>1, <2>2, TunnelReadsData
  <2>3. CASE WritableEvent(side) \/ FinishedEvent(side) \/ FailureEvent(side)
    BY <1>f, <1>3, <2>1, <2>3, TunnelEventData
  <2> QED
    BY <1>7, <2>2, <2>3
<1> QED
  BY <1>2, <1>4, <1>5, <1>6, <1>7 DEF Next, Peers

LEMMA TunnelDataInit ==
    ASSUME NEW kind \in Clients
    PROVE  TunnelKeeps(Forwarding(kind), FALSE, 0, 0)
<1>1. PICK w : w = Forwarding(kind)
  OBVIOUS
<1>2. PICK none : none = NoStream
  OBVIOUS
<1>3. /\ w.acceptor = AcceptedSocket /\ w.connector = ReadySocket /\ w.state = "Greeting"
      /\ w.clientBuffer = << >> /\ w.handler = "none" /\ w.buffer = << >>
      /\ w.hasStreamId = FALSE /\ w.up = << >> /\ w.down = << >> /\ w.far = none
  BY <1>1, <1>2 DEF Forwarding
<1>4. << >> \o << >> = << >> /\ << >> \in Seq(Unit) /\ << >> \in Seq(Payload)
  BY Cat
<1>5. DataOf(w.up) = << >> /\ DataOf(w.down) = << >> /\ DataIn(DataOf(w.down)) = << >>
  BY <1>3, LoadNone, DataNone
<1>6. Gone(w) = << >> /\ Unread(w) = << >> /\ Start(w) = 0
  BY <1>3, <1>4, <1>5, NothingSent, StartIs DEF Gone, Unread
<1>7. Begins(<< >>, Left(4, 7)) /\ Begins(<< >>, TargetScript) /\ Begins(<< >>, << >>)
  BY Units, Cat DEF Begins
<1>8. TunnelUp(w, 0)
  <2>1. w.handler # "Connecting"
    BY <1>3
  <2>2. Runs(Gone(w) \o Unread(w), Left(0, 0), w.acceptor.reset)
    BY <1>4, <1>6, <1>7, NothingSent DEF Runs
  <2> QED
    BY <1>3, <1>6, <1>7, <2>1, <2>2, NothingSent DEF TunnelUp
<1>9. TunnelDown(w, 0)
  <2>1. Heard(w.acceptor) \o (DataIn(DataOf(w.down)) \o w.connector.inbox) = << >>
    BY <1>3, <1>4, <1>5, NothingSent
  <2>2. Runs(Heard(w.acceptor) \o (DataIn(DataOf(w.down)) \o w.connector.inbox), Had(0),
             w.connector.reset)
    BY <2>1, <1>7, NothingSent DEF Runs
  <2> QED
    BY <1>3, <1>4, <1>7, <2>2, NothingSent DEF TunnelDown
<1>10. Bare(w) /\ Asked(w)
  <2>1. ~Talking(w)
    BY <1>2, <1>3 DEF Talking, NoStream
  <2> QED
    BY <1>3, <2>1 DEF Bare, Asked
<1>11. TunnelData(w, 0, 0)
  BY <1>8, <1>9, <1>10 DEF TunnelData
<1> QED
  BY <1>1, <1>11, TunnelInit DEF TunnelKeeps

LEMMA TunnelRelays ==
    ASSUME TunnelKeeps(obj, orphan, sentUp, sentDown), ~reused
    PROVE  RelayedInOrder
<1> DEFINE a == obj.acceptor
           c == obj.connector
<1>f. /\ TunnelUp(obj, sentUp) /\ TunnelDown(obj, sentDown) /\ TunnelHalf(obj, orphan)
      /\ ~IsProxy /\ SockOK(a) /\ SockOK(c) /\ Bare(obj)
  BY TunnelIs DEF TunnelKeeps, TunnelData, TunnelOK
<1>s. /\ a.fd \in {"open", "closed"} /\ a.status # "Connecting"
      /\ a.fd = "open" => a.status \in {"Connecting", "Connected", "Closing"}
      /\ a.fd = "closed" => a.status = "Closed"
  <2>1. a.fd # "none" /\ a.status # "Connecting" /\ a \in Socket
    BY <1>f DEF TunnelHalf, EndsOK, SockOK
  <2>2. a.fd \in {"open", "closed"}
    BY <1>f, <2>1, Fields
  <2>3. \A s : SockOK(s) => /\ s.fd = "open" => s.status \in {"Connecting", "Connected", "Closing"}
                            /\ s.fd = "closed" => s.status = "Closed"
    BY DEF SockOK
  <2> QED
    BY <1>f, <2>1, <2>2, <2>3
<1>g. /\ Heard(a) \in Seq(Unit) /\ Out(c) \in Seq(Unit) /\ Out(a) \in Seq(Unit)
      /\ a.inbox \in Seq(Unit) /\ c.inbox \in Seq(Unit)
      /\ a.got \in Seq(Unit) /\ c.got \in Seq(Unit)
      /\ Unread(obj) \in Seq(Unit) /\ DataOf(obj.up) \in Seq(Unit)
      /\ DataOf(obj.down) \in Seq(Unit) /\ Gone(obj) \in Seq(Unit)
  BY <1>f, HeardIn, OutIn, GoneIn
<1>1. IsPrefix(c.got, DataIn(ClientScript))
  <2>1. Begins(c.got, Out(c)) /\ Begins(Out(c), Left(4, 7))
    BY <1>f, GotBegins DEF TunnelUp
  <2>2. Begins(c.got, Left(4, 7))
    BY <1>g, <2>1, BeginsTrans
  <2> QED
    BY <1>g, <2>2, Units, BeginsPrefix, ScriptData
<1>2. IsPrefix(DataIn(a.got), TargetScript)
  <2>1. Begins(a.got, Out(a))
    BY <1>f, GotBegins
  <2>2. Begins(DataIn(a.got), Heard(a))
    BY <1>g, <2>1, BeginsData DEF Heard
  <2>3. Begins(Heard(a), TargetScript)
    BY <1>f DEF TunnelDown
  <2>4. DataIn(a.got) \in Seq(Unit)
    BY <1>g, DataTyped
  <2>5. Begins(DataIn(a.got), TargetScript)
    BY <1>g, <2>2, <2>3, <2>4, BeginsTrans
  <2> QED
    BY <2>4, <2>5, Units, BeginsPrefix
<1>o. ASSUME Sound
      PROVE  IsOpen(a) /\ ~a.reset /\ ~c.reset /\ Flows(obj)
  <2>1. /\ a.status \in {"Ready", "Connecting", "Connected"} /\ ~a.reset /\ ~c.reset
        /\ obj.state # "Error"
    BY <1>o DEF Sound, SocketSound
  <2>2. a.fd = "open" /\ a.status = "Connected"
    BY <1>s, <2>1
  <2>3. \A end \in {"near", "far"} : ~obj[end].localClosed /\ ~obj[end].remoteClosed
    BY <1>o, <1>f DEF Sound
  <2>4. "far" \in {"near", "far"} /\ obj["far"] = obj.far
    OBVIOUS
  <2>5. ~obj.far.localClosed /\ ~obj.far.remoteClosed
    BY <2>3, <2>4
  <2> QED
    BY <2>1, <2>2, <2>5 DEF IsOpen, Flows
<1>3. ASSUME Sound
      PROVE  /\ Out(c) \o DataIn(DataOf(obj.up)) \o DataIn(Unread(obj)) = DataIn(Left(0, sentUp))
             /\ sentUp \in 0 .. 7
  <2>1. PICK k \in {0, 2, 4} : k = Start(obj)
    BY StartIn
  <2>2. sentUp \in 0 .. 7 /\ k <= sentUp /\ Gone(obj) \o Unread(obj) = Left(k, sentUp)
    BY <1>f, <1>o, <1>3, <2>1 DEF TunnelUp, Runs
  <2>3. DataIn(Left(k, sentUp)) = DataIn(Left(0, sentUp))
    BY <2>2, DataLeft
  <2>4. DataIn(Gone(obj) \o Unread(obj)) = DataIn(Gone(obj)) \o DataIn(Unread(obj))
    BY <1>g, DataCat
  <2>5. DataIn(Gone(obj)) = DataIn(Out(c)) \o DataIn(DataOf(obj.up))
    BY <1>g, DataCat DEF Gone
  <2>6. DataIn(Out(c)) = Out(c)
    BY <1>f, <1>g, BeginsPayload DEF TunnelUp
  <2> QED
    BY <2>2, <2>3, <2>4, <2>5, <2>6
<1>4. ASSUME Sound
      PROVE  DataIn(Out(a)) \o DataIn(DataOf(obj.down)) \o c.inbox = Had(sentDown)
  <2>1. Heard(a) \o (DataIn(DataOf(obj.down)) \o c.inbox) = Had(sentDown)
    BY <1>f, <1>o, <1>4 DEF TunnelDown, Runs
  <2>2. DataIn(DataOf(obj.down)) \in Seq(Unit)
    BY <1>g, DataTyped
  <2>3. (Heard(a) \o DataIn(DataOf(obj.down))) \o c.inbox
           = Heard(a) \o (DataIn(DataOf(obj.down)) \o c.inbox)
    <3>1. /\ Heard(a) \in Seq(Unit) /\ DataIn(DataOf(obj.down)) \in Seq(Unit)
          /\ c.inbox \in Seq(Unit)
      BY <1>g, <2>2
    <3>2. Reassoc(Heard(a), DataIn(DataOf(obj.down)), c.inbox)
      BY <3>1, CatAssoc, Zenon
    <3> QED
      BY <3>2, Zenon DEF Reassoc
  <2> QED
    BY <2>1, <2>3 DEF Heard
<1>5. ASSUME Sound
      PROVE  /\ c.got \o Queued(c) \o BetweenUp \o DataIn(obj.clientBuffer \o a.inbox)
                   = DataIn(SubSeq(ClientScript, 1, sentUp))
             /\ DataIn(a.got \o Queued(a)) \o BetweenDown \o c.inbox
                   = SubSeq(TargetScript, 1, sentDown)
  <2>1. BetweenUp = DataIn(DataOf(obj.up)) /\ BetweenDown = DataIn(DataOf(obj.down))
    BY <1>f DEF BetweenUp, BetweenDown
  <2>2. DataIn(SubSeq(ClientScript, 1, sentUp)) = DataIn(Left(0, sentUp))
    BY <1>3, <1>5, ScriptData, Zenon
  <2> QED
    BY <1>3, <1>4, <1>5, <2>1, <2>2, Zenon DEF Out, Unread, Had
<1> QED
  BY <1>1, <1>2, <1>5 DEF RelayedInOrder

-----------------------------------------------------------------------------
(* A proxy whose client has gone, and whose connector has a descriptor: it *)
(* may be the number the acceptor had.  The reply to the client then goes  *)
(* to the target, and nothing but that and the client's data.              *)
Alone(w) == w.acceptor.fd = "closed" /\ w.connector.fd # "none"
Misdirected(w) ==
    /\ Alone(w) /\ w.connector.status # "Connecting"
    /\ Begins(Heard(w.connector), Left(4, 7))
    /\ Begins(Heard(w.acceptor), TargetScript)

LEMMA AloneHears ==
    ASSUME NEW w, NEW o, Linked(w, o), Alone(w), NEW r, NEW p, Linked(r, p),
           r.acceptor.fd = "closed", r.connector.fd # "none",
           Begins(Heard(r.connector), Heard(w.connector)),
           Begins(Heard(r.acceptor), Heard(w.acceptor)),
           r.connector.status = "Connecting" => w.connector.status = "Connecting"
    PROVE  Alone(r) /\ (Misdirected(w) => Misdirected(r))
<1>1. Alone(r)
  BY DEF Alone
<1>2. ASSUME Misdirected(w) PROVE Misdirected(r)
  <2>1. /\ Heard(r.connector) \in Seq(Unit) /\ Heard(w.connector) \in Seq(Unit)
        /\ Heard(r.acceptor) \in Seq(Unit) /\ Heard(w.acceptor) \in Seq(Unit)
    BY ProxyFields, HeardIn
  <2>2. Begins(Heard(r.connector), Left(4, 7)) /\ Begins(Heard(r.acceptor), TargetScript)
    BY <1>2, <2>1, BeginsTrans DEF Misdirected
  <2> QED
    BY <1>1, <1>2, <2>2 DEF Misdirected
<1> QED
  BY <1>1, <1>2

(* Only the connector has events now, and what it receives goes nowhere.   *)
LEMMA AloneNext ==
    ASSUME ProxyInv(obj, orphan), sentUp \in Nat, sentDown \in Nat, reused \in BOOLEAN,
           Alone(obj), Next, ~HandshakeDone
    PROVE  Alone(obj') /\ (Misdirected(obj) => Misdirected(obj'))
<1>f. /\ Linked(obj, orphan) /\ ProxyOK(obj, orphan) /\ IsProxy
      /\ SockOK(obj.acceptor) /\ SockOK(obj.connector)
      /\ obj["acceptor"] = obj.acceptor /\ obj["connector"] = obj.connector
      /\ obj.acceptor.fd = "closed" /\ obj.connector.fd # "none"
      /\ obj.acceptor.status = "Closed" /\ ~IsOpen(obj.acceptor)
      /\ Quiet(obj.acceptor, obj.acceptor) /\ Quiet(obj.connector, obj.connector)
  BY ProxyIs, QuietSame DEF Alone, SockOK, IsOpen
<1>n. PICK v, p : v = obj' /\ p = orphan'
  OBVIOUS
<1>i. Linked(v, p)
  BY <1>n, ProxyNext DEF ProxyInv, ProxyOK
<1>s. ASSUME NEW s, SockOK(s), NEW t, SockOK(t), Quiet(s, t) PROVE Begins(Heard(t), Heard(s))
  BY <1>s, QuietHears DEF Hears
<1>1. CASE Peers
  <2>1. PICK side \in Sides : \E s : Beneath(obj[side], s) /\ PeerStep(side, s)
    BY <1>f, <1>1, PeersBeneath
  <2>2. PICK s : Beneath(obj[side], s) /\ PeerStep(side, s)
    BY <2>1
  <2>3. /\ v[side] = s /\ v[Other(side)] = obj[Other(side)]
        /\ v["acceptor"] = v.acceptor /\ v["connector"] = v.connector
    BY <1>n, <2>2, PeerSwap
  <2>4. SockOK(obj[side])
    BY <1>f, TwoSides
  <2>5. Heard(s) = Heard(obj[side]) /\ s.status = obj[side].status /\ s.fd = obj[side].fd
    BY <2>2, <2>4, BeneathSame
  <2>6. /\ Heard(v.acceptor) = Heard(obj.acceptor) /\ Heard(v.connector) = Heard(obj.connector)
        /\ v.acceptor.fd = obj.acceptor.fd /\ v.connector.fd = obj.connector.fd
        /\ v.connector.status = obj.connector.status
    <3>1. CASE side = "acceptor"
      BY <1>f, <2>3, <2>5, <3>1, TwoSides
    <3>2. CASE side = "connector"
      BY <1>f, <2>3, <2>5, <3>2, TwoSides
    <3> QED
      BY <3>1, <3>2, TwoSides
  <2>7. /\ Begins(Heard(obj.acceptor), Heard(obj.acceptor))
        /\ Begins(Heard(obj.connector), Heard(obj.connector))
    BY <1>f, <1>s
  <2>8. Alone(v) /\ (Misdirected(obj) => Misdirected(v))
    BY <1>f, <1>i, <2>6, <2>7, AloneHears
  <2> QED
    BY <1>n, <2>8
<1>2. ~LookupAnswered
  BY <1>f DEF LookupAnswered, Asks, LookingUp, InLookup
<1>3. ASSUME NEW side \in Sides, ReadChunk(side)
      PROVE  Alone(obj') /\ (Misdirected(obj) => Misdirected(obj'))
  <2>1. PICK k \in 1 .. Len(obj[side].inbox), result \in ConnectResults :
            Becomes(Received([obj EXCEPT ![side] = Read(@, k)], side,
                             SubSeq(obj[side].inbox, 1, k), result))
    BY <1>3 DEF ReadChunk
  <2>2. MayRead(obj[side])
    BY <1>3 DEF ReadChunk
  <2>3. side = "connector"
    BY <1>f, <2>2, TwoSides DEF MayRead
  <2>4. PICK s, data : s = Read(obj.connector, k) /\ data = SubSeq(obj.connector.inbox, 1, k)
    OBVIOUS
  <2>5. Beneath(obj.connector, s)
    BY <1>f, <2>1, <2>2, <2>3, <2>4, ReadOp
  <2>6. PICK w : w = [obj EXCEPT !["connector"] = s]
    OBVIOUS
  <2>7. w.connector = s /\ w.acceptor = obj.acceptor
    BY <1>f, <2>5, <2>6, BeneathConnector
  <2>8. [obj EXCEPT ![side] = Read(@, k)] = w
    BY <1>f, <2>3, <2>4, <2>6
  <2>9. Received(w, "connector", data, result) = w
    <3>1. w.program = obj.program
      BY <1>f, <2>6, ProxyIs DEF ProxyObjs
    <3>2. OnConnectorReceiveData(w, data) = w
      BY <1>f, <2>7 DEF OnConnectorReceiveData
    <3> QED
      BY <1>f, <3>2 DEF Received
  <2>10. Becomes(w)
    BY <1>f, <2>1, <2>3, <2>4, <2>8, <2>9
  <2>11. v = w
    BY <1>n, <2>10 DEF Becomes
  <2>12. /\ Heard(s) = Heard(obj.connector) /\ s.status = obj.connector.status
         /\ s.fd = obj.connector.fd
    BY <1>f, <2>5, BeneathSame
  <2>13. /\ Begins(Heard(obj.acceptor), Heard(obj.acceptor))
         /\ Begins(Heard(obj.connector), Heard(obj.connector))
    BY <1>f, <1>s
  <2>14. Alone(v) /\ (Misdirected(obj) => Misdirected(v))
    BY <1>f, <1>i, <2>7, <2>11, <2>12, <2>13, AloneHears
  <2> QED
    BY <1>n, <2>14
<1>4. ASSUME NEW side \in Sides,
             WritableEvent(side) \/ FinishedEvent(side) \/ FailureEvent(side)
      PROVE  Alone(obj') /\ (Misdirected(obj) => Misdirected(obj'))
  <2>1. /\ \E s : Op(obj[side], s) /\ Quiet(obj[side], s) /\ Becomes(With(obj, side, s))
        /\ IsOpen(obj[side])
    BY <1>4, ProxyEvents
  <2>2. side = "connector"
    BY <1>f, <2>1, TwoSides
  <2>3. PICK s : /\ Op(obj.connector, s) /\ Quiet(obj.connector, s)
                 /\ Becomes(With(obj, "connector", s))
    BY <1>f, <2>1, <2>2
  <2>4. v = With(obj, "connector", s)
    BY <1>n, <2>3 DEF Becomes
  <2>5. v.connector = s /\ Beside(obj.acceptor, v.acceptor)
    BY <1>f, <2>3, <2>4, OnConnector
  <2>6. v.acceptor.fd = "closed" /\ Quiet(obj.acceptor, v.acceptor) /\ SockOK(v.acceptor)
    BY <1>f, <2>5, QuietBeside DEF Beside, IsOpen
  <2>7. /\ s.fd # "none" /\ SockOK(s)
        /\ s.status = "Connecting" => obj.connector.status = "Connecting"
    BY <1>f, <2>3 DEF Op, IsOpen, SockOK
  <2>8. /\ Begins(Heard(v.acceptor), Heard(obj.acceptor))
        /\ Begins(Heard(v.connector), Heard(obj.connector))
    BY <1>f, <1>s, <2>3, <2>5, <2>6, <2>7
  <2>9. Alone(v) /\ (Misdirected(obj) => Misdirected(v))
    BY <1>f, <1>i, <2>5, <2>6, <2>7, <2>8, AloneHears
  <2> QED
    BY <1>n, <2>9
<1>5. ASSUME NEW end \in {"near", "far"} PROVE ~FrameArrives(end)
  BY <1>f DEF FrameArrives
<1> QED
  BY <1>1, <1>2, <1>3, <1>4, <1>5 DEF Next, Peers

(* The connection stands: the reply strays, the client's data follows.     *)
LEMMA StrayData ==
    ASSUME NEW w, NEW o, ProxyOK(w, o), InHandshake(w.connector), Alone(w),
           NEW n, NEW m, ProxyData(w, n, m)
    PROVE  Misdirected(OnConnected([w EXCEPT !.connector.status = "Connected"], TRUE))
<1>f. /\ Linked(w, o) /\ ProxyPhase(w) /\ SockOK(w.connector) /\ SockOK(w.acceptor)
      /\ IsOpen(w.connector) /\ w.connector.status = "Connecting" /\ ~w.connector.reset
      /\ n \in 0 .. 7 /\ Delivered(w, m) /\ w.acceptor.fd = "closed" /\ ~IsOpen(w.acceptor)
      /\ w.connectorBuffer \in Seq(Unit) /\ w.clientBuffer \in Seq(Unit)
  BY ProxyFields DEF ProxyOK, InHandshake, ProxyData, ProxyUp, Alone, IsOpen
<1>g. w.state \in {"Connecting", "Connected"}
  <2>1. w.state \in States
    BY <1>f, ProxyFields
  <2> QED
    BY <1>f, <2>1 DEF ProxyPhase, Unasked, IsOpen, States
<1>1. PICK c : c = [w.connector EXCEPT !.status = "Connected"]
  OBVIOUS
<1>2. /\ c \in Socket /\ c.status = "Connected" /\ c.fd = w.connector.fd
      /\ c.writeQueue = w.connector.writeQueue /\ c.readPaused = w.connector.readPaused
      /\ c.shut = w.connector.shut /\ c.pendingClose = w.connector.pendingClose
      /\ c.room = w.connector.room /\ c.reset = w.connector.reset
      /\ c.got = w.connector.got /\ c.inbox = w.connector.inbox /\ c.fin = w.connector.fin
  BY <1>f, <1>1, Zenon DEF SockOK, Socket, Statuses
<1>3. SockOK(c) /\ IsOpen(c) /\ Untouched(c)
  BY <1>f, <1>2 DEF SockOK, IsOpen, Untouched, Full
<1>4. PICK v : v = [w EXCEPT !.connector = c]
  BY Zenon
<1>5. /\ v \in ProxyObjs /\ v.acceptor = w.acceptor /\ v.connector = c /\ Rests(w, v)
      /\ v = [w EXCEPT !.connector.status = "Connected"]
  BY <1>f, <1>1, <1>2, <1>4 DEF Linked, ProxyObjs, Rests
<1>6. Couple(v.acceptor, v.connector, o)
  BY <1>f, <1>2, <1>3, <1>5 DEF Linked, Couple, PausePair, EndPair, Failing, IsOpen, Full
<1>7. Linked(v, o)
  BY <1>f, <1>5, <1>6 DEF Linked
<1>8. PICK x : x = [v EXCEPT !.state = "Connected"]
  OBVIOUS
<1>9. /\ Linked(x, o) /\ x.connector = c /\ x.acceptor = w.acceptor
      /\ x.connectorBuffer = w.connectorBuffer
  <2>1. "Connected" \in States
    BY DEF States
  <2>2. /\ Linked(x, o) /\ x.connector = v.connector /\ x.acceptor = v.acceptor
        /\ x.connectorBuffer = v.connectorBuffer
    BY <1>7, <1>8, <2>1, StateSet
  <2> QED
    BY <1>5, <2>2 DEF Rests
<1>10. PICK y : y = [x EXCEPT !.connector = Transmitted(@, <<"success">>)]
  OBVIOUS
<1>11. /\ Linked(y, o) /\ Rests(x, y) /\ y.acceptor = w.acceptor
       /\ IsOpen(y.connector) /\ y.connector.status = "Connected"
       /\ y.connector.got = <<"success">> /\ y.connector.writeQueue = << >>
  BY <1>2, <1>3, <1>9, <1>10, ReplyStrays
<1>12. PICK buf, t, z : /\ buf = w.connectorBuffer /\ t = Send(y.connector, buf)
                        /\ z = SendOn(y, "connector", buf)
  OBVIOUS
<1>13. buf \in Seq(Unit) /\ SockOK(y.connector) /\ y.connectorBuffer = buf
  BY <1>f, <1>9, <1>11, <1>12, ProxyFields DEF Rests
<1>14. Op(y.connector, t) /\ Passes(y.connector, t, buf)
  BY <1>11, <1>12, <1>13, SendOp, SendPasses
<1>15. z = With(y, "connector", t)
  BY <1>11, <1>12, ProxyFields DEF SendOn
<1>16. Linked(z, o) /\ z.connector = t /\ Beside(w.acceptor, z.acceptor)
  BY <1>11, <1>14, <1>15, OnConnector
<1>17. PICK r : r = ConnectorHas(z, << >>)
  OBVIOUS
<1>18. r.connector = t /\ r.acceptor = z.acceptor
  <2>1. << >> \in Seq(Unit)
    OBVIOUS
  <2> QED
    BY <1>16, <1>17, <2>1, ProxyBuffers, Zenon
<1>19. OnConnected(v, TRUE) = r
  <2>1. v.connectorBuffer = buf
    BY <1>5, <1>12 DEF Rests
  <2> QED
    BY <1>8, <1>10, <1>12, <1>17, <2>1 DEF OnConnected, ConnectorHas
<1>20. /\ r.acceptor.fd = "closed" /\ r.connector.fd # "none"
       /\ r.connector.status # "Connecting"
  <2>1. r.acceptor.fd = "closed"
    BY <1>f, <1>16, <1>18 DEF Beside
  <2>2. IsOpen(t) \/ t.fd = "closed"
    BY <1>11, <1>14 DEF Op
  <2>3. t.fd # "none" /\ t.status # "Connecting"
    BY <1>11, <1>14, <2>2 DEF Op, SockOK, IsOpen
  <2> QED
    BY <1>18, <2>1, <2>3
<1>21. Begins(Heard(r.acceptor), TargetScript)
  <2>1. SockOK(z.acceptor) /\ Begins(Heard(z.acceptor), Heard(w.acceptor))
    BY <1>f, <1>16, QuietBeside, QuietHears DEF Hears, Beside
  <2>2. Heard(z.acceptor) \in Seq(Unit) /\ Heard(w.acceptor) \in Seq(Unit)
    BY <1>f, <2>1, HeardIn
  <2> QED
    BY <1>f, <1>18, <2>1, <2>2, BeginsTrans DEF Delivered
<1>22. Begins(buf, Left(4, 7))
  <2>1. 4 <= n /\ Runs(Out(w.connector) \o Coming(w), Left(4, n), w.acceptor.reset)
    BY <1>f, <1>g DEF ProxyData, ProxyUp, IsOpen
  <2>2. Out(w.connector) = << >>
    BY <1>f, OutIn DEF SockOK, Untouched
  <2>3. PICK rest \in Seq(Unit) : rest = Unread(w)
    BY <1>f, Fields, Cat DEF Unread
  <2>4. buf \o rest \in Seq(Unit) /\ << >> \o (buf \o rest) = buf \o rest
    BY <1>13, <2>3, CatIn, CatNone
  <2>5. Begins(buf \o rest, Left(4, n))
    BY <1>12, <2>1, <2>2, <2>3, <2>4 DEF Runs, Coming
  <2>6. /\ Left(4, n) \in Seq(Unit) /\ Left(4, 7) \in Seq(Unit)
        /\ Begins(Left(4, n), Left(4, 7))
    <3>1. 4 \in 0 .. 7 /\ n \in 0 .. 7 /\ 4 <= n
      BY <1>f, <2>1
    <3> QED
      BY <3>1, LeftBegins, Units
  <2>7. Begins(buf, buf \o rest)
    BY <1>13, BeginsMore
  <2> QED
    BY <1>13, <2>4, <2>5, <2>6, <2>7, BeginsTrans
<1>23. Begins(Heard(r.connector), Left(4, 7))
  <2>1. PICK u : u = <<"success">>
    OBVIOUS
  <2>2. u \in Seq(Unit) /\ DataIn(u) = << >>
    BY <2>1, Replies, OneUnit, DataOne
  <2>3. Out(y.connector) = u
    <3>1. Out(y.connector) = y.connector.got
      BY <1>11, <1>13, OutIn DEF Full
    <3> QED
      BY <1>11, <2>1, <3>1
  <2>4. SockOK(t) /\ Begins(Out(t), u \o buf)
    BY <1>14, <2>3 DEF Passes
  <2>5. u \o buf \in Seq(Unit) /\ Out(t) \in Seq(Unit)
    BY <1>13, <2>2, <2>4, CatIn, HeardIn
  <2>6. Begins(Heard(t), DataIn(u \o buf))
    BY <2>4, <2>5, BeginsData DEF Heard
  <2>7. DataIn(u \o buf) = << >> \o DataIn(buf)
    BY <1>13, <2>2, DataCat
  <2>8. DataIn(buf) = buf
    BY <1>13, <1>22, BeginsPayload
  <2>9. DataIn(u \o buf) = buf
    BY <1>13, <2>7, <2>8, CatNone
  <2>10. Heard(t) \in Seq(Unit) /\ Begins(Heard(t), buf)
    BY <2>4, <2>6, <2>9, HeardIn
  <2>11. Begins(Heard(t), Left(4, 7))
    BY <1>13, <1>22, <2>10, BeginsTrans
  <2> QED
    BY <1>18, <2>11
<1> QED
  BY <1>5, <1>19, <1>20, <1>21, <1>23 DEF Misdirected, Alone

(* The number is given to a connector that opens when its acceptor has     *)
(* closed, and to no forwarder.                                            *)
LEMMA ReusedWhen ==
    ASSUME Next
    PROVE  reused' => reused \/ (IsProxy /\ Alone(obj'))
<1> SUFFICES ASSUME reused' # reused PROVE IsProxy /\ Alone(obj')
  OBVIOUS
<1>1. ASSUME NEW w, Becomes(w) PROVE IsProxy /\ Alone(obj')
  BY <1>1 DEF Becomes, MayReuse, Alone, IsOpen
<1>2. ASSUME NEW side, NEW s PROVE ~PeerStep(side, s)
  BY DEF PeerStep
<1>3. ~ClientSends /\ ~TargetSends
  BY <1>2 DEF ClientSends, TargetSends
<1>4. ASSUME LookupAnswered \/ HandshakeDone PROVE IsProxy /\ Alone(obj')
  BY <1>1, <1>4 DEF LookupAnswered, HandshakeDone
<1>5. ASSUME NEW end \in {"near", "far"}, FrameArrives(end) PROVE IsProxy /\ Alone(obj')
  BY <1>1, <1>5 DEF FrameArrives
<1>6. ASSUME NEW side \in Sides PROVE ~PeerTakes(side) /\ ~PeerFinishes(side) /\ ~PeerFails(side)
  BY <1>2 DEF PeerTakes, PeerFinishes, PeerFails
<1>7. ASSUME NEW side \in Sides,
             ReadChunk(side) \/ WritableEvent(side) \/ FinishedEvent(side) \/ FailureEvent(side)
      PROVE  IsProxy /\ Alone(obj')
  BY <1>1, <1>7 DEF ReadChunk, WritableEvent, FinishedEvent, FailureEvent
<1> QED
  BY <1>3, <1>4, <1>5, <1>6, <1>7 DEF Next

(* ... and once it has it, it has it.                                      *)
LEMMA ReusedStays ==
    ASSUME Next, reused = TRUE, obj.connector.fd # "none"
    PROVE  reused' = TRUE
<1>1. ASSUME NEW w, Becomes(w) PROVE reused' = TRUE
  BY <1>1 DEF Becomes, MayReuse
<1>2. ASSUME NEW side, NEW s, PeerStep(side, s) PROVE reused' = TRUE
  BY <1>2 DEF PeerStep
<1>3. ASSUME ClientSends \/ TargetSends PROVE reused' = TRUE
  BY <1>2, <1>3 DEF ClientSends, TargetSends
<1>4. ASSUME LookupAnswered \/ HandshakeDone PROVE reused' = TRUE
  BY <1>1, <1>4 DEF LookupAnswered, HandshakeDone
<1>5. ASSUME NEW end \in {"near", "far"}, FrameArrives(end) PROVE reused' = TRUE
  BY <1>1, <1>5 DEF FrameArrives
<1>6. ASSUME NEW side \in Sides, PeerTakes(side) \/ PeerFinishes(side) \/ PeerFails(side)
      PROVE  reused' = TRUE
  BY <1>2, <1>6 DEF PeerTakes, PeerFinishes, PeerFails
<1>7. ASSUME NEW side \in Sides,
             ReadChunk(side) \/ WritableEvent(side) \/ FinishedEvent(side) \/ FailureEvent(side)
      PROVE  reused' = TRUE
  BY <1>1, <1>7 DEF ReadChunk, WritableEvent, FinishedEvent, FailureEvent
<1> QED
  BY <1>3, <1>4, <1>5, <1>6, <1>7 DEF Next

LEMMA StrayRelays ==
    ASSUME ProxyInv(obj, orphan), Misdirected(obj), reused
    PROVE  RelayedInOrder
<1> DEFINE a == obj.acceptor
           c == obj.connector
<1>1. /\ SockOK(a) /\ SockOK(c) /\ a.status = "Closed"
      /\ a.got \in Seq(Unit) /\ c.got \in Seq(Unit) /\ Out(a) \in Seq(Unit)
      /\ Out(c) \in Seq(Unit)
  BY ProxyIs, Fields, OutIn DEF Misdirected, Alone, SockOK
<1>2. ~Sound
  BY <1>1 DEF Sound, SocketSound
<1>3. Begins(DataIn(a.got), Heard(a)) /\ Begins(DataIn(c.got), Heard(c))
  BY <1>1, GotBegins, BeginsData DEF Heard
<1>4. /\ DataIn(a.got) \in Seq(Unit) /\ DataIn(c.got) \in Seq(Unit)
      /\ Heard(a) \in Seq(Unit) /\ Heard(c) \in Seq(Unit)
  BY <1>1, DataTyped, HeardIn
<1>5. Begins(DataIn(a.got), TargetScript) /\ Begins(DataIn(c.got), Left(4, 7))
  BY <1>3, <1>4, BeginsTrans DEF Misdirected
<1>6. IsPrefix(DataIn(a.got), TargetScript) /\ IsPrefix(DataIn(c.got), DataIn(ClientScript))
  BY <1>4, <1>5, Units, BeginsPrefix, ScriptData
<1> QED
  BY <1>2, <1>6 DEF RelayedInOrder

-----------------------------------------------------------------------------
(* What either program has kept of what its peers have sent, or what has   *)
(* become of a proxy whose reply went astray.                              *)
Relays == \/ /\ ProxyKeeps(obj, orphan, sentUp, sentDown)
             /\ reused \in BOOLEAN /\ (reused => Alone(obj))
          \/ /\ ProxyInv(obj, orphan) /\ Misdirected(obj)
             /\ reused = TRUE /\ sentUp \in Nat /\ sentDown \in Nat
          \/ TunnelKeeps(obj, orphan, sentUp, sentDown) /\ reused = FALSE

LEMMA RelayStarts == Init => Relays
<1> SUFFICES ASSUME Init PROVE Relays
  OBVIOUS
<1>1. sentUp = 0 /\ sentDown = 0 /\ orphan = FALSE /\ reused = FALSE
  BY DEF Init
<1>2. PICK kind \in Clients : obj = Proxy(kind) \/ obj = Forwarding(kind)
  BY DEF Init
<1>3. ProxyKeeps(Proxy(kind), FALSE, 0, 0) /\ TunnelKeeps(Forwarding(kind), FALSE, 0, 0)
  BY ProxyDataInit, TunnelDataInit
<1> QED
  BY <1>1, <1>2, <1>3 DEF Relays

LEMMA RelaySteps == Relays /\ [Next]_vars => Relays'
<1> SUFFICES ASSUME Relays, [Next]_vars PROVE Relays'
  OBVIOUS
<1>1. CASE UNCHANGED vars
  <2>1. /\ obj' = obj /\ orphan' = orphan /\ reused' = reused
        /\ sentUp' = sentUp /\ sentDown' = sentDown
    BY <1>1 DEF vars
  <2> QED
    BY <2>1 DEF Relays, IsProxy
<1>2. ASSUME Next, ProxyKeeps(obj, orphan, sentUp, sentDown), reused \in BOOLEAN,
             reused => Alone(obj)
      PROVE  Relays'
  <2>f. /\ ProxyInv(obj, orphan) /\ ProxyData(obj, sentUp, sentDown) /\ IsProxy
        /\ sentUp \in Nat /\ sentDown \in Nat /\ ProxyOK(obj, orphan)
    BY <1>2, ProxyIs DEF ProxyKeeps, ProxyData, ProxyUp, Delivered
  <2>i. ProxyInv(obj', orphan') /\ sentUp' \in Nat /\ sentDown' \in Nat /\ reused' \in BOOLEAN
    BY <1>2, <2>f, ProxyNext, ReusedIs
  <2>1. CASE reused /\ HandshakeDone
    <3>1. PICK r : r = OnConnected([obj EXCEPT !.connector.status = "Connected"], TRUE)
      OBVIOUS
    <3>2. reused = TRUE
      BY <1>2, <2>1
    <3>3. Becomes(r) /\ InHandshake(obj.connector)
      BY <2>f, <2>1, <3>1, <3>2 DEF HandshakeDone
    <3>4. Misdirected(r)
      BY <1>2, <2>f, <2>1, <3>1, <3>3, StrayData
    <3>5. obj' = r /\ reused' = TRUE
      <4>1. obj.connector.fd # "none"
        BY <3>3 DEF InHandshake, IsOpen
      <4> QED
        BY <3>2, <3>3, <4>1 DEF Becomes, MayReuse
    <3> QED
      BY <2>i, <3>4, <3>5 DEF Relays
  <2>2. CASE ~(reused /\ HandshakeDone)
    <3>1. ProxyKeeps(obj', orphan', sentUp', sentDown')
      BY <1>2, <2>2, ProxyKept
    <3>2. ASSUME reused, ~HandshakeDone PROVE Alone(obj')
      BY <1>2, <2>f, <3>2, AloneNext
    <3>3. reused' => Alone(obj')
      BY <1>2, <2>2, <3>2, ReusedWhen
    <3> QED
      BY <2>i, <3>1, <3>3 DEF Relays
  <2> QED
    BY <2>1, <2>2
<1>3. ASSUME Next, ProxyInv(obj, orphan), Misdirected(obj), reused = TRUE,
             sentUp \in Nat, sentDown \in Nat
      PROVE  Relays'
  <2>1. ProxyInv(obj', orphan') /\ sentUp' \in Nat /\ sentDown' \in Nat
    BY <1>3, ProxyNext
  <2>2. Alone(obj) /\ ~HandshakeDone
    BY <1>3 DEF Misdirected, HandshakeDone, InHandshake
  <2>3. Misdirected(obj')
    BY <1>3, <2>2, AloneNext
  <2>4. reused' = TRUE
    BY <1>3, <2>2, ReusedStays DEF Alone
  <2> QED
    BY <2>1, <2>3, <2>4 DEF Relays
<1>4. ASSUME Next, TunnelKeeps(obj, orphan, sentUp, sentDown), reused = FALSE
      PROVE  Relays'
  <2>1. TunnelKeeps(obj', orphan', sentUp', sentDown')
    BY <1>4, TunnelKept
  <2>2. ~IsProxy
    BY <1>4, TunnelIs DEF TunnelKeeps
  <2>3. reused' = FALSE
    BY <1>4, <2>2, ReusedWhen, ReusedIs
  <2> QED
    BY <2>1, <2>3 DEF Relays
<1> QED
  BY <1>1, <1>2, <1>3, <1>4 DEF Relays

(* Each side gets what the other sent, whole and in order, through a proxy *)
(* and through a tunnel, in whatever pieces it comes and whenever the      *)
(* target is connected: each unit is with the peer, queued, buffered, in   *)
(* the stream or unread, once, for as long as nobody has closed.  A target *)
(* that was given its client's number may get the reply to that client,    *)
(* and nothing else that it was not sent.                                  *)
THEOREM RelaysInOrder == Spec => []RelayedInOrder
<1>1. Relays => RelayedInOrder
  BY ProxyRelays, StrayRelays, TunnelRelays DEF Relays
<1> QED
  BY <1>1, RelayStarts, RelaySteps, PTL DEF Spec

=============================================================================
