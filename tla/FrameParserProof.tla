-------------------------- MODULE FrameParserProof ---------------------------
(***************************************************************************)
(* Theorems about FrameParser: for any frames of any lengths, cut anywhere,*)
(* and any sizes of the header and of the buffers.                         *)
(***************************************************************************)
EXTENDS FrameParser, WellFoundedInduction, SequenceTheorems, TLAPS

-----------------------------------------------------------------------------
(* Induction.  The library states it for a predicate that is a parameter;  *)
(* here a set takes its place, the set of the values the claim holds for.  *)
NatLess == OpToRel(<, Nat)

(* From a to b, one by one.                                                *)
LEMMA Climb ==
    ASSUME NEW a \in Nat, NEW b \in Nat, NEW G, a \in G,
           \A k \in a .. b - 1 : k \in G => k + 1 \in G
    PROVE  a .. b \subseteq G
<1> DEFINE Missing == (a .. b) \ G
<1> SUFFICES ASSUME Missing # {} PROVE FALSE
  OBVIOUS
<1>1. Missing \subseteq Nat
  OBVIOUS
<1>2. PICK m \in Missing : \A k \in Missing : ~(<<k, m>> \in NatLess)
  BY <1>1, NatLessThanWellFounded, WFMin DEF NatLess
<1> HIDE DEF Missing
<1>3. \A k \in Missing : ~(k < m)
  BY <1>1, <1>2 DEF NatLess, OpToRel
<1>4. m \in a .. b /\ m \notin G /\ m # a
  BY <1>2 DEF Missing
<1>5. m - 1 \in a .. b - 1 /\ m - 1 < m
  BY <1>4
<1>6. m - 1 \in G
  BY <1>3, <1>5 DEF Missing
<1> QED
  BY <1>4, <1>5, <1>6

-----------------------------------------------------------------------------
(* Where the parser is in the stream.                                      *)
Base == received - Len(data)
Position == Base + data_pos
FrameEnd == Start[Len(parsed) + 2] - 1

Types == /\ frames \in Seq(FrameKinds) /\ Len(frames) <= MaxFrames
         /\ received \in 0 .. Total
         /\ Len(data) \in 0 .. received
         /\ data_pos \in 0 .. Len(data)
         /\ Len(parseBuffer) \in 0 .. capacity
         /\ capacity \in 0 .. MaxFrameSize
         /\ parsed \in Seq(Seq(Nat))
         /\ pc \in {"idle", "header", "payload", "zeroCopy", "store",
                    "ProtocolError", "InternalError"}
         /\ poolEmpty \in BOOLEAN

(* Both buffers are pieces of the stream; that of the parser starts where  *)
(* the frames handled so far end.                                          *)
InOrder == /\ data = Bytes(Base + 1, received)
           /\ Len(data) <= MaxChunk
           /\ parseBuffer = Bytes(ParsedBytes + 1, ParsedBytes + Len(parseBuffer))
           /\ capacity = 0 \/ ParseBufferSize <= capacity

(* How far each part of onReceiveData has come.                            *)
Progress ==
    /\ pc = "idle" => ParsedBytes + Len(parseBuffer) = received
    /\ pc \in {"header", "payload"} =>
          /\ ParsedBytes + Len(parseBuffer) = Position
          /\ Len(parsed) < Len(frames)
    /\ pc = "header" => Position < FrameEnd /\ 1 <= Len(parseBuffer)
    /\ pc = "payload" => Position <= FrameEnd /\ HeaderSize <= Len(parseBuffer)
    /\ pc \in {"zeroCopy", "store"} => parseBuffer = << >> /\ ParsedBytes = Position
    /\ pc = "store" => Len(parsed) = Len(frames) \/ received < FrameEnd

ParserInv == /\ Types /\ FramesAsSent /\ InOrder /\ Progress
             /\ NoFrameWaits /\ ShutDownForCause

-----------------------------------------------------------------------------
(* Where frames start.                                                     *)
LEMMA SizeBounds ==
    ASSUME NEW f \in FrameKinds
    PROVE  Size(f) \in Nat /\ HeaderSize <= Size(f) /\ 1 <= Size(f)
<1>1. HeaderSize \in Nat \ {0} /\ f.length \in Nat
  BY ParserAssumption DEF FrameKinds, ParserAssumption
<1>2. Size(f) = HeaderSize \/ Size(f) = HeaderSize + f.length
  BY DEF Size
<1> QED
  BY <1>1, <1>2

LEMMA StartUnfolds ==
    ASSUME Len(frames) \in Nat
    PROVE  Start = [k \in 1 .. Len(frames) + 1 |->
                       IF k = 1 THEN 1 ELSE Start[k - 1] + Size(frames[k - 1])]
<1> DEFINE Next1(f, k) == IF k = 1 THEN 1 ELSE f[k - 1] + Size(frames[k - 1])
           G == {m \in 1 .. Len(frames) + 1 : \E f : f = [k \in 1 .. m |-> Next1(f, k)]}
<1>1. 1 \in G
  <2> DEFINE f == [k \in 1 .. 1 |-> 1]
  <2>1. f = [k \in 1 .. 1 |-> Next1(f, k)]
    OBVIOUS
  <2> HIDE DEF f
  <2> QED
    BY <2>1
<1>2. ASSUME NEW m \in 1 .. Len(frames), m \in G PROVE m + 1 \in G
  <2>1. PICK f : f = [k \in 1 .. m |-> Next1(f, k)]
    BY <1>2
  <2> DEFINE g == [k \in 1 .. m + 1 |-> IF k = m + 1 THEN Next1(f, k) ELSE f[k]]
  <2>2. \A k \in 1 .. m + 1 : k # 1 => k - 1 \in 1 .. m /\ g[k - 1] = f[k - 1]
    OBVIOUS
  <2>3. \A k \in 1 .. m + 1 : Next1(g, k) = Next1(f, k)
    BY <2>2
  <2>4. \A k \in 1 .. m : f[k] = Next1(f, k)
    BY <2>1
  <2>5. \A k \in 1 .. m + 1 : g[k] = Next1(f, k)
    <3> HIDE DEF Next1
    <3> QED
      BY <2>4
  <2>6. g = [k \in 1 .. m + 1 |-> Next1(g, k)]
    BY <2>3, <2>5
  <2> HIDE DEF g
  <2> QED
    BY <2>6
<1>3. Len(frames) + 1 \in G
  <2> HIDE DEF G
  <2>1. /\ \A k \in 1 .. (Len(frames) + 1) - 1 : k \in G => k + 1 \in G
        /\ 1 \in Nat /\ Len(frames) + 1 \in Nat
    BY <1>2
  <2>2. 1 .. Len(frames) + 1 \subseteq G
    BY <1>1, <2>1, Climb, Zenon
  <2> QED
    BY <2>2
<1> DEFINE s == CHOOSE f : f = [k \in 1 .. Len(frames) + 1 |-> Next1(f, k)]
<1>4. s = [k \in 1 .. Len(frames) + 1 |-> Next1(s, k)]
  BY <1>3
<1>5. Start = s
  BY DEF Start
<1> QED
  BY <1>4, <1>5

LEMMA StartNext ==
    ASSUME frames \in Seq(FrameKinds)
    PROVE  /\ Start[1] = 1
           /\ \A k \in 1 .. Len(frames) : Start[k + 1] = Start[k] + Size(frames[k])
<1>1. Len(frames) \in Nat
  OBVIOUS
<1>2. \A k \in 1 .. Len(frames) + 1 :
          Start[k] = IF k = 1 THEN 1 ELSE Start[k - 1] + Size(frames[k - 1])
  BY <1>1, StartUnfolds, Zenon
<1>3. 1 \in 1 .. Len(frames) + 1
      /\ \A k \in 1 .. Len(frames) : k + 1 \in 1 .. Len(frames) + 1 /\ k + 1 # 1 /\ (k + 1) - 1 = k
  BY <1>1
<1> QED
  BY <1>2, <1>3, Zenon

LEMMA StartGrows ==
    ASSUME frames \in Seq(FrameKinds)
    PROVE  /\ \A k \in 1 .. Len(frames) + 1 : Start[k] \in Nat \ {0} /\ Start[k] - 1 <= Total
           /\ \A j, k \in 1 .. Len(frames) + 1 : j < k => Start[j] < Start[k]
           /\ Total \in Nat
<1> DEFINE n == Len(frames)
<1>1. n \in Nat /\ \A k \in 1 .. n : frames[k] \in FrameKinds
  OBVIOUS
<1>2. \A k \in 1 .. n : Size(frames[k]) \in Nat /\ 1 <= Size(frames[k])
  BY <1>1, SizeBounds
<1> DEFINE G == {k \in 1 .. n + 1 : Start[k] \in Nat \ {0}}
<1>3. 1 \in G
  BY <1>1, StartNext
<1>4. \A k \in 1 .. (n + 1) - 1 : k \in G => k + 1 \in G
  <2> SUFFICES ASSUME NEW k \in 1 .. n, k \in G PROVE k + 1 \in G
    BY <1>1
  <2>1. Start[k + 1] = Start[k] + Size(frames[k])
    BY StartNext
  <2> QED
    BY <1>1, <1>2, <2>1
<1>5. 1 .. n + 1 \subseteq G
  <2>1. 1 \in Nat /\ n + 1 \in Nat
    BY <1>1
  <2> HIDE DEF G, n
  <2> QED
    BY <1>3, <1>4, <2>1, Climb, Zenon
<1>6. \A k \in 1 .. n + 1 : Start[k] \in Nat \ {0}
  BY <1>5
<1>7. ASSUME NEW j \in 1 .. n + 1, NEW k \in 1 .. n + 1, j < k PROVE Start[j] < Start[k]
  <2> DEFINE H == {i \in j + 1 .. n + 1 : Start[j] < Start[i]}
  <2>1. j \in 1 .. n /\ j + 1 \in H
    <3>1. j \in 1 .. n
      BY <1>1, <1>7
    <3>2. Start[j + 1] = Start[j] + Size(frames[j])
      BY <3>1, StartNext
    <3>3. Start[j] \in Nat /\ Size(frames[j]) \in Nat /\ 1 <= Size(frames[j])
      BY <1>1, <1>2, <1>6, <3>1
    <3>4. Start[j] < Start[j + 1] /\ j + 1 \in j + 1 .. n + 1
      BY <1>1, <3>1, <3>2, <3>3
    <3> QED
      BY <3>1, <3>4
  <2>2. ASSUME NEW i \in j + 1 .. (n + 1) - 1, i \in H PROVE i + 1 \in H
    <3>1. i \in 1 .. n /\ i + 1 \in j + 1 .. n + 1
      BY <1>1, <2>1
    <3>2. Start[i + 1] = Start[i] + Size(frames[i])
      BY <3>1, StartNext
    <3>3. Start[j] \in Nat /\ Start[i] \in Nat /\ Size(frames[i]) \in Nat /\ Start[j] < Start[i]
      BY <1>1, <1>2, <1>6, <2>2, <3>1
    <3>4. Start[j] < Start[i + 1]
      BY <3>2, <3>3
    <3> QED
      BY <3>1, <3>4
  <2>3. j + 1 .. n + 1 \subseteq H
    <3>1. j + 1 \in Nat /\ n + 1 \in Nat
      BY <1>1, <2>1
    <3> HIDE DEF H, n
    <3> QED
      BY <2>1, <2>2, <3>1, Climb, Zenon
  <2>4. k \in j + 1 .. n + 1
    BY <1>1, <1>7
  <2> QED
    BY <2>3, <2>4
<1>8. Total = Start[n + 1] - 1
  BY DEF Total
<1>9. ASSUME NEW k \in 1 .. n + 1 PROVE Start[k] - 1 <= Total
  <2>1. k = n + 1 \/ k < n + 1
    BY <1>1
  <2>2. Start[k] <= Start[n + 1]
    BY <1>1, <1>6, <1>7, <2>1
  <2> QED
    BY <1>1, <1>6, <1>8, <2>2
<1> QED
  BY <1>1, <1>6, <1>7, <1>8, <1>9

-----------------------------------------------------------------------------
(* Pieces of the stream.                                                   *)
LEMMA BytesAre ==
    ASSUME NEW a \in Nat, NEW b \in Nat, a <= b
    PROVE  /\ Bytes(a + 1, b) \in Seq(Nat)
           /\ Len(Bytes(a + 1, b)) = b - a
           /\ DOMAIN Bytes(a + 1, b) = 1 .. b - a
           /\ \A i \in 1 .. b - a : Bytes(a + 1, b)[i] = a + i
<1>1. Bytes(a + 1, b) = [i \in 1 .. b - a |-> a + i]
  BY DEF Bytes
<1>2. b - a \in Nat /\ \A i \in 1 .. b - a : a + i \in Nat
  OBVIOUS
<1> QED
  BY <1>1, <1>2

LEMMA BytesOfNone == ASSUME NEW a \in Nat PROVE Bytes(a + 1, a) = << >>
<1>1. Bytes(a + 1, a) \in Seq(Nat) /\ Len(Bytes(a + 1, a)) = 0
  BY BytesAre
<1> QED
  BY <1>1

Cut(s, m, n) == SubSeq(s, m + 1, n)

LEMMA BytesCut ==
    ASSUME NEW a \in Nat, NEW b \in Nat, a <= b, NEW m \in Nat, NEW n \in Nat, m <= n, a + n <= b
    PROVE  Cut(Bytes(a + 1, b), m, n) = Bytes((a + m) + 1, a + n)
<1> DEFINE s == Bytes(a + 1, b)
           t == Bytes((a + m) + 1, a + n)
<1>1. /\ s \in Seq(Nat) /\ Len(s) = b - a
      /\ \A i \in 1 .. b - a : s[i] = a + i
  BY BytesAre
<1>2. a + m \in Nat /\ a + n \in Nat /\ a + m <= a + n /\ (a + n) - (a + m) = n - m
  OBVIOUS
<1>3. /\ t \in Seq(Nat) /\ Len(t) = n - m
      /\ \A i \in 1 .. n - m : t[i] = (a + m) + i
  <2> HIDE DEF t
  <2>1. /\ t \in Seq(Nat) /\ Len(t) = (a + n) - (a + m)
        /\ \A i \in 1 .. (a + n) - (a + m) : t[i] = (a + m) + i
    BY <1>2, BytesAre DEF t
  <2> QED
    BY <1>2, <2>1
<1> HIDE DEF s, t
<1>4. /\ SubSeq(s, m + 1, n) \in Seq(Nat)
      /\ Len(SubSeq(s, m + 1, n)) = n - m
      /\ \A i \in 1 .. n - m : SubSeq(s, m + 1, n)[i] = s[m + i]
  BY <1>1
<1>5. \A i \in 1 .. n - m : m + i \in 1 .. b - a /\ s[m + i] = (a + m) + i
  BY <1>1
<1>6. SubSeq(s, m + 1, n) = t
  <2>1. \A i \in 1 .. Len(t) : SubSeq(s, m + 1, n)[i] = t[i]
    BY <1>3, <1>4, <1>5
  <2> QED
    BY <1>3, <1>4, <2>1, SeqEqual
<1> QED
  BY <1>6 DEF s, t, Cut

LEMMA BytesJoin ==
    ASSUME NEW a \in Nat, NEW b \in Nat, NEW c \in Nat, a <= b, b <= c
    PROVE  Bytes(a + 1, b) \o Bytes(b + 1, c) = Bytes(a + 1, c)
<1> DEFINE s == Bytes(a + 1, b)
           t == Bytes(b + 1, c)
           u == Bytes(a + 1, c)
<1>1. /\ s \in Seq(Nat) /\ Len(s) = b - a /\ \A i \in 1 .. b - a : s[i] = a + i
      /\ t \in Seq(Nat) /\ Len(t) = c - b /\ \A i \in 1 .. c - b : t[i] = b + i
  BY BytesAre
<1>2. u \in Seq(Nat) /\ Len(u) = c - a /\ \A i \in 1 .. c - a : u[i] = a + i
  BY BytesAre
<1> HIDE DEF s, t, u
<1>3. s \o t \in Seq(Nat) /\ Len(s \o t) = c - a
  <2>1. s \o t \in Seq(Nat) /\ Len(s \o t) = Len(s) + Len(t)
    BY <1>1, ConcatProperties, Zenon
  <2>2. Len(s) + Len(t) = c - a
    BY <1>1
  <2> QED
    BY <2>1, <2>2, Zenon
<1>4. ASSUME NEW i \in 1 .. c - a PROVE (s \o t)[i] = a + i
  <2>1. CASE i <= b - a
    BY <1>1, <2>1
  <2>2. CASE ~(i <= b - a)
    <3>1. i - (b - a) \in 1 .. c - b /\ b + (i - (b - a)) = a + i
      BY <2>2
    <3>2. (s \o t)[i] = t[i - (b - a)]
      BY <1>1, <2>2, SMTT(30)
    <3> QED
      BY <1>1, <3>1, <3>2
  <2> QED
    BY <2>1, <2>2
<1>5. s \o t = u
  <2>1. \A i \in 1 .. Len(u) : (s \o t)[i] = u[i]
    BY <1>2, <1>4
  <2> QED
    BY <1>2, <1>3, <2>1, SeqEqual
<1> QED
  BY <1>5 DEF s, t, u

(* A header is found where a frame starts, and is that frame's.            *)
LEMMA HeaderFound ==
    ASSUME frames \in Seq(FrameKinds), NEW k \in 1 .. Len(frames), NEW bytes,
           \A i \in 1 .. HeaderSize : bytes[i] = Start[k] + i - 1
    PROVE  HeaderAt(bytes) = frames[k]
<1> DEFINE ks == {j \in 1 .. Len(frames) :
                      \A i \in 1 .. HeaderSize : bytes[i] = Start[j] + i - 1}
<1>1. k \in ks
  OBVIOUS
<1>2. ASSUME NEW j \in ks PROVE j = k
  <2>1. 1 \in 1 .. HeaderSize
    BY ParserAssumption DEF ParserAssumption
  <2>2. Start[j] + 1 - 1 = Start[k] + 1 - 1
    BY <2>1
  <2>3. j \in 1 .. Len(frames) + 1 /\ k \in 1 .. Len(frames) + 1 /\ j \in Nat /\ k \in Nat
    OBVIOUS
  <2>4. Start[j] \in Nat /\ Start[k] \in Nat
    BY <2>3, StartGrows
  <2>5. Start[j] = Start[k]
    BY <2>2, <2>4
  <2>6. ~(j < k) /\ ~(k < j)
    BY <2>3, <2>4, <2>5, StartGrows
  <2> QED
    BY <2>3, <2>6
<1>3. HeaderAt(bytes) = frames[CHOOSE j \in ks : TRUE]
  BY <1>1 DEF HeaderAt
<1>4. (CHOOSE j \in ks : TRUE) \in ks
  BY <1>1
<1>5. (CHOOSE j \in ks : TRUE) = k
  <2> HIDE DEF ks
  <2> QED
    BY <1>2, <1>4
<1> QED
  BY <1>3, <1>5

(* What has been handled, and the end of the frame that comes next.        *)
LEMMA NextFrame ==
    ASSUME Types, FramesAsSent
    PROVE  /\ Len(frames) \in Nat /\ Len(parsed) \in 0 .. Len(frames) /\ Total \in Nat
           /\ ParsedBytes \in 0 .. Total
           /\ Len(parsed) = Len(frames) => ParsedBytes = Total
           /\ Len(parsed) < Len(frames) =>
                 LET f == frames[Len(parsed) + 1]
                 IN  /\ f \in FrameKinds
                     /\ Size(f) \in Nat /\ HeaderSize <= Size(f)
                     /\ FrameEnd = ParsedBytes + Size(f)
                     /\ FrameEnd \in 0 .. Total
                     /\ FrameBytes(Len(parsed) + 1) = Bytes(ParsedBytes + 1, FrameEnd)
                     /\ Start[Len(parsed) + 1] = ParsedBytes + 1
<1>1. /\ frames \in Seq(FrameKinds) /\ Len(frames) \in Nat
      /\ Len(parsed) \in 0 .. Len(frames)
  BY DEF Types, FramesAsSent
<1>2. PICK n \in 0 .. Len(frames) : n = Len(parsed)
  BY <1>1
<1>3. n + 1 \in 1 .. Len(frames) + 1 /\ n \in Nat
  BY <1>1
<1>4. Start[n + 1] \in Nat \ {0} /\ Start[n + 1] - 1 <= Total /\ Total \in Nat
  BY <1>1, <1>3, StartGrows
<1>5. ParsedBytes = Start[n + 1] - 1
  BY <1>2 DEF ParsedBytes
<1>6. n = Len(frames) => ParsedBytes = Total
  BY <1>5 DEF Total
<1>7. ASSUME n < Len(frames)
      PROVE  LET f == frames[n + 1]
             IN  /\ f \in FrameKinds
                 /\ Size(f) \in Nat /\ HeaderSize <= Size(f)
                 /\ FrameEnd = ParsedBytes + Size(f)
                 /\ FrameEnd \in 0 .. Total
                 /\ FrameBytes(n + 1) = Bytes(ParsedBytes + 1, FrameEnd)
                 /\ Start[n + 1] = ParsedBytes + 1
  <2>1. n + 1 \in 1 .. Len(frames) /\ n + 2 \in 1 .. Len(frames) + 1 /\ (n + 1) + 1 = n + 2
    BY <1>1, <1>3, <1>7
  <2>2. frames[n + 1] \in FrameKinds
    BY <1>1, <2>1
  <2>3. Size(frames[n + 1]) \in Nat /\ HeaderSize <= Size(frames[n + 1])
    BY <2>2, SizeBounds
  <2>4. Start[n + 2] = Start[n + 1] + Size(frames[n + 1])
    BY <1>1, <2>1, StartNext
  <2>5. FrameEnd = Start[n + 2] - 1
    BY <1>2 DEF FrameEnd
  <2>6. Start[n + 2] - 1 <= Total /\ Start[n + 2] \in Nat \ {0}
    BY <1>1, <2>1, StartGrows
  <2>7. Start[n + 1] = ParsedBytes + 1
    BY <1>4, <1>5
  <2>8. FrameEnd = ParsedBytes + Size(frames[n + 1])
    BY <1>4, <1>5, <2>3, <2>4, <2>5
  <2>9. FrameEnd \in 0 .. Total
    BY <1>4, <2>5, <2>6
  <2>10. FrameBytes(n + 1) = Bytes(ParsedBytes + 1, FrameEnd)
    BY <2>1, <2>5, <2>7 DEF FrameBytes
  <2> QED
    BY <2>2, <2>3, <2>7, <2>8, <2>9, <2>10
<1>8. ParsedBytes \in 0 .. Total
  BY <1>4, <1>5
<1> QED
  BY <1>1, <1>2, <1>4, <1>6, <1>7, <1>8

LEMMA FramesStay == ASSUME frames' = frames PROVE Start' = Start /\ Total' = Total
<1>1. Start' = Start
  BY DEF Start
<1> QED
  BY <1>1 DEF Total

-----------------------------------------------------------------------------
(* What a step leaves alone, and what handling one more frame changes.     *)
LEMMA NothingParsed ==
    ASSUME FramesAsSent, frames' = frames, parsed' = parsed
    PROVE  /\ Start' = Start /\ Total' = Total
           /\ ParsedBytes' = ParsedBytes /\ FrameEnd' = FrameEnd
           /\ FramesAsSent'
<1>1. Start' = Start /\ Total' = Total
  BY FramesStay
<1>2. ParsedBytes' = ParsedBytes /\ FrameEnd' = FrameEnd
  BY <1>1 DEF ParsedBytes, FrameEnd
<1>3. FramesAsSent'
  BY <1>1 DEF FramesAsSent, FrameBytes
<1> QED
  BY <1>1, <1>2, <1>3

LEMMA OneParsed ==
    ASSUME Types, FramesAsSent, Len(parsed) < Len(frames), frames' = frames,
           parsed' = Append(parsed, Bytes(ParsedBytes + 1, FrameEnd))
    PROVE  /\ Start' = Start /\ Total' = Total
           /\ Len(parsed') = Len(parsed) + 1
           /\ ParsedBytes' = FrameEnd
           /\ FramesAsSent'
           /\ parsed' \in Seq(Seq(Nat))
<1>1. Start' = Start /\ Total' = Total
  BY FramesStay
<1>2. /\ Len(frames) \in Nat /\ Len(parsed) \in 0 .. Len(frames) /\ Len(parsed) \in Nat
      /\ ParsedBytes \in 0 .. Total /\ FrameEnd \in 0 .. Total /\ Total \in Nat
      /\ ParsedBytes <= FrameEnd
      /\ FrameBytes(Len(parsed) + 1) = Bytes(ParsedBytes + 1, FrameEnd)
  <2>1. /\ Len(frames) \in Nat /\ Len(parsed) \in 0 .. Len(frames) /\ Total \in Nat
        /\ ParsedBytes \in 0 .. Total /\ FrameEnd \in 0 .. Total
        /\ FrameEnd = ParsedBytes + Size(frames[Len(parsed) + 1])
        /\ Size(frames[Len(parsed) + 1]) \in Nat
        /\ FrameBytes(Len(parsed) + 1) = Bytes(ParsedBytes + 1, FrameEnd)
    BY NextFrame
  <2> QED
    BY <2>1
<1> DEFINE e == Bytes(ParsedBytes + 1, FrameEnd)
<1>3. e \in Seq(Nat)
  BY <1>2, BytesAre
<1> HIDE DEF e
<1>4. parsed \in Seq(Seq(Nat)) /\ parsed' = Append(parsed, e)
  BY DEF Types, e
<1>5. /\ parsed' \in Seq(Seq(Nat)) /\ Len(parsed') = Len(parsed) + 1
      /\ \A k \in 1 .. Len(parsed) : parsed'[k] = parsed[k]
      /\ parsed'[Len(parsed) + 1] = e
  BY <1>3, <1>4
<1>6. ParsedBytes' = FrameEnd
  <2>1. Len(parsed') + 1 = Len(parsed) + 2
    BY <1>2, <1>5
  <2> QED
    BY <1>1, <2>1 DEF ParsedBytes, FrameEnd
<1>7. \A k : FrameBytes(k)' = FrameBytes(k)
  BY <1>1 DEF FrameBytes
<1>8. Len(parsed') <= Len(frames)
  BY <1>2, <1>5
<1>9. ASSUME NEW k \in 1 .. Len(parsed') PROVE parsed'[k] = FrameBytes(k)
  <2>1. k \in 1 .. Len(parsed) \/ k = Len(parsed) + 1
    BY <1>2, <1>5
  <2> QED
    BY <1>2, <1>5, <2>1 DEF e, FramesAsSent
<1>10. FramesAsSent'
  BY <1>7, <1>8, <1>9 DEF FramesAsSent
<1> QED
  BY <1>1, <1>5, <1>6, <1>10

(* The bytes of the current call that the parse buffer lacks continue it.  *)
LEMMA Continues ==
    ASSUME Types, InOrder, FramesAsSent, ParsedBytes + Len(parseBuffer) = Position,
           NEW n \in 0 .. Len(data) - data_pos
    PROVE  /\ SubSeq(data, data_pos + 1, data_pos + n) = Bytes(Position + 1, Position + n)
           /\ parseBuffer \o SubSeq(data, data_pos + 1, data_pos + n)
                  = Bytes(ParsedBytes + 1, Position + n)
           /\ Len(Bytes(ParsedBytes + 1, Position + n)) = Len(parseBuffer) + n
<1>1. /\ Base \in Nat /\ Position \in Nat /\ data_pos \in Nat /\ data_pos + n \in Nat
      /\ received \in Nat /\ Base <= received /\ Base + (data_pos + n) <= received
      /\ data_pos <= data_pos + n /\ Position = Base + data_pos /\ Base + (data_pos + n) = Position + n
      /\ Len(parseBuffer) \in Nat
  BY StartGrows DEF Types, Base, Position
<1>2. ParsedBytes \in Nat /\ ParsedBytes <= Position
  <2>1. ParsedBytes \in 0 .. Total /\ Total \in Nat
    BY NextFrame
  <2> QED
    BY <1>1, <2>1
<1>3. data = Bytes(Base + 1, received)
      /\ parseBuffer = Bytes(ParsedBytes + 1, Position)
  BY DEF InOrder
<1>4. SubSeq(Bytes(Base + 1, received), data_pos + 1, data_pos + n)
          = Bytes((Base + data_pos) + 1, Base + (data_pos + n))
  <2>1. Cut(Bytes(Base + 1, received), data_pos, data_pos + n)
            = Bytes((Base + data_pos) + 1, Base + (data_pos + n))
    BY <1>1, BytesCut
  <2> QED
    BY <2>1 DEF Cut
<1>5. SubSeq(data, data_pos + 1, data_pos + n) = Bytes(Position + 1, Position + n)
  BY <1>1, <1>3, <1>4, Zenon
<1>6. Bytes(ParsedBytes + 1, Position) \o Bytes(Position + 1, Position + n)
          = Bytes(ParsedBytes + 1, Position + n)
  <2>1. Position + n \in Nat /\ Position <= Position + n
    BY <1>1
  <2> QED
    BY <1>1, <1>2, <2>1, BytesJoin, ZenonT(30)
<1>7. Len(Bytes(ParsedBytes + 1, Position + n)) = Len(parseBuffer) + n
  <2>1. /\ Position + n \in Nat /\ ParsedBytes <= Position + n
        /\ (Position + n) - ParsedBytes = Len(parseBuffer) + n
    BY <1>1, <1>2
  <2> QED
    BY <1>2, <2>1, BytesAre
<1> QED
  BY <1>3, <1>5, <1>6, <1>7, Zenon

(* The numbers in the invariant.                                          *)
LEMMA Numbers ==
    ASSUME Types, FramesAsSent, InOrder
    PROVE  /\ HeaderSize \in Nat /\ 1 <= HeaderSize /\ ParseBufferSize \in Nat
           /\ HeaderSize <= ParseBufferSize /\ MaxFrameSize \in Nat /\ MaxChunk \in Nat
           /\ ParseBufferSize <= MaxFrameSize /\ MaxChunk <= ParseBufferSize
           /\ Len(frames) \in Nat /\ Len(parsed) \in Nat /\ Len(parsed) <= Len(frames)
           /\ Total \in Nat /\ ParsedBytes \in Nat /\ ParsedBytes <= Total
           /\ received \in Nat /\ received <= Total
           /\ Len(data) \in Nat /\ Len(data) <= received
           /\ data_pos \in Nat /\ data_pos <= Len(data)
           /\ Len(parseBuffer) \in Nat /\ Len(parseBuffer) <= capacity
           /\ capacity \in Nat /\ capacity <= MaxFrameSize
           /\ capacity = 0 \/ ParseBufferSize <= capacity
           /\ Base \in Nat /\ Base = received - Len(data)
           /\ Position \in Nat /\ Position = Base + data_pos /\ Position <= received
<1>1. /\ HeaderSize \in Nat /\ 1 <= HeaderSize /\ ParseBufferSize \in Nat
      /\ HeaderSize <= ParseBufferSize /\ MaxFrameSize \in Nat /\ MaxChunk \in Nat
      /\ ParseBufferSize <= MaxFrameSize /\ MaxChunk <= ParseBufferSize
  BY ParserAssumption DEF ParserAssumption
<1>2. /\ Len(frames) \in Nat /\ Len(parsed) \in Nat /\ Len(parsed) <= Len(frames)
      /\ Total \in Nat /\ ParsedBytes \in Nat /\ ParsedBytes <= Total
  BY NextFrame
<1>3. /\ received \in Nat /\ received <= Total
      /\ Len(data) \in Nat /\ Len(data) <= received
      /\ data_pos \in Nat /\ data_pos <= Len(data)
  BY <1>2 DEF Types
<1>4. /\ Len(parseBuffer) \in Nat /\ Len(parseBuffer) <= capacity
      /\ capacity \in Nat /\ capacity <= MaxFrameSize
      /\ capacity = 0 \/ ParseBufferSize <= capacity
  BY <1>1 DEF Types, InOrder
<1>5. /\ Base \in Nat /\ Base = received - Len(data)
      /\ Position \in Nat /\ Position = Base + data_pos /\ Position <= received
  BY <1>3 DEF Base, Position
<1> QED
  BY <1>1, <1>2, <1>3, <1>4, <1>5

(* What CopyTo(size) copies, and when that completes the frame.            *)
LEMMA Copies ==
    ASSUME Types, InOrder, FramesAsSent, ParsedBytes + Len(parseBuffer) = Position,
           NEW size \in Nat, Len(parseBuffer) <= size, NEW n, n = Copied(size)
    PROVE  /\ n \in 0 .. Len(data) - data_pos
           /\ Len(parseBuffer) + n <= size
           /\ Completes(size) => Len(parseBuffer) + n = size
           /\ ~Completes(size) => Len(parseBuffer) + n < size /\ Position + n = received
           /\ parseBuffer \o SubSeq(data, data_pos + 1, data_pos + n)
                  = Bytes(ParsedBytes + 1, Position + n)
           /\ Len(Bytes(ParsedBytes + 1, Position + n)) = Len(parseBuffer) + n
<1>1. /\ Len(parseBuffer) \in Nat /\ Len(data) \in Nat /\ data_pos \in 0 .. Len(data)
      /\ received \in Nat /\ Position = received - Len(data) + data_pos
  BY StartGrows DEF Types, Position, Base
<1>2. n = IF size - Len(parseBuffer) < Len(data) - data_pos
             THEN size - Len(parseBuffer) ELSE Len(data) - data_pos
  BY DEF Copied, Upto
<1>3. n \in 0 .. Len(data) - data_pos /\ Len(parseBuffer) + n <= size
  BY <1>1, <1>2
<1>4. Completes(size) <=> Len(parseBuffer) + n >= size
  BY DEF Completes
<1>5. Completes(size) => Len(parseBuffer) + n = size
  BY <1>1, <1>3, <1>4
<1>6. ~Completes(size) => Len(parseBuffer) + n < size /\ Position + n = received
  <2>1. Len(parseBuffer) + n < size => n = Len(data) - data_pos
    BY <1>1, <1>2
  <2>2. n \in Nat /\ data_pos \in Nat
    BY <1>1, <1>3
  <2>3. n = Len(data) - data_pos => Position + n = received
    BY <1>1, <2>2
  <2> QED
    BY <1>1, <1>4, <2>1, <2>2, <2>3
<1> QED
  BY <1>3, <1>5, <1>6, Continues

(* The parse buffer, once it holds a header, tells the frame's size.       *)
LEMMA SizeKnown ==
    ASSUME Types, FramesAsSent, Len(parsed) < Len(frames),
           NEW b \in Nat, ParsedBytes + HeaderSize <= b
    PROVE  HeaderAt(Bytes(ParsedBytes + 1, b)) = frames[Len(parsed) + 1]
<1>1. /\ Len(parsed) + 1 \in 1 .. Len(frames)
      /\ ParsedBytes \in Nat /\ Start[Len(parsed) + 1] = ParsedBytes + 1
  <2>1. /\ Len(frames) \in Nat /\ Len(parsed) \in 0 .. Len(frames) /\ Total \in Nat
        /\ ParsedBytes \in 0 .. Total /\ Start[Len(parsed) + 1] = ParsedBytes + 1
    BY NextFrame
  <2> QED
    BY <2>1
<1>2. HeaderSize \in Nat
  BY ParserAssumption DEF ParserAssumption
<1>3. /\ ParsedBytes <= b
      /\ \A i \in 1 .. HeaderSize : /\ i \in 1 .. b - ParsedBytes
                                    /\ ParsedBytes + i = (ParsedBytes + 1) + i - 1
  BY <1>1, <1>2
<1>4. \A i \in 1 .. HeaderSize : Bytes(ParsedBytes + 1, b)[i] = Start[Len(parsed) + 1] + i - 1
  BY <1>1, <1>3, BytesAre
<1> QED
  BY <1>1, <1>4, HeaderFound DEF Types

-----------------------------------------------------------------------------
(* The actions.                                                            *)
LEMMA OnReceiveDataKeeps == ASSUME ParserInv, OnReceiveData PROVE ParserInv'
<1> USE DEF ParserInv
<1>1. PICK len \in 1 .. Upto(MaxChunk, Total - received) :
          data' = Bytes(received + 1, received + len) /\ received' = received + len
  BY DEF OnReceiveData
<1>2. /\ pc = "idle" /\ data_pos' = 0 /\ poolEmpty' \in BOOLEAN
      /\ pc' = IF parseBuffer = << >> THEN "zeroCopy" ELSE "header"
      /\ frames' = frames /\ parseBuffer' = parseBuffer
      /\ capacity' = capacity /\ parsed' = parsed
  BY DEF OnReceiveData
<1>3. /\ Start' = Start /\ Total' = Total /\ ParsedBytes' = ParsedBytes
      /\ FrameEnd' = FrameEnd /\ FramesAsSent'
  BY <1>2, NothingParsed
<1>4. /\ Len(frames) \in Nat /\ Len(parsed) \in 0 .. Len(frames) /\ Total \in Nat
      /\ ParsedBytes \in 0 .. Total /\ (Len(parsed) = Len(frames) => ParsedBytes = Total)
  BY NextFrame
<1>5. /\ received \in 0 .. Total /\ Len(parseBuffer) \in 0 .. capacity
      /\ capacity \in 0 .. MaxFrameSize
      /\ ParsedBytes + Len(parseBuffer) = received
  BY <1>2 DEF Types, Progress
<1>6. MaxChunk \in Nat /\ MaxFrameSize \in Nat
  BY ParserAssumption DEF ParserAssumption
<1>7. len \in Nat /\ 1 <= len /\ len <= MaxChunk /\ received + len \in 0 .. Total
  BY <1>1, <1>4, <1>5, <1>6 DEF Upto
<1>8. Len(data') = len
  <2>1. received \in Nat /\ received + len \in Nat /\ received <= received + len
    BY <1>4, <1>5, <1>7
  <2>2. Len(Bytes(received + 1, received + len)) = (received + len) - received
    BY <2>1, BytesAre
  <2> QED
    BY <1>1, <1>4, <1>5, <1>7, <2>2
<1>9. Base' = received /\ Position' = received
  BY <1>1, <1>2, <1>4, <1>5, <1>7, <1>8 DEF Base, Position
<1>10. Types'
  BY <1>1, <1>2, <1>3, <1>4, <1>5, <1>7, <1>8 DEF Types
<1>11. InOrder'
  <2>1. data' = Bytes(Base' + 1, received') /\ Len(data') <= MaxChunk
    BY <1>1, <1>7, <1>8, <1>9
  <2> QED
    BY <1>2, <1>3, <2>1 DEF InOrder
<1>12. Progress'
  <2>1. CASE parseBuffer = << >>
    <3>1. Len(parseBuffer) = 0 /\ ParsedBytes = received
      BY <1>4, <1>5, <2>1
    <3> QED
      BY <1>2, <1>3, <1>9, <2>1, <3>1 DEF Progress
  <2>2. CASE parseBuffer # << >>
    <3>1. Len(parseBuffer) # 0 /\ 1 <= Len(parseBuffer)
      <4>1. Len(parseBuffer) # 0
        BY <2>2 DEF InOrder, Bytes
      <4> QED
        BY <1>5, <1>6, <4>1
    <3>2. Len(parsed) < Len(frames)
      BY <1>4, <1>5, <3>1
    <3>3. received < FrameEnd
      BY <1>2, <1>4, <3>2 DEF NoFrameWaits, FrameEnd
    <3> QED
      BY <1>2, <1>3, <1>5, <1>9, <2>2, <3>1, <3>2, <3>3 DEF Progress
  <2> QED
    BY <2>1, <2>2
<1>13. NoFrameWaits' /\ ShutDownForCause'
  BY <1>2 DEF NoFrameWaits, ShutDownForCause
<1> QED
  BY <1>3, <1>10, <1>11, <1>12, <1>13

LEMMA CompleteHeaderKeeps == ASSUME ParserInv, CompleteHeader PROVE ParserInv'
<1> USE DEF ParserInv
<1>1. /\ pc = "header" /\ frames' = frames /\ received' = received /\ data' = data
      /\ capacity' = capacity /\ parsed' = parsed /\ poolEmpty' = poolEmpty
      /\ pc' = IF Len(parseBuffer) < HeaderSize /\ ~Completes(HeaderSize)
                  THEN "idle" ELSE "payload"
  BY DEF CompleteHeader
<1>2. /\ Start' = Start /\ Total' = Total /\ ParsedBytes' = ParsedBytes
      /\ FrameEnd' = FrameEnd /\ FramesAsSent' /\ Base' = Base
  BY <1>1, NothingParsed DEF Base
<1>3. /\ ParsedBytes + Len(parseBuffer) = Position /\ Len(parsed) < Len(frames)
      /\ Position < FrameEnd
  BY <1>1 DEF Progress
<1>4. /\ FrameEnd \in Nat /\ ParsedBytes + HeaderSize <= FrameEnd
  <2>1. /\ FrameEnd = ParsedBytes + Size(frames[Len(parsed) + 1])
        /\ Size(frames[Len(parsed) + 1]) \in Nat
        /\ HeaderSize <= Size(frames[Len(parsed) + 1])
    BY <1>3, NextFrame
  <2>2. ParsedBytes \in Nat /\ HeaderSize \in Nat
    BY Numbers
  <2> QED
    BY <2>1, <2>2
<1>5. /\ HeaderSize \in Nat /\ 1 <= HeaderSize /\ HeaderSize <= ParseBufferSize
      /\ ParseBufferSize \in Nat /\ ParsedBytes \in Nat /\ received \in Nat
      /\ Len(data) \in Nat /\ data_pos \in Nat /\ data_pos <= Len(data)
      /\ Len(parseBuffer) \in Nat /\ Len(parseBuffer) <= capacity /\ capacity \in Nat
      /\ capacity = 0 \/ ParseBufferSize <= capacity
      /\ Position \in Nat /\ Position = Base + data_pos /\ Base \in Nat
  BY Numbers
<1>6. 1 <= Len(parseBuffer)
  BY <1>1 DEF Progress
<1>7. CASE Len(parseBuffer) < HeaderSize
  <2>1. PICK n : n = Copied(HeaderSize)
    OBVIOUS
  <2>2. /\ n \in 0 .. Len(data) - data_pos
        /\ Completes(HeaderSize) => Len(parseBuffer) + n = HeaderSize
        /\ ~Completes(HeaderSize) => Len(parseBuffer) + n < HeaderSize /\ Position + n = received
        /\ Len(parseBuffer) + n <= HeaderSize
        /\ parseBuffer \o SubSeq(data, data_pos + 1, data_pos + n)
               = Bytes(ParsedBytes + 1, Position + n)
        /\ Len(Bytes(ParsedBytes + 1, Position + n)) = Len(parseBuffer) + n
    <3>1. Len(parseBuffer) <= HeaderSize
      BY <1>5, <1>7
    <3> QED
      BY <1>3, <1>5, <2>1, <3>1, Copies, Zenon
  <2>3. /\ parseBuffer' = Bytes(ParsedBytes + 1, Position + n)
        /\ data_pos' = data_pos + n
    BY <1>7, <2>1, <2>2 DEF CompleteHeader, CopyTo
  <2>4. Len(parseBuffer') = Len(parseBuffer) + n
    BY <2>2, <2>3
  <2>5. Position' = Position + n
    BY <1>2, <1>4, <1>5, <2>2, <2>3 DEF Position
  <2>6. ParsedBytes + Len(parseBuffer') = Position'
    <3>1. n \in Nat
      BY <1>5, <2>2
    <3> QED
      BY <1>3, <1>5, <2>4, <2>5, <3>1
  <2>7. Types'
    <3>1. Len(parseBuffer') \in 0 .. capacity /\ data_pos' \in 0 .. Len(data)
      BY <1>1, <1>3, <1>4, <1>5, <1>6, <2>2, <2>3, <2>4 DEF Progress
    <3>2. pc' \in {"idle", "payload"}
      BY <1>1
    <3> QED
      BY <1>1, <1>2, <3>1, <3>2 DEF Types
  <2>8. InOrder'
    <3>1. parseBuffer' = Bytes(ParsedBytes' + 1, ParsedBytes' + Len(parseBuffer'))
      BY <1>2, <2>3, <2>5, <2>6
    <3> QED
      BY <1>1, <1>2, <3>1 DEF InOrder
  <2>9. CASE Completes(HeaderSize)
    <3>1. pc' = "payload"
      BY <1>1, <2>9
    <3>2. Position' <= FrameEnd /\ HeaderSize <= Len(parseBuffer')
      BY <1>4, <1>6, <2>2, <2>4, <2>6, <2>9
    <3>3. Progress' /\ NoFrameWaits' /\ ShutDownForCause'
      BY <1>1, <1>2, <1>3, <2>6, <3>1, <3>2 DEF Progress, NoFrameWaits, ShutDownForCause
    <3> QED
      BY <1>2, <2>7, <2>8, <3>3
  <2>10. CASE ~Completes(HeaderSize)
    <3>1. pc' = "idle"
      BY <1>1, <1>7, <2>10
    <3>2. ParsedBytes + Len(parseBuffer') = received
      BY <2>2, <2>5, <2>6, <2>10
    <3>3. received < FrameEnd
      BY <1>4, <1>5, <1>6, <2>2, <2>4, <2>10, <3>2
    <3>4. Progress' /\ ShutDownForCause'
      BY <1>1, <1>2, <3>1, <3>2 DEF Progress, ShutDownForCause
    <3>5. NoFrameWaits'
      BY <1>1, <1>2, <3>3 DEF NoFrameWaits, FrameEnd
    <3> QED
      BY <1>2, <2>7, <2>8, <3>4, <3>5
  <2> QED
    BY <2>9, <2>10
<1>8. CASE ~(Len(parseBuffer) < HeaderSize)
  <2>1. parseBuffer' = parseBuffer /\ data_pos' = data_pos /\ pc' = "payload"
    BY <1>1, <1>8 DEF CompleteHeader
  <2>2. Position' = Position
    BY <1>2, <2>1 DEF Position
  <2>3. Position <= FrameEnd /\ HeaderSize <= Len(parseBuffer)
    BY <1>3, <1>4, <1>5, <1>6, <1>8
  <2>4. Types'
    BY <1>1, <1>2, <2>1 DEF Types
  <2>5. InOrder'
    BY <1>1, <1>2, <2>1 DEF InOrder
  <2>6. Progress' /\ NoFrameWaits' /\ ShutDownForCause'
    BY <1>2, <1>3, <1>1, <2>1, <2>2, <2>3 DEF Progress, NoFrameWaits, ShutDownForCause
  <2> QED
    BY <1>2, <2>4, <2>5, <2>6
<1> QED
  BY <1>7, <1>8

LEMMA CompletePayloadKeeps == ASSUME ParserInv, CompletePayload PROVE ParserInv'
<1> USE DEF ParserInv
<1>1. PICK size : size = Size(HeaderAt(parseBuffer))
  OBVIOUS
<1>2. /\ pc = "payload" /\ frames' = frames /\ received' = received /\ data' = data
      /\ poolEmpty' = poolEmpty
  BY DEF CompletePayload
<1>3. /\ ParsedBytes + Len(parseBuffer) = Position /\ Len(parsed) < Len(frames)
      /\ Position <= FrameEnd /\ HeaderSize <= Len(parseBuffer)
  BY <1>2 DEF Progress
<1>4. /\ HeaderSize \in Nat /\ 1 <= HeaderSize /\ ParseBufferSize \in Nat
      /\ MaxFrameSize \in Nat /\ ParseBufferSize <= MaxFrameSize
      /\ Len(frames) \in Nat /\ Len(parsed) \in Nat /\ Total \in Nat
      /\ ParsedBytes \in Nat /\ received \in Nat
      /\ Len(data) \in Nat /\ data_pos \in Nat /\ data_pos <= Len(data)
      /\ Len(parseBuffer) \in Nat /\ Len(parseBuffer) <= capacity /\ capacity \in Nat
      /\ capacity = 0 \/ ParseBufferSize <= capacity
      /\ capacity <= MaxFrameSize
      /\ Position \in Nat /\ Position = Base + data_pos /\ Base \in Nat
  BY Numbers
<1>5. /\ size = Size(frames[Len(parsed) + 1]) /\ Len(parsed) + 1 \in 1 .. Len(frames)
      /\ size \in Nat /\ FrameEnd = ParsedBytes + size
      /\ FrameEnd \in Nat /\ Len(parseBuffer) <= size
  <2>1. parseBuffer = Bytes(ParsedBytes + 1, Position)
    BY <1>3 DEF InOrder
  <2>2. ParsedBytes + HeaderSize <= Position
    BY <1>3, <1>4
  <2>3. HeaderAt(parseBuffer) = frames[Len(parsed) + 1]
    BY <1>3, <1>4, <2>1, <2>2, SizeKnown, Zenon
  <2>4. /\ Size(frames[Len(parsed) + 1]) \in Nat
        /\ FrameEnd = ParsedBytes + Size(frames[Len(parsed) + 1])
    BY <1>3, NextFrame
  <2>5. size = Size(frames[Len(parsed) + 1])
    BY <1>1, <2>3
  <2> QED
    BY <1>3, <1>4, <2>4, <2>5, SMTT(30)
<1>6. CASE /\ capacity < size
           /\ size > MaxFrameSize \/ poolEmpty
           /\ pc' = IF size > MaxFrameSize THEN "ProtocolError" ELSE "InternalError"
           /\ UNCHANGED <<data_pos, parseBuffer, capacity, parsed>>
  <2>1. /\ Start' = Start /\ Total' = Total /\ ParsedBytes' = ParsedBytes
        /\ FrameEnd' = FrameEnd /\ FramesAsSent' /\ Base' = Base
    BY <1>2, <1>6, NothingParsed DEF Base
  <2>2. /\ pc' \in {"ProtocolError", "InternalError"}
        /\ pc' = "ProtocolError" => Size(frames[Len(parsed) + 1]) > MaxFrameSize
        /\ pc' = "InternalError" => poolEmpty
    BY <1>5, <1>6
  <2>3. Types' /\ InOrder'
    BY <1>2, <1>6, <2>1, <2>2 DEF Types, InOrder
  <2>4. Progress' /\ NoFrameWaits'
    BY <2>2 DEF Progress, NoFrameWaits
  <2>5. ShutDownForCause'
    BY <1>2, <1>5, <2>2 DEF ShutDownForCause
  <2> QED
    BY <2>1, <2>3, <2>4, <2>5
<1>7. CASE /\ size <= capacity \/ (size <= MaxFrameSize /\ ~poolEmpty)
           /\ capacity' = Grown(size)
           /\ \/ /\ Completes(size)
                 /\ parsed' = Append(parsed,
                        parseBuffer \o SubSeq(data, data_pos + 1, data_pos + Copied(size)))
                 /\ parseBuffer' = << >>
                 /\ data_pos' = data_pos + Copied(size)
                 /\ pc' = "zeroCopy"
              \/ /\ ~Completes(size)
                 /\ CopyTo(size)
                 /\ pc' = "idle"
                 /\ UNCHANGED parsed
  <2>1. /\ capacity' \in Nat /\ capacity' <= MaxFrameSize /\ size <= capacity'
        /\ ParseBufferSize <= capacity'
    <3>1. ParseBufferSize <= capacity
      BY <1>3, <1>4
    <3>2. capacity' = IF capacity < size THEN size ELSE capacity
      BY <1>7 DEF Grown
    <3>3. capacity < size => size <= MaxFrameSize
      BY <1>4, <1>5, <1>7
    <3> QED
      BY <1>4, <1>5, <3>1, <3>2, <3>3, SMTT(30)
  <2>2. PICK n : n = Copied(size)
    OBVIOUS
  <2>3. /\ n \in 0 .. Len(data) - data_pos
        /\ Completes(size) => Len(parseBuffer) + n = size
        /\ ~Completes(size) => Len(parseBuffer) + n < size /\ Position + n = received
        /\ Len(parseBuffer) + n <= size
        /\ parseBuffer \o SubSeq(data, data_pos + 1, data_pos + n)
               = Bytes(ParsedBytes + 1, Position + n)
        /\ Len(Bytes(ParsedBytes + 1, Position + n)) = Len(parseBuffer) + n
    BY <1>3, <1>5, <2>2, Copies, Zenon
  <2>4. n \in Nat /\ data_pos' = data_pos + n /\ data_pos + n <= Len(data)
    BY <1>4, <1>7, <2>2, <2>3 DEF CopyTo
  <2>5. Position' = Position + n
    BY <1>2, <1>4, <2>4 DEF Position, Base
  <2>6. CASE Completes(size)
    <3>1. Position + n = FrameEnd
      <4>1. Len(parseBuffer) + n = size
        BY <2>3, <2>6
      <4>2. FrameEnd = ParsedBytes + size /\ ParsedBytes + Len(parseBuffer) = Position
        BY <1>3, <1>5
      <4>3. ParsedBytes \in Nat /\ Len(parseBuffer) \in Nat /\ n \in Nat
        BY <1>4, <2>4
      <4> QED
        BY <4>1, <4>2, <4>3
    <3>2. parsed' = Append(parsed, Bytes(ParsedBytes + 1, FrameEnd))
      BY <1>7, <2>2, <2>3, <2>6, <3>1
    <3>3. parseBuffer' = << >> /\ pc' = "zeroCopy"
      BY <1>7, <2>6
    <3>4. /\ Start' = Start /\ Total' = Total /\ ParsedBytes' = FrameEnd
          /\ FramesAsSent' /\ parsed' \in Seq(Seq(Nat))
      BY <1>2, <1>3, <3>2, OneParsed
    <3>5. Types'
      <4>1. Len(parseBuffer') \in 0 .. capacity' /\ data_pos' \in 0 .. Len(data)
            /\ capacity' \in 0 .. MaxFrameSize
        BY <1>4, <2>1, <2>4, <3>3
      <4> QED
        BY <1>2, <3>3, <3>4, <4>1 DEF Types
    <3>6. InOrder'
      <4>1. parseBuffer' = Bytes(ParsedBytes' + 1, ParsedBytes' + Len(parseBuffer'))
        <5>1. Bytes(FrameEnd + 1, FrameEnd) = << >>
          BY <1>5, BytesOfNone
        <5>2. FrameEnd + Len(parseBuffer') = FrameEnd
          BY <1>5, <3>3
        <5> QED
          BY <3>3, <3>4, <5>1, <5>2
      <4> QED
        BY <1>2, <2>1, <4>1 DEF InOrder, Base
    <3>7. Progress' /\ NoFrameWaits' /\ ShutDownForCause'
      BY <2>5, <3>1, <3>3, <3>4 DEF Progress, NoFrameWaits, ShutDownForCause
    <3> QED
      BY <3>4, <3>5, <3>6, <3>7
  <2>7. CASE ~Completes(size)
    <3>1. /\ parseBuffer' = Bytes(ParsedBytes + 1, Position + n)
          /\ pc' = "idle" /\ parsed' = parsed
      BY <1>7, <2>2, <2>3, <2>7 DEF CopyTo
    <3>2. /\ Start' = Start /\ Total' = Total /\ ParsedBytes' = ParsedBytes
          /\ FrameEnd' = FrameEnd /\ FramesAsSent' /\ Base' = Base
      BY <1>2, <3>1, NothingParsed DEF Base
    <3>3. Len(parseBuffer') = Len(parseBuffer) + n /\ Len(parseBuffer') \in Nat
      BY <1>4, <2>3, <2>4, <3>1
    <3>4. ParsedBytes + Len(parseBuffer') = Position + n
      BY <1>3, <1>4, <2>4, <3>3
    <3>5. Types'
      <4>1. Len(parseBuffer') \in 0 .. capacity' /\ data_pos' \in 0 .. Len(data)
            /\ capacity' \in 0 .. MaxFrameSize
        BY <1>4, <1>5, <2>1, <2>3, <2>4, <3>3, SMTT(30)
      <4> QED
        BY <1>2, <3>1, <3>2, <4>1 DEF Types
    <3>6. InOrder'
      BY <1>2, <2>1, <3>1, <3>2, <3>4 DEF InOrder
    <3>7. received < FrameEnd
      <4>1. Len(parseBuffer) + n < size /\ Position + n = received
        BY <2>3, <2>7
      <4> QED
        BY <1>3, <1>4, <1>5, <2>4, <4>1, SMTT(30)
    <3>8. Progress' /\ ShutDownForCause'
      BY <1>2, <2>3, <2>7, <3>1, <3>2, <3>4 DEF Progress, ShutDownForCause
    <3>9. NoFrameWaits'
      BY <1>2, <3>2, <3>1, <3>7 DEF NoFrameWaits, FrameEnd
    <3> QED
      BY <3>2, <3>5, <3>6, <3>8, <3>9
  <2> QED
    BY <2>6, <2>7
<1> QED
  BY <1>1, <1>6, <1>7 DEF CompletePayload

LEMMA ZeroCopyKeeps == ASSUME ParserInv, ZeroCopy PROVE ParserInv'
<1> USE DEF ParserInv
<1>1. /\ pc = "zeroCopy" /\ frames' = frames /\ received' = received /\ data' = data
      /\ parseBuffer' = parseBuffer /\ capacity' = capacity /\ poolEmpty' = poolEmpty
  BY DEF ZeroCopy
<1>2. parseBuffer = << >> /\ ParsedBytes = Position /\ Len(parseBuffer) = 0
  BY <1>1 DEF Progress
<1>3. /\ HeaderSize \in Nat /\ 1 <= HeaderSize /\ Total \in Nat
      /\ Len(frames) \in Nat /\ Len(parsed) \in Nat /\ Len(parsed) <= Len(frames)
      /\ ParsedBytes \in Nat /\ received \in Nat /\ received <= Total
      /\ Len(data) \in Nat /\ data_pos \in Nat /\ data_pos <= Len(data)
      /\ Position \in Nat /\ Position = Base + data_pos /\ Base \in Nat
      /\ Base = received - Len(data)
  BY Numbers
<1>4. Len(parsed) = Len(frames) => data_pos = Len(data)
  <2>1. Len(parsed) = Len(frames) => ParsedBytes = Total
    BY NextFrame
  <2> QED
    BY <1>2, <1>3, <2>1
<1>5. ASSUME Len(parsed) < Len(frames)
      PROVE  LET size == Size(frames[Len(parsed) + 1])
             IN  /\ size \in Nat /\ HeaderSize <= size /\ FrameEnd = ParsedBytes + size
                 /\ HasHeader => NextSize = size
  <2> DEFINE size == Size(frames[Len(parsed) + 1])
  <2>1. size \in Nat /\ HeaderSize <= size /\ FrameEnd = ParsedBytes + size
    BY <1>5, NextFrame
  <2>2. ASSUME HasHeader PROVE NextSize = size
    <3>1. HeaderSize \in 0 .. Len(data) - data_pos
      BY <1>3, <2>2 DEF HasHeader
    <3>2. SubSeq(data, data_pos + 1, data_pos + HeaderSize)
              = Bytes(ParsedBytes + 1, ParsedBytes + HeaderSize)
      <4>1. ParsedBytes + Len(parseBuffer) = Position
        BY <1>2, <1>3
      <4> QED
        BY <1>2, <3>1, <4>1, Continues
    <3>3. ParsedBytes + HeaderSize \in Nat /\ ParsedBytes + HeaderSize <= ParsedBytes + HeaderSize
      BY <1>3
    <3>4. HeaderAt(Bytes(ParsedBytes + 1, ParsedBytes + HeaderSize)) = frames[Len(parsed) + 1]
      BY <1>5, <3>3, SizeKnown
    <3> QED
      BY <3>2, <3>4 DEF NextSize
  <2> QED
    BY <2>1, <2>2
<1>6. CASE WholeFrame
  <2>1. HasHeader /\ data_pos + HeaderSize <= Len(data)
    BY <1>6 DEF WholeFrame, HasHeader
  <2>2. Len(parsed) < Len(frames)
    BY <1>3, <1>4, <2>1
  <2>3. PICK size : /\ size \in Nat /\ NextSize = size /\ FrameEnd = ParsedBytes + size
                    /\ size = Size(frames[Len(parsed) + 1])
    BY <1>5, <2>1, <2>2
  <2>4. /\ size \in 0 .. Len(data) - data_pos
        /\ data_pos + size \in Nat /\ data_pos + size <= Len(data)
    <3>1. data_pos + size <= Len(data)
      BY <1>6, <2>3 DEF WholeFrame
    <3> QED
      BY <1>3, <2>3, <3>1, SMTT(30)
  <2>5. /\ parsed' = Append(parsed, SubSeq(data, data_pos + 1, data_pos + size))
        /\ data_pos' = data_pos + size /\ pc' = pc
    BY <1>6, <2>3 DEF ZeroCopy
  <2>6. SubSeq(data, data_pos + 1, data_pos + size) = Bytes(ParsedBytes + 1, FrameEnd)
    <3>1. ParsedBytes + Len(parseBuffer) = Position
      BY <1>2, <1>3
    <3> QED
      BY <1>2, <2>3, <2>4, <3>1, Continues
  <2>7. /\ Start' = Start /\ Total' = Total /\ ParsedBytes' = FrameEnd
        /\ FramesAsSent' /\ parsed' \in Seq(Seq(Nat))
    BY <1>1, <2>2, <2>5, <2>6, OneParsed
  <2>8. Position' = FrameEnd
    BY <1>1, <1>2, <1>3, <2>3, <2>5, SMTT(30) DEF Position, Base
  <2>9. Types'
    <3>1. data_pos' \in 0 .. Len(data)
      BY <1>3, <2>4, <2>5
    <3> QED
      BY <1>1, <2>5, <2>7, <3>1 DEF Types
  <2>10. InOrder'
    <3>1. parseBuffer' = Bytes(ParsedBytes' + 1, ParsedBytes' + Len(parseBuffer'))
      <4>1. FrameEnd \in Nat /\ FrameEnd + 0 = FrameEnd
        BY <1>3, <2>3, SMTT(30)
      <4>2. Bytes(FrameEnd + 1, FrameEnd) = << >>
        BY <4>1, BytesOfNone
      <4> QED
        BY <1>1, <1>2, <2>7, <4>1, <4>2
    <3> QED
      BY <1>1, <3>1 DEF InOrder, Base
  <2>11. Progress' /\ NoFrameWaits' /\ ShutDownForCause'
    BY <1>1, <1>2, <2>5, <2>7, <2>8 DEF Progress, NoFrameWaits, ShutDownForCause
  <2> QED
    BY <2>7, <2>9, <2>10, <2>11
<1>7. CASE ~WholeFrame
  <2>1. pc' = "store" /\ parsed' = parsed /\ data_pos' = data_pos
    BY <1>7 DEF ZeroCopy
  <2>2. /\ Start' = Start /\ Total' = Total /\ ParsedBytes' = ParsedBytes
        /\ FrameEnd' = FrameEnd /\ FramesAsSent' /\ Base' = Base /\ Position' = Position
    BY <1>1, <2>1, NothingParsed DEF Base, Position
  <2>3. Types' /\ InOrder'
    BY <1>1, <2>1, <2>2 DEF Types, InOrder
  <2>4. Len(parsed) = Len(frames) \/ received < FrameEnd
    <3> SUFFICES ASSUME Len(parsed) < Len(frames) PROVE received < FrameEnd
      BY <1>3
    <3>1. PICK size : /\ size \in Nat /\ HeaderSize <= size /\ FrameEnd = ParsedBytes + size
                      /\ HasHeader => NextSize = size
      BY <1>5
    <3>2. Len(data) < data_pos + size
      BY <1>3, <1>7, <3>1 DEF WholeFrame, HasHeader
    <3> QED
      BY <1>2, <1>3, <3>1, <3>2
  <2>5. Progress' /\ NoFrameWaits' /\ ShutDownForCause'
    BY <1>1, <1>2, <2>1, <2>2, <2>4 DEF Progress, NoFrameWaits, ShutDownForCause
  <2> QED
    BY <2>2, <2>3, <2>5
<1> QED
  BY <1>6, <1>7

LEMMA StoreKeeps == ASSUME ParserInv, Store PROVE ParserInv'
<1> USE DEF ParserInv
<1>1. /\ pc = "store" /\ frames' = frames /\ received' = received /\ data' = data
      /\ data_pos' = data_pos /\ parsed' = parsed /\ poolEmpty' = poolEmpty
  BY DEF Store
<1>2. /\ parseBuffer = << >> /\ ParsedBytes = Position /\ Len(parseBuffer) = 0
      /\ Len(parsed) = Len(frames) \/ received < FrameEnd
  BY <1>1 DEF Progress
<1>3. /\ ParseBufferSize \in Nat /\ MaxFrameSize \in Nat /\ ParseBufferSize <= MaxFrameSize
      /\ MaxChunk <= ParseBufferSize /\ MaxChunk \in Nat
      /\ ParsedBytes \in Nat /\ received \in Nat
      /\ Len(data) \in Nat /\ data_pos \in Nat /\ data_pos <= Len(data)
      /\ capacity \in Nat /\ capacity <= MaxFrameSize
      /\ capacity = 0 \/ ParseBufferSize <= capacity
      /\ Position \in Nat /\ Position = Base + data_pos /\ Base \in Nat
      /\ Base = received - Len(data) /\ Position <= received
  BY Numbers
<1>4. /\ Start' = Start /\ Total' = Total /\ ParsedBytes' = ParsedBytes
      /\ FrameEnd' = FrameEnd /\ FramesAsSent' /\ Base' = Base /\ Position' = Position
  BY <1>1, NothingParsed DEF Base, Position
<1>5. /\ Remaining = Bytes(ParsedBytes + 1, received)
      /\ Len(Remaining) = received - ParsedBytes /\ Len(Remaining) \in Nat
      /\ Len(Remaining) <= MaxChunk
  <2>1. PICK n : n = Len(data) - data_pos
    OBVIOUS
  <2>2. n \in 0 .. Len(data) - data_pos /\ data_pos + n = Len(data) /\ Position + n = received
    BY <1>3, <2>1
  <2>3. ParsedBytes + Len(parseBuffer) = Position
    BY <1>2, <1>3
  <2>4. SubSeq(data, data_pos + 1, data_pos + n) = Bytes(Position + 1, Position + n)
    BY <2>2, <2>3, Continues
  <2>5. Remaining = Bytes(ParsedBytes + 1, received)
    BY <1>2, <2>2, <2>4 DEF Remaining
  <2>6. Len(Bytes(ParsedBytes + 1, received)) = received - ParsedBytes
    <3>1. ParsedBytes \in Nat /\ received \in Nat /\ ParsedBytes <= received
      BY <1>2, <1>3
    <3> QED
      BY <3>1, BytesAre, Zenon
  <2>7. Len(data) <= MaxChunk
    BY DEF InOrder
  <2> QED
    BY <1>2, <1>3, <2>5, <2>6, <2>7
<1>6. Room \in Nat /\ ParseBufferSize <= Room /\ Room <= MaxFrameSize
  BY <1>3 DEF Room
<1>7. Len(Remaining) <= Room
  BY <1>3, <1>5, <1>6
<1>8. CASE Remaining = << >> /\ pc' = "idle" /\ UNCHANGED <<parseBuffer, capacity>>
  <2>1. ParsedBytes = received
    BY <1>3, <1>5, <1>8
  <2>2. Types' /\ InOrder'
    BY <1>1, <1>4, <1>8 DEF Types, InOrder
  <2>3. ParsedBytes + Len(parseBuffer) = received
    BY <1>2, <1>3, <2>1
  <2>4. Progress' /\ NoFrameWaits' /\ ShutDownForCause'
    BY <1>1, <1>2, <1>4, <1>8, <2>3 DEF Progress, NoFrameWaits, ShutDownForCause, FrameEnd
  <2> QED
    BY <1>4, <2>2, <2>4
<1>9. CASE /\ Remaining # << >>
           /\ NoBuffer \/ Len(Remaining) > Room
           /\ pc' = "InternalError"
           /\ capacity' = IF NoBuffer THEN 0 ELSE Room
           /\ UNCHANGED parseBuffer
  <2>1. NoBuffer /\ poolEmpty /\ capacity = 0
    BY <1>5, <1>6, <1>7, <1>9 DEF NoBuffer
  <2>2. capacity' = capacity /\ parseBuffer' = parseBuffer /\ pc' = "InternalError"
    BY <1>9, <2>1
  <2>3. Types' /\ InOrder'
    BY <1>1, <1>4, <2>2 DEF Types, InOrder
  <2>4. Progress' /\ NoFrameWaits' /\ ShutDownForCause'
    BY <1>1, <2>1, <2>2 DEF Progress, NoFrameWaits, ShutDownForCause
  <2> QED
    BY <1>4, <2>3, <2>4
<1>10. CASE /\ Remaining # << >>
            /\ ~NoBuffer /\ Len(Remaining) <= Room
            /\ pc' = "idle"
            /\ capacity' = Room
            /\ parseBuffer' = Remaining
  <2>1. parseBuffer' = Bytes(ParsedBytes + 1, received) /\ Len(parseBuffer') = received - ParsedBytes
    BY <1>5, <1>10
  <2>2. ParsedBytes + Len(parseBuffer') = received
    BY <1>3, <2>1
  <2>3. Len(parseBuffer') \in 0 .. capacity' /\ capacity' \in 0 .. MaxFrameSize
        /\ ParseBufferSize <= capacity'
    BY <1>3, <1>5, <1>6, <1>7, <1>10
  <2>4. Types'
    BY <1>1, <1>4, <1>10, <2>3 DEF Types
  <2>5. InOrder'
    BY <1>1, <1>4, <2>1, <2>2, <2>3 DEF InOrder
  <2>6. Progress' /\ NoFrameWaits' /\ ShutDownForCause'
    BY <1>1, <1>2, <1>4, <1>10, <2>2 DEF Progress, NoFrameWaits, ShutDownForCause, FrameEnd
  <2> QED
    BY <1>4, <2>4, <2>5, <2>6
<1> QED
  BY <1>8, <1>9, <1>10 DEF Store

-----------------------------------------------------------------------------
LEMMA InitHolds == ASSUME Init PROVE ParserInv
<1>1. /\ received = 0 /\ data = << >> /\ data_pos = 0 /\ parseBuffer = << >>
      /\ capacity = 0 /\ parsed = << >> /\ pc = "idle" /\ poolEmpty = FALSE
  BY DEF Init
<1>2. frames \in Seq(FrameKinds) /\ Len(frames) \in Nat /\ 1 <= Len(frames) /\ Len(frames) <= MaxFrames
  <2>1. PICK n \in 1 .. MaxFrames : frames \in [1 .. n -> FrameKinds]
    BY DEF Init
  <2>2. n \in Nat /\ n <= MaxFrames
    BY ParserAssumption DEF ParserAssumption
  <2> QED
    BY <2>1, <2>2
<1>3. Len(data) = 0 /\ Len(parseBuffer) = 0 /\ Len(parsed) = 0 /\ parsed \in Seq(Seq(Nat))
  BY <1>1
<1>4. Total \in Nat /\ Start[1] = 1
  BY <1>2, StartGrows, StartNext
<1>5. MaxFrameSize \in Nat /\ MaxChunk \in Nat
  BY ParserAssumption DEF ParserAssumption
<1>6. Types
  <2>1. received \in 0 .. Total /\ Len(data) \in 0 .. received /\ data_pos \in 0 .. Len(data)
    <3>1. received = 0 /\ data_pos = 0
      BY <1>1
    <3> QED
      BY <1>3, <1>4, <3>1
  <2>2. Len(parseBuffer) \in 0 .. capacity /\ capacity \in 0 .. MaxFrameSize
    <3>1. capacity = 0
      BY <1>1
    <3> QED
      BY <1>3, <1>5, <3>1
  <2>3. pc = "idle" /\ poolEmpty = FALSE
    BY <1>1
  <2> QED
    BY <1>2, <1>3, <2>1, <2>2, <2>3 DEF Types
<1>7. FramesAsSent
  BY <1>2, <1>3 DEF FramesAsSent
<1>8. ParsedBytes = 0
  BY <1>3, <1>4 DEF ParsedBytes
<1>9. InOrder
  <2>1. Bytes(0 + 1, 0) = << >>
    BY BytesOfNone
  <2>2. Base = 0
    <3>1. received = 0
      BY <1>1
    <3> QED
      BY <1>3, <3>1 DEF Base
  <2> QED
    BY <1>1, <1>3, <1>5, <1>8, <2>1, <2>2 DEF InOrder
<1>10. Progress
  BY <1>1, <1>3, <1>8 DEF Progress
<1>11. NoFrameWaits
  <2>1. Len(parsed) < Len(frames)
    BY <1>2, <1>3
  <2>2. /\ FrameEnd = ParsedBytes + Size(frames[Len(parsed) + 1])
        /\ HeaderSize <= Size(frames[Len(parsed) + 1])
        /\ Size(frames[Len(parsed) + 1]) \in Nat
    BY <1>6, <1>7, <2>1, NextFrame
  <2>3. HeaderSize \in Nat /\ 1 <= HeaderSize
    BY ParserAssumption DEF ParserAssumption
  <2>4. received < FrameEnd
    BY <1>1, <1>8, <2>2, <2>3
  <2> QED
    BY <2>4 DEF NoFrameWaits, FrameEnd
<1>12. ShutDownForCause
  BY <1>1 DEF ShutDownForCause
<1> QED
  BY <1>6, <1>7, <1>9, <1>10, <1>11, <1>12 DEF ParserInv

LEMMA StepHolds == ASSUME ParserInv, [Next]_vars PROVE ParserInv'
<1>1. CASE UNCHANGED vars
  <2>1. /\ Start' = Start /\ Total' = Total
    BY <1>1, FramesStay DEF vars
  <2>2. ParsedBytes' = ParsedBytes /\ FrameEnd' = FrameEnd /\ Base' = Base /\ Position' = Position
        /\ FramesAsSent'
    BY <1>1, NothingParsed DEF vars, Base, Position, ParserInv
  <2> QED
    BY <1>1, <2>1, <2>2 DEF vars, ParserInv, Types, InOrder, Progress, NoFrameWaits, ShutDownForCause
<1> QED
  BY <1>1, OnReceiveDataKeeps, CompleteHeaderKeeps, CompletePayloadKeeps, ZeroCopyKeeps,
     StoreKeeps DEF Next

(* The invariant the other theorems are read off.                          *)
THEOREM ParserInvariant == Spec => []ParserInv
  BY InitHolds, StepHolds, PTL DEF Spec

(* However recv cuts the stream, processFrame gets the frames the peer     *)
(* sent, one after the other and each with its own bytes.                  *)
THEOREM FramesArriveAsSent == Spec => []FramesAsSent
<1>1. ParserInv => FramesAsSent
  BY DEF ParserInv
<1> QED
  BY <1>1, ParserInvariant, PTL

(* Between two calls of onReceiveData m_parseBuffer holds exactly the      *)
(* bytes that belong to no frame handled so far.                           *)
THEOREM NoByteLost == Spec => []RestIsKept
<1>1. ParserInv => RestIsKept
  BY DEF ParserInv, InOrder, Progress, RestIsKept
<1> QED
  BY <1>1, ParserInvariant, PTL

(* A frame whose last byte has arrived does not wait for the next recv.    *)
THEOREM WholeFramesAreHandled == Spec => []NoFrameWaits
<1>1. ParserInv => NoFrameWaits
  BY DEF ParserInv
<1> QED
  BY <1>1, ParserInvariant, PTL

(* The parser shuts the session down only for a frame above                *)
(* MAX_ALLOWED_FRAME_SIZE or for a pool without memory: what is left of a  *)
(* recv always fits the parse buffer.                                      *)
THEOREM ErrorsHaveACause == Spec => []ShutDownForCause
<1>1. ParserInv => ShutDownForCause
  BY DEF ParserInv
<1> QED
  BY <1>1, ParserInvariant, PTL
=============================================================================
