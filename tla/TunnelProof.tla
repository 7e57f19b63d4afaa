----------------------------- MODULE TunnelProof ------------------------------
(***************************************************************************)
(* Theorems about Tunnel, for all constants that its assumptions allow:    *)
(* any streams, any window and threshold, callbacks that nest to any       *)
(* depth, and a connection that may break at any time.                     *)
(***************************************************************************)
EXTENDS Tunnel, WellFoundedInduction, SequenceTheorems, TLAPS

-----------------------------------------------------------------------------
(* Induction.  The library states it for a predicate that is a parameter;  *)
(* here a set takes its place, the set of the values the claim holds for.  *)
NatLess == OpToRel(<, Nat)

(* From a to b, one by one.                                                *)
LEMMA Climb ==
    ASSUME NEW a \in Nat, NEW b \in Nat, NEW G, a \in G,
           \A k \in a .. b - 1 : k \in G => k + 1 \in G
    PROVE  a .. b \subseteq G
<1> DEFINE Missing == (a .. b) \ G
<1> SUFFICES ASSUME Missing # {} PROVE FALSE
  OBVIOUS
<1>1. Missing \subseteq Nat
  OBVIOUS
<1>2. PICK m \in Missing : \A k \in Missing : ~(<<k, m>> \in NatLess)
  BY <1>1, NatLessThanWellFounded, WFMin DEF NatLess
<1> HIDE DEF Missing
<1>3. \A k \in Missing : ~(k < m)
  BY <1>1, <1>2 DEF NatLess, OpToRel
<1>4. m \in a .. b /\ m \notin G /\ m # a
  BY <1>2 DEF Missing
<1>5. m - 1 \in a .. b - 1 /\ m - 1 < m
  BY <1>4
<1>6. m - 1 \in G
  BY <1>3, <1>5 DEF Missing
<1> QED
  BY <1>4, <1>5, <1>6

(* Over the length of a sequence, one more element at a time.              *)
LEMMA ClimbSeq ==
    ASSUME NEW S, NEW G, << >> \in G,
           \A s \in Seq(S), e \in S : s \in G => Append(s, e) \in G
    PROVE  Seq(S) \subseteq G
<1> SUFFICES ASSUME NEW s \in Seq(S) PROVE s \in G
  OBVIOUS
<1> DEFINE Upto(n) == [i \in 1 .. n |-> s[i]]
           H == {n \in 0 .. Len(s) : Upto(n) \in G}
<1>1. Len(s) \in Nat /\ s \in [1 .. Len(s) -> S]
  OBVIOUS
<1>2. 0 \in H
  <2>1. Upto(0) = << >>
    OBVIOUS
  <2> QED
    BY <1>1, <2>1
<1>3. ASSUME NEW k \in 0 .. Len(s) - 1, k \in H PROVE k + 1 \in H
  <2>1. k \in Nat /\ k + 1 \in 1 .. Len(s) /\ \A i \in 1 .. k + 1 : i \in 1 .. Len(s)
    BY <1>1
  <2>2. Upto(k) \in Seq(S) /\ s[k + 1] \in S /\ Len(Upto(k)) = k
    BY <1>1, <2>1
  <2>3. Upto(k + 1) = Append(Upto(k), s[k + 1])
    BY <1>1, <2>1
  <2>4. Upto(k) \in G
    BY <1>3
  <2> HIDE DEF Upto
  <2>5. Append(Upto(k), s[k + 1]) \in G
    BY <2>2, <2>4
  <2>6. Upto(k + 1) \in G
    BY <2>3, <2>5, Zenon
  <2>7. k + 1 \in 0 .. Len(s)
    BY <1>1, <2>1
  <2> QED
    BY <2>6, <2>7, Zenon
<1>4. 0 .. Len(s) \subseteq H
  <2> HIDE DEF H
  <2>1. 0 \in Nat /\ \A k \in 0 .. Len(s) - 1 : k \in H => k + 1 \in H
    BY <1>3
  <2> QED
    BY <1>1, <1>2, <2>1, Climb, Zenon
<1>5. Len(s) \in 0 .. Len(s) /\ Upto(Len(s)) = s
  BY <1>1
<1> QED
  BY <1>4, <1>5

-----------------------------------------------------------------------------
(* Buffers and frames: what has a length.                                  *)
Pieces == Frames \cup Ranges

-----------------------------------------------------------------------------
(* Lengths of queues.                                                      *)
LEMMA PieceLength ==
    ASSUME NEW q \in Seq(Pieces), NEW i \in 1 .. Len(q)
    PROVE  q[i] \in Pieces /\ q[i].length \in Nat
<1>1. q[i] \in Pieces
  OBVIOUS
<1>2. \A f \in Frames : f.length \in Nat
  BY DEF Frames
<1>3. \A r \in Ranges : r.length \in Nat
  BY DEF Ranges
<1> QED
  BY <1>1, <1>2, <1>3 DEF Pieces

LEMMA SumsUnfold ==
    ASSUME NEW q, Len(q) \in Nat
    PROVE  Sums(q) = [i \in 0 .. Len(q) |-> IF i = 0 THEN 0 ELSE Sums(q)[i - 1] + q[i].length]
<1> DEFINE Next1(f, i) == IF i = 0 THEN 0 ELSE f[i - 1] + q[i].length
           G == {m \in 0 .. Len(q) : \E f : f = [i \in 0 .. m |-> Next1(f, i)]}
<1>1. 0 \in G
  <2> DEFINE f == [i \in 0 .. 0 |-> 0]
  <2>1. f = [i \in 0 .. 0 |-> Next1(f, i)]
    OBVIOUS
  <2> HIDE DEF f
  <2> QED
    BY <2>1
<1>2. ASSUME NEW m \in 0 .. Len(q) - 1, m \in G PROVE m + 1 \in G
  <2>1. PICK f : f = [i \in 0 .. m |-> Next1(f, i)]
    BY <1>2
  <2> DEFINE g == [i \in 0 .. m + 1 |-> IF i = m + 1 THEN Next1(f, i) ELSE f[i]]
  <2>2. \A i \in 0 .. m + 1 : i # 0 => i - 1 \in 0 .. m /\ g[i - 1] = f[i - 1]
    OBVIOUS
  <2>3. \A i \in 0 .. m + 1 : Next1(g, i) = Next1(f, i)
    BY <2>2
  <2>4. \A i \in 0 .. m : f[i] = Next1(f, i)
    BY <2>1
  <2>5. \A i \in 0 .. m + 1 : g[i] = Next1(f, i)
    <3> HIDE DEF Next1
    <3> QED
      BY <2>4
  <2>6. g = [i \in 0 .. m + 1 |-> Next1(g, i)]
    BY <2>3, <2>5
  <2> HIDE DEF g
  <2> QED
    BY <2>6
<1>3. Len(q) \in G
  <2> HIDE DEF G
  <2>1. 0 \in Nat
    OBVIOUS
  <2>2. 0 .. Len(q) \subseteq G
    BY <1>1, <1>2, <2>1, Climb, Zenon
  <2> QED
    BY <2>2
<1> DEFINE s == CHOOSE f : f = [i \in 0 .. Len(q) |-> Next1(f, i)]
<1>4. s = [i \in 0 .. Len(q) |-> Next1(s, i)]
  BY <1>3
<1>5. Sums(q) = s
  BY DEF Sums
<1> QED
  BY <1>4, <1>5

LEMMA SumsAre ==
    ASSUME NEW q \in Seq(Pieces)
    PROVE  /\ Sums(q)[0] = 0
           /\ \A i \in 1 .. Len(q) : Sums(q)[i] = Sums(q)[i - 1] + q[i].length
           /\ \A i \in 0 .. Len(q) : Sums(q)[i] \in Nat
           /\ LengthOf(q) = Sums(q)[Len(q)] /\ LengthOf(q) \in Nat
<1>1. Len(q) \in Nat
  OBVIOUS
<1>2. \A i \in 0 .. Len(q) :
          Sums(q)[i] = IF i = 0 THEN 0 ELSE Sums(q)[i - 1] + q[i].length
  BY <1>1, SumsUnfold, Zenon
<1>3. /\ 0 \in 0 .. Len(q) /\ Len(q) \in 0 .. Len(q)
      /\ \A i \in 1 .. Len(q) : i \in 0 .. Len(q) /\ i # 0
  BY <1>1
<1>4. /\ Sums(q)[0] = 0
      /\ \A i \in 1 .. Len(q) : Sums(q)[i] = Sums(q)[i - 1] + q[i].length
  BY <1>2, <1>3, Zenon
<1> DEFINE G == {i \in 0 .. Len(q) : Sums(q)[i] \in Nat}
<1>5. 0 \in G /\ 0 \in Nat
  BY <1>3, <1>4
<1>6. ASSUME NEW k \in 0 .. Len(q) - 1, k \in G PROVE k + 1 \in G
  <2>1. k + 1 \in 1 .. Len(q) /\ (k + 1) - 1 = k /\ k + 1 \in 0 .. Len(q)
    BY <1>1
  <2>2. Sums(q)[k + 1] = Sums(q)[k] + q[k + 1].length
    BY <1>4, <2>1
  <2>3. q[k + 1].length \in Nat /\ Sums(q)[k] \in Nat
    BY <1>6, <2>1, PieceLength
  <2> QED
    BY <2>1, <2>2, <2>3
<1>7. 0 .. Len(q) \subseteq G
  <2> HIDE DEF G
  <2> QED
    BY <1>1, <1>5, <1>6, Climb, Zenon
<1>8. LengthOf(q) = Sums(q)[Len(q)]
  BY DEF LengthOf
<1> QED
  BY <1>3, <1>4, <1>7, <1>8

(* Sums over equal beginnings are equal.                                   *)
LEMMA SumsAlike ==
    ASSUME NEW q \in Seq(Pieces), NEW t \in Seq(Pieces), NEW n \in Nat,
           n <= Len(q), n <= Len(t), \A i \in 1 .. n : q[i].length = t[i].length
    PROVE  \A i \in 0 .. n : Sums(q)[i] = Sums(t)[i]
<1> DEFINE G == {i \in 0 .. n : Sums(q)[i] = Sums(t)[i]}
<1>1. 0 \in G /\ 0 \in Nat
  BY SumsAre
<1>2. ASSUME NEW k \in 0 .. n - 1, k \in G PROVE k + 1 \in G
  <2>1. /\ k + 1 \in 1 .. n /\ k + 1 \in 0 .. n /\ (k + 1) - 1 = k
        /\ k + 1 \in 1 .. Len(q) /\ k + 1 \in 1 .. Len(t)
    OBVIOUS
  <2>2. /\ Sums(q)[k + 1] = Sums(q)[k] + q[k + 1].length
        /\ Sums(t)[k + 1] = Sums(t)[k] + t[k + 1].length
    BY <2>1, SumsAre
  <2>3. Sums(q)[k] = Sums(t)[k] /\ q[k + 1].length = t[k + 1].length
    BY <1>2, <2>1
  <2> QED
    BY <2>1, <2>2, <2>3
<1>3. 0 .. n \subseteq G
  <2> HIDE DEF G
  <2> QED
    BY <1>1, <1>2, Climb, Zenon
<1> QED
  BY <1>3

LEMMA SumsGrow ==
    ASSUME NEW q \in Seq(Pieces), NEW j \in 0 .. Len(q), NEW k \in 0 .. Len(q), j <= k
    PROVE  Sums(q)[j] <= Sums(q)[k]
<1> DEFINE G == {i \in j .. k : Sums(q)[j] <= Sums(q)[i]}
<1>1. j \in G /\ j \in Nat /\ k \in Nat
  BY SumsAre
<1>2. ASSUME NEW i \in j .. k - 1, i \in G PROVE i + 1 \in G
  <2>1. i + 1 \in 1 .. Len(q) /\ i + 1 \in j .. k /\ (i + 1) - 1 = i /\ i \in 0 .. Len(q)
    OBVIOUS
  <2>2. Sums(q)[i + 1] = Sums(q)[i] + q[i + 1].length
    BY <2>1, SumsAre
  <2>3. Sums(q)[i] \in Nat /\ Sums(q)[j] \in Nat /\ q[i + 1].length \in Nat
    BY <2>1, SumsAre, PieceLength
  <2> QED
    BY <1>2, <2>1, <2>2, <2>3
<1>3. j .. k \subseteq G
  <2> HIDE DEF G
  <2> QED
    BY <1>1, <1>2, Climb, Zenon
<1> QED
  BY <1>3

LEMMA SumsJoin ==
    ASSUME NEW s \in Seq(Pieces), NEW t \in Seq(Pieces)
    PROVE  /\ s \o t \in Seq(Pieces) /\ Len(s \o t) = Len(s) + Len(t)
           /\ \A i \in 0 .. Len(s) : Sums(s \o t)[i] = Sums(s)[i]
           /\ \A i \in 0 .. Len(t) : Sums(s \o t)[Len(s) + i] = LengthOf(s) + Sums(t)[i]
           /\ LengthOf(s \o t) = LengthOf(s) + LengthOf(t)
<1>1. s \o t \in Seq(Pieces) /\ Len(s \o t) = Len(s) + Len(t)
  BY ConcatProperties, Zenon
<1>2. Len(s) \in Nat /\ Len(t) \in Nat
  OBVIOUS
<1>3. /\ \A i \in 1 .. Len(s) : (s \o t)[i] = s[i]
      /\ \A i \in 1 .. Len(t) : (s \o t)[Len(s) + i] = t[i]
  <2>1. \A i \in 1 .. Len(t) : Len(s) + i \in 1 .. Len(s) + Len(t)
                               /\ ~(Len(s) + i <= Len(s)) /\ (Len(s) + i) - Len(s) = i
    BY <1>2
  <2> QED
    BY <2>1
<1>4. \A i \in 0 .. Len(s) : Sums(s \o t)[i] = Sums(s)[i]
  <2>1. Len(s) <= Len(s \o t) /\ Len(s) <= Len(s)
    BY <1>1, <1>2
  <2>2. \A i \in 1 .. Len(s) : (s \o t)[i].length = s[i].length
    BY <1>3
  <2> QED
    BY <1>1, <1>2, <2>1, <2>2, SumsAlike
<1> DEFINE G == {i \in 0 .. Len(t) : Sums(s \o t)[Len(s) + i] = LengthOf(s) + Sums(t)[i]}
<1>5. 0 \in G /\ 0 \in Nat
  <2>1. Len(s) + 0 = Len(s) /\ Len(s) \in 0 .. Len(s)
    BY <1>2
  <2>2. Sums(t)[0] = 0 /\ LengthOf(s) \in Nat /\ LengthOf(s) = Sums(s)[Len(s)]
    BY SumsAre
  <2>3. LengthOf(s) + Sums(t)[0] = LengthOf(s)
    BY <2>2
  <2> QED
    BY <1>2, <1>4, <2>1, <2>2, <2>3
<1>6. ASSUME NEW k \in 0 .. Len(t) - 1, k \in G PROVE k + 1 \in G
  <2>1. /\ k + 1 \in 1 .. Len(t) /\ k + 1 \in 0 .. Len(t) /\ (k + 1) - 1 = k /\ k \in 0 .. Len(t)
        /\ Len(s) + (k + 1) \in 1 .. Len(s \o t) /\ (Len(s) + (k + 1)) - 1 = Len(s) + k
    BY <1>1, <1>2
  <2>2. Sums(s \o t)[Len(s) + (k + 1)] = Sums(s \o t)[Len(s) + k] + (s \o t)[Len(s) + (k + 1)].length
    <3>1. \A i \in 1 .. Len(s \o t) : Sums(s \o t)[i] = Sums(s \o t)[i - 1] + (s \o t)[i].length
      BY <1>1, SumsAre
    <3> QED
      BY <2>1, <3>1
  <2>3. (s \o t)[Len(s) + (k + 1)] = t[k + 1]
    BY <1>3, <2>1
  <2>4. Sums(t)[k + 1] = Sums(t)[k] + t[k + 1].length
    BY <2>1, SumsAre
  <2>5. /\ Sums(t)[k] \in Nat /\ LengthOf(s) \in Nat /\ t[k + 1].length \in Nat
        /\ Sums(s \o t)[Len(s) + k] = LengthOf(s) + Sums(t)[k]
    BY <1>6, <2>1, SumsAre, PieceLength
  <2>6. Sums(s \o t)[Len(s) + (k + 1)] = LengthOf(s) + Sums(t)[k + 1]
    BY <2>2, <2>3, <2>4, <2>5
  <2> QED
    BY <2>1, <2>6
<1>7. 0 .. Len(t) \subseteq G
  <2> HIDE DEF G
  <2> QED
    BY <1>2, <1>5, <1>6, Climb, Zenon
<1>8. \A i \in 0 .. Len(t) : Sums(s \o t)[Len(s) + i] = LengthOf(s) + Sums(t)[i]
  BY <1>7
<1>9. LengthOf(s \o t) = LengthOf(s) + LengthOf(t)
  <2>1. LengthOf(s \o t) = Sums(s \o t)[Len(s) + Len(t)]
    BY <1>1 DEF LengthOf
  <2>2. Len(t) \in 0 .. Len(t)
    BY <1>2
  <2> QED
    BY <1>8, <2>1, <2>2 DEF LengthOf
<1> QED
  BY <1>1, <1>4, <1>8, <1>9

LEMMA LengthOfFew ==
    /\ << >> \in Seq(Pieces) /\ LengthOf(<< >>) = 0
    /\ \A e \in Pieces : <<e>> \in Seq(Pieces) /\ LengthOf(<<e>>) = e.length
<1>1. << >> \in Seq(Pieces) /\ Len(<< >>) = 0
  OBVIOUS
<1>2. LengthOf(<< >>) = 0
  BY <1>1, SumsAre
<1>3. ASSUME NEW e \in Pieces PROVE <<e>> \in Seq(Pieces) /\ LengthOf(<<e>>) = e.length
  <2> DEFINE q == <<e>>
  <2>1. q \in Seq(Pieces) /\ Len(q) = 1 /\ q[1] = e
    OBVIOUS
  <2> HIDE DEF q
  <2>2. /\ LengthOf(q) = Sums(q)[1] /\ Sums(q)[0] = 0
        /\ Sums(q)[1] = Sums(q)[1 - 1] + q[1].length
    BY <2>1, SumsAre
  <2>3. q[1].length \in Nat
    BY <2>1, PieceLength, SMTT(30)
  <2>4. LengthOf(q) = e.length
    BY <2>1, <2>2, <2>3
  <2> QED
    BY <2>1, <2>4 DEF q
<1> QED
  BY <1>1, <1>2, <1>3

(* The beginning of a queue.                                               *)
LEMMA FirstIs ==
    ASSUME NEW S, NEW q \in Seq(S), NEW k \in 0 .. Len(q)
    PROVE  /\ First(q, k) \in Seq(S) /\ Len(First(q, k)) = k
           /\ \A i \in 1 .. k : First(q, k)[i] = q[i]
BY DEF First

LEMMA LengthOfFirst ==
    ASSUME NEW q \in Seq(Pieces), NEW k \in 0 .. Len(q)
    PROVE  /\ LengthOf(First(q, k)) = Sums(q)[k]
           /\ \A i \in 0 .. k : Sums(First(q, k))[i] = Sums(q)[i]
<1> DEFINE s == First(q, k)
<1>1. s \in Seq(Pieces) /\ Len(s) = k /\ \A i \in 1 .. k : s[i] = q[i]
  BY FirstIs, Zenon
<1> HIDE DEF s
<1>2. k \in Nat /\ k <= Len(q) /\ k <= k
  OBVIOUS
<1>3. \A i \in 0 .. k : Sums(s)[i] = Sums(q)[i]
  <2>1. \A i \in 1 .. k : s[i].length = q[i].length
    BY <1>1
  <2> QED
    BY <1>1, <1>2, <2>1, SumsAlike
<1>4. LengthOf(s) = Sums(q)[k]
  BY <1>1, <1>2, <1>3 DEF LengthOf
<1> QED
  BY <1>3, <1>4 DEF s

-----------------------------------------------------------------------------
(* The units of the buffers in a queue, one after the other from a + 1 on. *)
Chain(q, a) == \A i \in 1 .. Len(q) : q[i].first = a + Sums(q)[i - 1] + 1

LEMMA ChainFew ==
    ASSUME NEW a \in Nat
    PROVE  /\ Chain(<< >>, a)
           /\ \A e \in Pieces : Chain(<<e>>, a) <=> e.first = a + 1
<1>1. Chain(<< >>, a)
  BY DEF Chain
<1>2. ASSUME NEW e \in Pieces PROVE Chain(<<e>>, a) <=> e.first = a + 1
  <2> DEFINE q == <<e>>
  <2>1. q \in Seq(Pieces) /\ Len(q) = 1 /\ q[1] = e
    OBVIOUS
  <2> HIDE DEF q
  <2>2. Sums(q)[1 - 1] = 0
    BY <2>1, SumsAre
  <2>3. a + Sums(q)[1 - 1] + 1 = a + 1
    BY <2>2
  <2>4. Chain(q, a) <=> q[1].first = a + Sums(q)[1 - 1] + 1
    BY <2>1 DEF Chain
  <2> QED
    BY <2>1, <2>3, <2>4 DEF q
<1> QED
  BY <1>1, <1>2

LEMMA ChainJoin ==
    ASSUME NEW s \in Seq(Pieces), NEW t \in Seq(Pieces), NEW a \in Nat
    PROVE  Chain(s \o t, a) <=> Chain(s, a) /\ Chain(t, a + LengthOf(s))
<1>1. /\ s \o t \in Seq(Pieces) /\ Len(s \o t) = Len(s) + Len(t)
      /\ \A i \in 0 .. Len(s) : Sums(s \o t)[i] = Sums(s)[i]
      /\ \A i \in 0 .. Len(t) : Sums(s \o t)[Len(s) + i] = LengthOf(s) + Sums(t)[i]
  BY SumsJoin
<1>2. Len(s) \in Nat /\ Len(t) \in Nat /\ LengthOf(s) \in Nat
  BY SumsAre
<1>3. ASSUME NEW i \in 1 .. Len(s)
      PROVE  (s \o t)[i] = s[i] /\ Sums(s \o t)[i - 1] = Sums(s)[i - 1] /\ i \in 1 .. Len(s \o t)
  <2>1. i - 1 \in 0 .. Len(s) /\ i \in 1 .. Len(s \o t)
    BY <1>1, <1>2
  <2> QED
    BY <1>1, <2>1
<1>4. ASSUME NEW i \in 1 .. Len(t)
      PROVE  /\ (s \o t)[Len(s) + i] = t[i] /\ Len(s) + i \in 1 .. Len(s \o t)
             /\ a + Sums(s \o t)[(Len(s) + i) - 1] + 1 = (a + LengthOf(s)) + Sums(t)[i - 1] + 1
  <2>1. /\ i - 1 \in 0 .. Len(t) /\ Len(s) + i \in 1 .. Len(s \o t)
        /\ (Len(s) + i) - 1 = Len(s) + (i - 1) /\ (Len(s) + i) - Len(s) = i
        /\ ~(Len(s) + i <= Len(s)) /\ Len(s) + i \in 1 .. Len(s) + Len(t)
    BY <1>1, <1>2
  <2>2. (s \o t)[Len(s) + i] = t[i]
    BY <2>1
  <2>3. Sums(s \o t)[(Len(s) + i) - 1] = LengthOf(s) + Sums(t)[i - 1]
    BY <1>1, <2>1
  <2>4. Sums(t)[i - 1] \in Nat
    BY <2>1, SumsAre
  <2> QED
    BY <1>2, <2>1, <2>2, <2>3, <2>4
<1>5. ASSUME Chain(s \o t, a) PROVE Chain(s, a) /\ Chain(t, a + LengthOf(s))
  <2>1. \A i \in 1 .. Len(s \o t) : (s \o t)[i].first = a + Sums(s \o t)[i - 1] + 1
    BY <1>5 DEF Chain
  <2>2. ASSUME NEW i \in 1 .. Len(s) PROVE s[i].first = a + Sums(s)[i - 1] + 1
    BY <1>3, <2>1
  <2>3. ASSUME NEW i \in 1 .. Len(t) PROVE t[i].first = (a + LengthOf(s)) + Sums(t)[i - 1] + 1
    BY <1>4, <2>1
  <2> QED
    BY <2>2, <2>3 DEF Chain
<1>6. ASSUME Chain(s, a), Chain(t, a + LengthOf(s)) PROVE Chain(s \o t, a)
  <2>1. ASSUME NEW i \in 1 .. Len(s \o t)
        PROVE  (s \o t)[i].first = a + Sums(s \o t)[i - 1] + 1
    <3>1. CASE i \in 1 .. Len(s)
      <4>1. s[i].first = a + Sums(s)[i - 1] + 1
        BY <1>6, <3>1 DEF Chain
      <4> QED
        BY <1>3, <3>1, <4>1
    <3>2. CASE i \notin 1 .. Len(s)
      <4>1. PICK j \in 1 .. Len(t) : i = Len(s) + j
        <5>1. i - Len(s) \in 1 .. Len(t) /\ i = Len(s) + (i - Len(s))
          BY <1>1, <1>2, <3>2
        <5> QED
          BY <5>1
      <4>2. t[j].first = (a + LengthOf(s)) + Sums(t)[j - 1] + 1
        BY <1>6 DEF Chain
      <4> QED
        BY <1>4, <4>1, <4>2
    <3> QED
      BY <3>1, <3>2
  <2> QED
    BY <2>1 DEF Chain
<1> QED
  BY <1>5, <1>6

(* Queues whose entries name the same units.                               *)
LEMMA SameUnits ==
    ASSUME NEW s \in Seq(Pieces), NEW t \in Seq(Pieces), Len(s) = Len(t), NEW a \in Nat,
           \A i \in 1 .. Len(s) : s[i].first = t[i].first /\ s[i].length = t[i].length
    PROVE  (Chain(s, a) <=> Chain(t, a)) /\ LengthOf(s) = LengthOf(t)
<1>1. Len(s) \in Nat /\ Len(s) <= Len(s) /\ Len(s) <= Len(t)
  OBVIOUS
<1>2. \A i \in 0 .. Len(s) : Sums(s)[i] = Sums(t)[i]
  BY <1>1, SumsAlike
<1>3. LengthOf(s) = LengthOf(t)
  BY <1>1, <1>2 DEF LengthOf
<1>4. \A i \in 1 .. Len(s) : i - 1 \in 0 .. Len(s) /\ Sums(s)[i - 1] = Sums(t)[i - 1]
  BY <1>1, <1>2
<1> QED
  BY <1>3, <1>4 DEF Chain

LEMMA RangesArePieces == ASSUME NEW q \in Seq(Ranges) PROVE q \in Seq(Pieces)
<1>1. Ranges \subseteq Pieces
  BY DEF Pieces
<1> QED
  BY <1>1

LEMMA FramesArePieces == ASSUME NEW q \in Seq(Frames) PROVE q \in Seq(Pieces)
<1>1. Frames \subseteq Pieces
  BY DEF Pieces
<1> QED
  BY <1>1

LEMMA RangeFields ==
    /\ \A r \in Ranges : r.first \in Nat \ {0} /\ r.length \in Nat \ {0}
    /\ \A a, n \in Nat \ {0} : /\ [first |-> a, length |-> n] \in Ranges
                               /\ [first |-> a, length |-> n].first = a
                               /\ [first |-> a, length |-> n].length = n
BY DEF Ranges

(* How far a window reaches into a queue.                                  *)
LEMMA WholeIs ==
    ASSUME NEW q \in Seq(Ranges), NEW window \in Nat
    PROVE  LET k == Whole(q, window)
           IN  /\ k \in 0 .. Len(q)
               /\ LengthOf(First(q, k)) <= window
               /\ k = Len(q) \/ LengthOf(First(q, k + 1)) > window
<1> DEFINE Fits(k) == LengthOf(First(q, k)) <= window
           Last(k) == k = Len(q) \/ LengthOf(First(q, k + 1)) > window
<1>1. \E k \in 0 .. Len(q) : Fits(k) /\ Last(k)
  <2> SUFFICES ASSUME \A k \in 0 .. Len(q) : Fits(k) => ~Last(k) PROVE FALSE
    OBVIOUS
  <2> DEFINE G == {k \in 0 .. Len(q) : Fits(k)}
  <2>1. Len(q) \in Nat /\ 0 \in 0 .. Len(q) /\ 0 \in Nat
    OBVIOUS
  <2>2. 0 \in G
    <3>1. LengthOf(First(q, 0)) = 0
      BY <2>1, RangesArePieces, LengthOfFirst, SumsAre
    <3> QED
      BY <2>1, <3>1
  <2>3. ASSUME NEW k \in 0 .. Len(q) - 1, k \in G PROVE k + 1 \in G
    <3>1. k \in 0 .. Len(q) /\ k + 1 \in 0 .. Len(q) /\ k # Len(q)
      BY <2>1
    <3>2. ~Last(k)
      BY <2>3, <3>1
    <3>3. ~(LengthOf(First(q, k + 1)) > window)
      BY <3>1, <3>2
    <3>4. LengthOf(First(q, k + 1)) \in Nat
      <4>1. First(q, k + 1) \in Seq(Ranges)
        BY <3>1, FirstIs, Zenon
      <4> QED
        BY <4>1, RangesArePieces, SumsAre
    <3>5. LengthOf(First(q, k + 1)) <= window
      BY <3>3, <3>4
    <3> QED
      BY <3>1, <3>5
  <2>4. 0 .. Len(q) \subseteq G
    <3> HIDE DEF G
    <3> QED
      BY <2>1, <2>2, <2>3, Climb, Zenon
  <2>5. Len(q) \in G /\ Len(q) \in 0 .. Len(q)
    BY <2>1, <2>4
  <2> QED
    BY <2>5
<1>2. Whole(q, window) = CHOOSE k \in 0 .. Len(q) : Fits(k) /\ Last(k)
  BY DEF Whole
<1> DEFINE k == Whole(q, window)
<1>3. k \in 0 .. Len(q) /\ Fits(k) /\ Last(k)
  <2> HIDE DEF Fits, Last
  <2> QED
    BY <1>1, <1>2
<1> QED
  BY <1>3

(* One entry before a queue, and after it.                                 *)
LEMMA OneBefore ==
    ASSUME NEW e \in Pieces, NEW t \in Seq(Pieces), NEW a \in Nat
    PROVE  /\ <<e>> \o t \in Seq(Pieces)
           /\ LengthOf(<<e>> \o t) = e.length + LengthOf(t)
           /\ Chain(<<e>> \o t, a) <=> e.first = a + 1 /\ Chain(t, a + e.length)
<1>1. PICK s : s = <<e>>
  OBVIOUS
<1>2. s \in Seq(Pieces) /\ LengthOf(s) = e.length /\ (Chain(s, a) <=> e.first = a + 1)
  BY <1>1, LengthOfFew, ChainFew
<1>3. s \o t \in Seq(Pieces) /\ LengthOf(s \o t) = LengthOf(s) + LengthOf(t)
  BY <1>2, SumsJoin, Zenon
<1>4. Chain(s \o t, a) <=> Chain(s, a) /\ Chain(t, a + LengthOf(s))
  BY <1>2, ChainJoin, Zenon
<1> QED
  BY <1>1, <1>2, <1>3, <1>4, Zenon

LEMMA OneAfter ==
    ASSUME NEW s \in Seq(Pieces), NEW e \in Pieces, NEW a \in Nat
    PROVE  /\ s \o <<e>> \in Seq(Pieces)
           /\ LengthOf(s \o <<e>>) = LengthOf(s) + e.length
           /\ Chain(s \o <<e>>, a) <=> Chain(s, a) /\ e.first = a + LengthOf(s) + 1
<1>1. PICK t : t = <<e>>
  OBVIOUS
<1>2. LengthOf(s) \in Nat /\ a + LengthOf(s) \in Nat
  BY SumsAre
<1>3. /\ t \in Seq(Pieces) /\ LengthOf(t) = e.length
      /\ Chain(t, a + LengthOf(s)) <=> e.first = a + LengthOf(s) + 1
  BY <1>1, <1>2, LengthOfFew, ChainFew
<1>4. s \o t \in Seq(Pieces) /\ LengthOf(s \o t) = LengthOf(s) + LengthOf(t)
  BY <1>3, SumsJoin, Zenon
<1>5. Chain(s \o t, a) <=> Chain(s, a) /\ Chain(t, a + LengthOf(s))
  BY <1>3, ChainJoin, Zenon
<1> QED
  BY <1>1, <1>3, <1>4, <1>5, Zenon

(* A buffer in a queue that is cut: its first part and the rest.           *)
CutSoundly(b, r, t, room, a) ==
    /\ <<Rest(r, room)>> \o t \in Seq(Ranges)
    /\ LengthOf(<<Rest(r, room)>> \o t) \in Nat
    /\ LengthOf(b) + room + LengthOf(<<Rest(r, room)>> \o t) = LengthOf(b \o (<<r>> \o t))
    /\ Chain(b \o (<<r>> \o t), a) => /\ Chain(b, a) /\ r.first = a + LengthOf(b) + 1
                                      /\ Chain(<<Rest(r, room)>> \o t, a + LengthOf(b) + room)

LEMMA CutOnce ==
    ASSUME NEW b \in Seq(Ranges), NEW r \in Ranges, NEW t \in Seq(Ranges),
           NEW room \in Nat, room < r.length, NEW a \in Nat
    PROVE  CutSoundly(b, r, t, room, a)
<1>1. r.first \in Nat \ {0} /\ r.length \in Nat \ {0}
  BY RangeFields
<1>2. PICK rest \in Ranges : /\ rest = Rest(r, room)
                             /\ rest.first = r.first + room /\ rest.length = r.length - room
  <2>1. r.first + room \in Nat \ {0} /\ r.length - room \in Nat \ {0}
    BY <1>1
  <2> QED
    BY <2>1, RangeFields, ZenonT(40) DEF Rest
<1>3. r \in Pieces /\ rest \in Pieces /\ t \in Seq(Pieces) /\ b \in Seq(Pieces)
  BY RangesArePieces DEF Pieces
<1>4. LengthOf(b) \in Nat /\ LengthOf(t) \in Nat
  BY <1>3, SumsAre
<1>5. PICK x : x = a + LengthOf(b)
  OBVIOUS
<1>6. x \in Nat /\ x + room \in Nat
  BY <1>4, <1>5
<1>7. /\ <<r>> \o t \in Seq(Pieces) /\ LengthOf(<<r>> \o t) = r.length + LengthOf(t)
      /\ Chain(<<r>> \o t, x) <=> r.first = x + 1 /\ Chain(t, x + r.length)
  BY <1>3, <1>6, OneBefore, Zenon
<1>8. /\ LengthOf(<<rest>> \o t) = rest.length + LengthOf(t)
      /\ Chain(<<rest>> \o t, x + room)
            <=> rest.first = (x + room) + 1 /\ Chain(t, (x + room) + rest.length)
  BY <1>3, <1>6, OneBefore, Zenon
<1>9. PICK c : c = <<r>> \o t
  OBVIOUS
<1>10. /\ LengthOf(b \o c) = LengthOf(b) + LengthOf(c)
       /\ Chain(b \o c, a) <=> Chain(b, a) /\ Chain(c, x)
  BY <1>3, <1>5, <1>7, <1>9, SumsJoin, ChainJoin, Zenon
<1>11. <<rest>> \o t \in Seq(Ranges)
  <2>1. <<rest>> \in Seq(Ranges)
    OBVIOUS
  <2> QED
    BY <2>1, ConcatProperties, Zenon
<1>12. (x + room) + rest.length = x + r.length
  BY <1>1, <1>2, <1>6
<1>13. r.first = x + 1 => rest.first = (x + room) + 1
  BY <1>1, <1>2, <1>6
<1>14. /\ LengthOf(<<rest>> \o t) \in Nat
       /\ LengthOf(b) + room + LengthOf(<<rest>> \o t) = LengthOf(b \o c)
  BY <1>1, <1>2, <1>4, <1>7, <1>8, <1>9, <1>10, SMTT(30)
<1>15. Chain(b \o c, a) => /\ Chain(b, a) /\ r.first = x + 1
                           /\ Chain(<<rest>> \o t, x + room)
  BY <1>7, <1>8, <1>9, <1>10, <1>12, <1>13
<1> QED
  BY <1>2, <1>5, <1>9, <1>11, <1>14, <1>15, Zenon DEF CutSoundly

(* What is sent of a queue and what is kept are the queue, cut once; only  *)
(* a window that is used up keeps anything.                                *)
LEMMA QueueSplit ==
    ASSUME NEW q \in Seq(Ranges), NEW window \in Nat, NEW a \in Nat
    PROVE  LET s == SentFrom(q, window)
               t == KeptFrom(q, window)
           IN  /\ s \in Seq(Ranges) /\ t \in Seq(Ranges)
               /\ LengthOf(s) \in Nat /\ LengthOf(t) \in Nat
               /\ LengthOf(s) <= window
               /\ LengthOf(s) + LengthOf(t) = LengthOf(q)
               /\ t # << >> => LengthOf(s) = window
               /\ Chain(q, a) => Chain(s, a) /\ Chain(t, a + LengthOf(s))
<1>1. PICK k \in 0 .. Len(q) : k = Whole(q, window)
  BY WholeIs
<1>2. k \in Nat /\ Len(q) \in Nat /\ k <= Len(q)
  OBVIOUS
<1>3. PICK b : b = First(q, k)
  OBVIOUS
<1>4. b \in Seq(Ranges) /\ Len(b) = k /\ \A i \in 1 .. k : b[i] = q[i]
  BY <1>3, FirstIs, Zenon
<1>5. /\ LengthOf(b) = Sums(q)[k] /\ LengthOf(b) \in Nat /\ LengthOf(b) <= window
      /\ k = Len(q) \/ LengthOf(First(q, k + 1)) > window
  <2>1. LengthOf(b) <= window /\ (k = Len(q) \/ LengthOf(First(q, k + 1)) > window)
    BY <1>1, <1>3, WholeIs
  <2>2. LengthOf(b) = Sums(q)[k]
    BY <1>3, RangesArePieces, LengthOfFirst
  <2>3. LengthOf(b) \in Nat
    BY <1>4, RangesArePieces, SumsAre
  <2> QED
    BY <2>1, <2>2, <2>3
<1>6. PICK room \in Nat : room = window - LengthOf(b)
  BY <1>5
<1>7. CASE k = Len(q)
  <2>1. b = q
    BY <1>2, <1>4, <1>7, SeqEqual
  <2>2. SentFrom(q, window) = q /\ KeptFrom(q, window) = << >>
    BY <1>1, <1>2, <1>3, <1>7, <2>1 DEF SentFrom, KeptFrom
  <2>3. LengthOf(q) \in Nat /\ LengthOf(<< >>) = 0 /\ LengthOf(q) <= window /\ << >> \in Seq(Ranges)
    BY <1>5, <2>1, LengthOfFew
  <2>4. Chain(<< >>, a + LengthOf(q))
    BY <2>3, ChainFew
  <2> QED
    BY <2>2, <2>3, <2>4
<1>8. CASE k < Len(q)
  <2> DEFINE r == q[k + 1]
             tail == SubSeq(q, k + 2, Len(q))
  <2>1. k + 1 \in 1 .. Len(q) /\ k + 1 \in 0 .. Len(q) /\ (k + 1) - 1 = k /\ k # Len(q)
    BY <1>2, <1>8
  <2>2. r \in Ranges /\ r.first \in Nat \ {0} /\ r.length \in Nat \ {0}
    BY <2>1, RangeFields
  <2>3. tail \in Seq(Ranges)
    BY <2>1
  <2>4. q = b \o (<<r>> \o tail)
    <3>1. Len(<<r>> \o tail) = Len(q) - k /\ <<r>> \o tail \in Seq(Ranges)
      BY <1>2, <2>1, <2>2
    <3>2. \A i \in 1 .. Len(q) - k : (<<r>> \o tail)[i] = q[k + i]
      BY <1>2, <2>1, <2>2
    <3> HIDE DEF tail
    <3>3. /\ b \o (<<r>> \o tail) \in Seq(Ranges)
          /\ Len(b \o (<<r>> \o tail)) = Len(b) + Len(<<r>> \o tail)
      BY <1>4, <3>1, ConcatProperties, Zenon
    <3>4. Len(b \o (<<r>> \o tail)) = Len(q)
      BY <1>2, <1>4, <3>1, <3>3
    <3>5. ASSUME NEW i \in 1 .. Len(q) PROVE (b \o (<<r>> \o tail))[i] = q[i]
      <4>1. CASE i <= k
        BY <1>2, <1>4, <3>1, <4>1
      <4>2. CASE ~(i <= k)
        <5>1. i - k \in 1 .. Len(q) - k /\ k + (i - k) = i
          BY <1>2, <4>2
        <5>2. (b \o (<<r>> \o tail))[i] = (<<r>> \o tail)[i - k]
          BY <1>2, <1>4, <3>1, <4>2
        <5> QED
          BY <3>2, <5>1, <5>2
      <4> QED
        BY <4>1, <4>2
    <3> QED
      BY <3>3, <3>4, <3>5, SeqEqual
  <2> HIDE DEF tail
  <2>5. room < r.length
    <3>1. LengthOf(First(q, k + 1)) = Sums(q)[k] + r.length
      <4>1. LengthOf(First(q, k + 1)) = Sums(q)[k + 1]
        BY <2>1, RangesArePieces, LengthOfFirst
      <4> QED
        BY <2>1, <4>1, RangesArePieces, SumsAre
    <3> QED
      BY <1>5, <1>6, <2>1, <2>2, <3>1
  <2>6. /\ Rest(r, room) \in Ranges
        /\ Rest(r, room).first = r.first + room /\ Rest(r, room).length = r.length - room
    <3>1. r.first + room \in Nat \ {0} /\ r.length - room \in Nat \ {0}
      BY <2>2, <2>5, SMTT(30)
    <3> QED
      BY <3>1, RangeFields DEF Rest
  <2>7. PICK kept : kept = <<Rest(r, room)>> \o tail
    OBVIOUS
  <2>8. KeptFrom(q, window) = kept /\ kept # << >>
    <3>1. KeptFrom(q, window) = kept
      BY <1>1, <1>3, <1>6, <1>8, <2>7 DEF KeptFrom, tail
    <3> QED
      BY <2>3, <2>6, <2>7, <3>1
  <2>9. /\ kept \in Seq(Ranges) /\ LengthOf(kept) \in Nat
        /\ LengthOf(b) + room + LengthOf(kept) = LengthOf(q)
        /\ Chain(q, a) => /\ Chain(b, a) /\ r.first = a + LengthOf(b) + 1
                          /\ Chain(kept, a + LengthOf(b) + room)
    <3>1. PICK e, t : e = r /\ t = tail
      OBVIOUS
    <3>2. b \in Seq(Ranges) /\ e \in Ranges /\ t \in Seq(Ranges) /\ room < e.length
      BY <1>4, <2>2, <2>3, <2>5, <3>1
    <3>3. /\ <<Rest(e, room)>> \o t \in Seq(Ranges)
          /\ LengthOf(<<Rest(e, room)>> \o t) \in Nat
          /\ LengthOf(b) + room + LengthOf(<<Rest(e, room)>> \o t) = LengthOf(b \o (<<e>> \o t))
          /\ Chain(b \o (<<e>> \o t), a) =>
                /\ Chain(b, a) /\ e.first = a + LengthOf(b) + 1
                /\ Chain(<<Rest(e, room)>> \o t, a + LengthOf(b) + room)
      <4>1. CutSoundly(b, e, t, room, a)
        BY <1>6, <3>2, CutOnce, Zenon
      <4> QED
        BY <4>1 DEF CutSoundly
    <3>4. q = b \o (<<e>> \o t) /\ kept = <<Rest(e, room)>> \o t /\ e.first = r.first
      BY <2>4, <2>7, <3>1
    <3> QED
      BY <3>3, <3>4
  <2>10. LengthOf(b) + room = window
    BY <1>5, <1>6
  <2>11. CASE room = 0
    <3>1. SentFrom(q, window) = b
      BY <1>1, <1>3, <1>6, <2>11 DEF SentFrom
    <3>2. LengthOf(b) = window /\ LengthOf(b) + room = LengthOf(b)
          /\ a + LengthOf(b) + room = a + LengthOf(b)
      BY <1>5, <2>10, <2>11
    <3> QED
      BY <1>4, <1>5, <2>8, <2>9, <3>1, <3>2, Zenon
  <2>12. CASE room > 0
    <3>1. PICK cut \in Ranges : cut = Cut(r, room) /\ cut.first = r.first /\ cut.length = room
      <4>1. room \in Nat \ {0}
        BY <2>12
      <4> QED
        BY <2>2, <4>1, RangeFields DEF Cut
    <3>2. PICK s : s = b \o <<cut>>
      OBVIOUS
    <3>3. SentFrom(q, window) = s
      <4>1. SentFrom(q, window) = Append(b, cut)
        BY <1>1, <1>3, <1>6, <1>8, <2>12, <3>1 DEF SentFrom
      <4> QED
        BY <1>4, <3>2, <4>1
    <3>4. s \in Seq(Ranges)
      BY <1>4, <3>2
    <3>5. b \in Seq(Pieces) /\ cut \in Pieces
      BY <1>4, RangesArePieces DEF Pieces
    <3>6. /\ LengthOf(s) = LengthOf(b) + cut.length
          /\ Chain(s, a) <=> Chain(b, a) /\ cut.first = a + LengthOf(b) + 1
      BY <3>2, <3>5, OneAfter, Zenon
    <3>7. LengthOf(s) = window /\ a + LengthOf(b) + room = a + LengthOf(s)
          /\ LengthOf(s) + LengthOf(kept) = LengthOf(q)
      <4>1. LengthOf(s) = LengthOf(b) + room
        BY <3>1, <3>6
      <4>2. a + LengthOf(b) + room = a + window
        BY <1>5, <2>10
      <4>3. LengthOf(b) + room + LengthOf(kept) = LengthOf(q)
        BY <2>9
      <4> QED
        BY <2>10, <4>1, <4>2, <4>3
    <3>8. Chain(q, a) => Chain(s, a) /\ Chain(kept, a + LengthOf(s))
      BY <2>9, <3>1, <3>6, <3>7, Zenon
    <3>9. LengthOf(s) <= window
      BY <3>7
    <3> QED
      BY <2>8, <2>9, <3>3, <3>4, <3>7, <3>8, <3>9, Zenon
  <2> QED
    BY <1>6, <2>11, <2>12
<1> QED
  BY <1>2, <1>7, <1>8

-----------------------------------------------------------------------------
(* Picking frames out of what is under way.                                *)
Grown(u, e, S) == IF e \in S THEN Append(u, e) ELSE u

LEMMA PicksUnfold ==
    ASSUME NEW w, NEW S, Len(w) \in Nat
    PROVE  Picks(w, S) = [i \in 0 .. Len(w) |->
               IF i = 0 THEN << >> ELSE Grown(Picks(w, S)[i - 1], w[i], S)]
<1> DEFINE Next1(f, i) == IF i = 0 THEN << >> ELSE Grown(f[i - 1], w[i], S)
           G == {m \in 0 .. Len(w) : \E f : f = [i \in 0 .. m |-> Next1(f, i)]}
<1>1. 0 \in G
  <2> DEFINE f == [i \in 0 .. 0 |-> << >>]
  <2>1. f = [i \in 0 .. 0 |-> Next1(f, i)]
    OBVIOUS
  <2> HIDE DEF f
  <2> QED
    BY <2>1
<1>2. ASSUME NEW m \in 0 .. Len(w) - 1, m \in G PROVE m + 1 \in G
  <2>1. PICK f : f = [i \in 0 .. m |-> Next1(f, i)]
    BY <1>2
  <2> DEFINE g == [i \in 0 .. m + 1 |-> IF i = m + 1 THEN Next1(f, i) ELSE f[i]]
  <2>2. \A i \in 0 .. m + 1 : i # 0 => i - 1 \in 0 .. m /\ g[i - 1] = f[i - 1]
    OBVIOUS
  <2>3. \A i \in 0 .. m + 1 : Next1(g, i) = Next1(f, i)
    BY <2>2
  <2>4. \A i \in 0 .. m : f[i] = Next1(f, i)
    BY <2>1
  <2>5. \A i \in 0 .. m + 1 : g[i] = Next1(f, i)
    <3> HIDE DEF Next1
    <3> QED
      BY <2>4
  <2>6. g = [i \in 0 .. m + 1 |-> Next1(g, i)]
    BY <2>3, <2>5
  <2>7. m + 1 \in 0 .. Len(w)
    OBVIOUS
  <2> HIDE DEF g, Next1
  <2> QED
    BY <2>6, <2>7
<1>3. Len(w) \in G
  <2> HIDE DEF G
  <2>1. 0 \in Nat
    OBVIOUS
  <2>2. 0 .. Len(w) \subseteq G
    BY <1>1, <1>2, <2>1, Climb, Zenon
  <2> QED
    BY <2>2
<1> DEFINE s == CHOOSE f : f = [i \in 0 .. Len(w) |-> Next1(f, i)]
<1>4. s = [i \in 0 .. Len(w) |-> Next1(s, i)]
  BY <1>3
<1>5. Picks(w, S) = s
  BY DEF Picks, Grown
<1> QED
  BY <1>4, <1>5

LEMMA PicksAre ==
    ASSUME NEW w \in Seq(Frames), NEW S
    PROVE  /\ Picks(w, S)[0] = << >>
           /\ \A i \in 1 .. Len(w) : Picks(w, S)[i] = Grown(Picks(w, S)[i - 1], w[i], S)
<1>1. Len(w) \in Nat
  OBVIOUS
<1>2. \A i \in 0 .. Len(w) : Picks(w, S)[i] =
               IF i = 0 THEN << >> ELSE Grown(Picks(w, S)[i - 1], w[i], S)
  <2> DEFINE f == Picks(w, S)
             g == [i \in 0 .. Len(w) |-> IF i = 0 THEN << >> ELSE Grown(f[i - 1], w[i], S)]
  <2>1. f = g
    BY <1>1, PicksUnfold, Zenon
  <2> HIDE DEF f
  <2>2. \A i \in 0 .. Len(w) : g[i] = IF i = 0 THEN << >> ELSE Grown(f[i - 1], w[i], S)
    OBVIOUS
  <2> HIDE DEF g
  <2>3. \A i \in 0 .. Len(w) : f[i] = IF i = 0 THEN << >> ELSE Grown(f[i - 1], w[i], S)
    BY <2>1, <2>2
  <2> QED
    BY <2>3 DEF f
<1>3. 0 \in 0 .. Len(w) /\ \A i \in 1 .. Len(w) : i \in 0 .. Len(w) /\ i # 0
  BY <1>1
<1> QED
  BY <1>2, <1>3, Zenon

LEMMA PickAppend ==
    ASSUME NEW S
    PROVE  /\ Pick(<< >>, S) = << >>
           /\ \A w \in Seq(Frames), f \in Frames :
                 Pick(Append(w, f), S) = Grown(Pick(w, S), f, S)
<1>1. Pick(<< >>, S) = << >>
  <2>1. << >> \in Seq(Frames) /\ Len(<< >>) = 0
    OBVIOUS
  <2> QED
    BY <2>1, PicksAre DEF Pick
<1>2. ASSUME NEW w \in Seq(Frames), NEW f \in Frames
      PROVE  Pick(Append(w, f), S) = Grown(Pick(w, S), f, S)
  <2>1. PICK v : v = Append(w, f)
    OBVIOUS
  <2>2. /\ v \in Seq(Frames) /\ Len(v) = Len(w) + 1 /\ v[Len(w) + 1] = f
        /\ \A i \in 1 .. Len(w) : v[i] = w[i]
        /\ Len(w) \in Nat
    BY <2>1
  <2> DEFINE G == {i \in 0 .. Len(w) : Picks(v, S)[i] = Picks(w, S)[i]}
  <2>3. 0 \in G /\ 0 \in Nat
    BY <2>2, PicksAre
  <2>4. ASSUME NEW k \in 0 .. Len(w) - 1, k \in G PROVE k + 1 \in G
    <3>1. /\ k + 1 \in 1 .. Len(w) /\ k + 1 \in 1 .. Len(v) /\ k + 1 \in 0 .. Len(w)
          /\ (k + 1) - 1 = k
      BY <2>2
    <3>2. /\ Picks(v, S)[k + 1] = Grown(Picks(v, S)[k], v[k + 1], S)
          /\ Picks(w, S)[k + 1] = Grown(Picks(w, S)[k], w[k + 1], S)
      <4>1. \A i \in 1 .. Len(v) : Picks(v, S)[i] = Grown(Picks(v, S)[i - 1], v[i], S)
        BY <2>2, PicksAre, Zenon
      <4>2. \A i \in 1 .. Len(w) : Picks(w, S)[i] = Grown(Picks(w, S)[i - 1], w[i], S)
        BY PicksAre, Zenon
      <4> QED
        BY <3>1, <4>1, <4>2
    <3>3. v[k + 1] = w[k + 1] /\ Picks(v, S)[k] = Picks(w, S)[k]
      BY <2>2, <2>4, <3>1
    <3> QED
      BY <3>1, <3>2, <3>3
  <2>5. 0 .. Len(w) \subseteq G
    <3> HIDE DEF G
    <3> QED
      BY <2>2, <2>3, <2>4, Climb, Zenon
  <2>6. Picks(v, S)[Len(w)] = Pick(w, S)
    <3>1. Len(w) \in G
      BY <2>2, <2>5
    <3> QED
      BY <3>1 DEF Pick
  <2>7. Pick(v, S) = Grown(Picks(v, S)[Len(v) - 1], v[Len(v)], S)
    <3>1. Len(v) \in 1 .. Len(v)
      BY <2>2
    <3> QED
      BY <2>2, <3>1, PicksAre DEF Pick
  <2>8. Len(v) = Len(w) + 1 /\ Len(v) - 1 = Len(w) /\ v[Len(v)] = f
    BY <2>2
  <2> QED
    BY <2>1, <2>6, <2>7, <2>8, Zenon
<1> QED
  BY <1>1, <1>2

LEMMA PickIsSeq ==
    ASSUME NEW S, NEW w \in Seq(Frames)
    PROVE  Pick(w, S) \in Seq(Frames \cap S) /\ Pick(w, S) \in Seq(Frames)
<1> DEFINE G == {v \in Seq(Frames) : Pick(v, S) \in Seq(Frames \cap S)}
<1>1. << >> \in G
  <2>1. << >> \in Seq(Frames) /\ << >> \in Seq(Frames \cap S)
    OBVIOUS
  <2> QED
    BY <2>1, PickAppend
<1>2. ASSUME NEW v \in Seq(Frames), NEW e \in Frames, v \in G PROVE Append(v, e) \in G
  <2>1. Append(v, e) \in Seq(Frames)
    OBVIOUS
  <2>2. PICK u \in Seq(Frames \cap S) : u = Pick(v, S)
    BY <1>2
  <2>3. e \in S => Append(u, e) \in Seq(Frames \cap S)
    BY <2>2
  <2>4. Pick(Append(v, e), S) = IF e \in S THEN Append(u, e) ELSE u
    BY <2>2, PickAppend, Zenon DEF Grown
  <2>5. Pick(Append(v, e), S) \in Seq(Frames \cap S)
    BY <2>2, <2>3, <2>4, Zenon
  <2> QED
    BY <2>1, <2>5
<1>3. Seq(Frames) \subseteq G
  <2> HIDE DEF G
  <2> QED
    BY <1>1, <1>2, ClimbSeq, Zenon
<1>4. Pick(w, S) \in Seq(Frames \cap S)
  BY <1>3
<1>5. \A s \in Seq(Frames \cap S) : s \in Seq(Frames)
  OBVIOUS
<1> QED
  BY <1>4, <1>5, Zenon

LEMMA JoinAppend ==
    ASSUME NEW T, NEW s \in Seq(T), NEW t \in Seq(T), NEW e \in T
    PROVE  s \o Append(t, e) = Append(s \o t, e) /\ s \o << >> = s /\ << >> \o s = s
<1>1. s \o << >> = s /\ << >> \o s = s
  OBVIOUS
<1>2. s \o Append(t, e) = Append(s \o t, e)
  OBVIOUS
<1> QED
  BY <1>1, <1>2

LEMMA PickJoin ==
    ASSUME NEW S, NEW w \in Seq(Frames), NEW v \in Seq(Frames)
    PROVE  w \o v \in Seq(Frames) /\ Pick(w \o v, S) = Pick(w, S) \o Pick(v, S)
<1> DEFINE G == {u \in Seq(Frames) : w \o u \in Seq(Frames)
                                     /\ Pick(w \o u, S) = Pick(w, S) \o Pick(u, S)}
<1>1. << >> \in G
  <2>1. << >> \in Seq(Frames) /\ w \o << >> = w
    OBVIOUS
  <2>2. Pick(w, S) \o << >> = Pick(w, S)
    BY PickIsSeq
  <2>3. Pick(<< >>, S) = << >>
    BY PickAppend
  <2> QED
    BY <2>1, <2>2, <2>3
<1>2. ASSUME NEW u \in Seq(Frames), NEW e \in Frames, u \in G PROVE Append(u, e) \in G
  <2>1. PICK x \in Seq(Frames) : x = w \o u
    BY <1>2
  <2>2. Append(u, e) \in Seq(Frames) /\ w \o Append(u, e) = Append(x, e) /\ Append(x, e) \in Seq(Frames)
    BY <2>1, JoinAppend
  <2>3. PICK a \in Seq(Frames), b \in Seq(Frames) : a = Pick(w, S) /\ b = Pick(u, S)
    BY PickIsSeq
  <2>4. Pick(x, S) = a \o b
    BY <1>2, <2>1, <2>3
  <2>5. Pick(Append(x, e), S) = IF e \in S THEN Append(a \o b, e) ELSE a \o b
    BY <2>1, <2>4, PickAppend, Zenon DEF Grown
  <2>6. Pick(Append(u, e), S) = IF e \in S THEN Append(b, e) ELSE b
    BY <2>3, PickAppend, Zenon DEF Grown
  <2>7. a \o Append(b, e) = Append(a \o b, e)
    BY <2>3
  <2>8. Pick(Append(x, e), S) = a \o Pick(Append(u, e), S)
    BY <2>5, <2>6, <2>7, Zenon
  <2> QED
    BY <2>2, <2>3, <2>8
<1>3. Seq(Frames) \subseteq G
  <2> HIDE DEF G
  <2> QED
    BY <1>1, <1>2, ClimbSeq, Zenon
<1> QED
  BY <1>3

LEMMA PickOne ==
    ASSUME NEW S, NEW f \in Frames
    PROVE  <<f>> \in Seq(Frames) /\ Pick(<<f>>, S) = IF f \in S THEN <<f>> ELSE << >>
<1>1. << >> \in Seq(Frames) /\ <<f>> \in Seq(Frames) /\ <<f>> = Append(<< >>, f)
  OBVIOUS
<1>2. Pick(Append(<< >>, f), S) = Grown(Pick(<< >>, S), f, S)
  BY <1>1, PickAppend, Zenon
<1>3. Pick(<< >>, S) = << >>
  BY PickAppend, Zenon
<1> QED
  BY <1>1, <1>2, <1>3 DEF Grown

LEMMA PickHead ==
    ASSUME NEW S, NEW w \in Seq(Frames), w # << >>
    PROVE  /\ Head(w) \in Frames /\ Tail(w) \in Seq(Frames) /\ Len(Tail(w)) = Len(w) - 1
           /\ w = <<Head(w)>> \o Tail(w)
           /\ Pick(w, S) = Pick(<<Head(w)>>, S) \o Pick(Tail(w), S)
<1>1. Head(w) \in Frames /\ Tail(w) \in Seq(Frames) /\ Len(Tail(w)) = Len(w) - 1
  OBVIOUS
<1>2. w = <<Head(w)>> \o Tail(w)
  OBVIOUS
<1>3. PICK a \in Seq(Frames), b \in Seq(Frames) : a = <<Head(w)>> /\ b = Tail(w)
  <2>1. <<Head(w)>> \in Seq(Frames)
    BY <1>1
  <2> QED
    BY <1>1, <2>1, Zenon
<1>4. Pick(a \o b, S) = Pick(a, S) \o Pick(b, S)
  BY <1>3, PickJoin, Zenon
<1> QED
  BY <1>1, <1>2, <1>3, <1>4, Zenon

LEMMA PickPick ==
    ASSUME NEW S, NEW T, NEW w \in Seq(Frames)
    PROVE  Pick(Pick(w, S), T) = Pick(w, S \cap T)
<1> DEFINE G == {v \in Seq(Frames) : Pick(Pick(v, S), T) = Pick(v, S \cap T)}
<1>1. << >> \in G
  <2>1. << >> \in Seq(Frames)
    OBVIOUS
  <2> QED
    BY <2>1, PickAppend
<1>2. ASSUME NEW v \in Seq(Frames), NEW e \in Frames, v \in G PROVE Append(v, e) \in G
  <2>1. Append(v, e) \in Seq(Frames)
    OBVIOUS
  <2>2. PICK a \in Seq(Frames) : a = Pick(v, S)
    BY PickIsSeq
  <2>3. /\ Pick(Append(v, e), S) = Grown(a, e, S)
        /\ Pick(Append(v, e), S \cap T) = Grown(Pick(v, S \cap T), e, S \cap T)
        /\ Pick(Append(a, e), T) = Grown(Pick(a, T), e, T)
    BY <2>2, PickAppend, Zenon
  <2>4. Pick(a, T) = Pick(v, S \cap T)
    BY <1>2, <2>2
  <2>5. CASE e \in S
    <3>1. Pick(Append(v, e), S) = Append(a, e) /\ (e \in T <=> e \in S \cap T)
      BY <2>3, <2>5 DEF Grown
    <3>2. Pick(Pick(Append(v, e), S), T) = Grown(Pick(v, S \cap T), e, T)
      BY <2>3, <2>4, <3>1, Zenon
    <3>3. Pick(Pick(Append(v, e), S), T) = Pick(Append(v, e), S \cap T)
      BY <2>3, <3>1, <3>2 DEF Grown
    <3> QED
      BY <2>1, <3>3
  <2>6. CASE e \notin S
    <3>1. Pick(Append(v, e), S) = a /\ e \notin S \cap T
      BY <2>3, <2>6 DEF Grown
    <3>2. Pick(Pick(Append(v, e), S), T) = Pick(Append(v, e), S \cap T)
      BY <2>3, <2>4, <3>1 DEF Grown
    <3> QED
      BY <2>1, <3>2
  <2> QED
    BY <2>5, <2>6
<1>3. Seq(Frames) \subseteq G
  <2> HIDE DEF G
  <2> QED
    BY <1>1, <1>2, ClimbSeq, Zenon
<1> QED
  BY <1>3

LEMMA PickAll ==
    ASSUME NEW S, NEW T, T \subseteq Frames, NEW w \in Seq(T)
    PROVE  /\ T \subseteq S => Pick(w, S) = w
           /\ T \cap S = {} => Pick(w, S) = << >>
<1>1. \A v \in Seq(T), e \in T : v \in Seq(Frames) /\ e \in Frames /\ Append(v, e) \in Seq(T)
  OBVIOUS
<1>2. ASSUME T \subseteq S PROVE Pick(w, S) = w
  <2> DEFINE G == {v \in Seq(T) : Pick(v, S) = v}
  <2>1. << >> \in G
    BY PickAppend
  <2>2. ASSUME NEW v \in Seq(T), NEW e \in T, v \in G PROVE Append(v, e) \in G
    <3>1. v \in Seq(Frames) /\ e \in Frames /\ e \in S
      BY <1>1, <1>2
    <3>2. Pick(Append(v, e), S) = Grown(Pick(v, S), e, S)
      BY <3>1, PickAppend, Zenon
    <3> QED
      BY <1>1, <2>2, <3>1, <3>2 DEF Grown
  <2>3. Seq(T) \subseteq G
    <3> HIDE DEF G
    <3> QED
      BY <2>1, <2>2, ClimbSeq, Zenon
  <2> QED
    BY <2>3
<1>3. ASSUME T \cap S = {} PROVE Pick(w, S) = << >>
  <2> DEFINE G == {v \in Seq(T) : Pick(v, S) = << >>}
  <2>1. << >> \in G
    BY PickAppend
  <2>2. ASSUME NEW v \in Seq(T), NEW e \in T, v \in G PROVE Append(v, e) \in G
    <3>1. v \in Seq(Frames) /\ e \in Frames /\ e \notin S
      BY <1>1, <1>3
    <3>2. Pick(Append(v, e), S) = Grown(Pick(v, S), e, S)
      BY <3>1, PickAppend, Zenon
    <3> QED
      BY <1>1, <2>2, <3>1, <3>2 DEF Grown
  <2>3. Seq(T) \subseteq G
    <3> HIDE DEF G
    <3> QED
      BY <2>1, <2>2, ClimbSeq, Zenon
  <2> QED
    BY <2>3
<1> QED
  BY <1>2, <1>3

(* What is somewhere in a queue.                                           *)
Elems(q) == {q[i] : i \in 1 .. Len(q)}

LEMMA ElemsFew ==
    Elems(<< >>) = {} /\ \A e : Elems(<<e>>) = {e}
<1>1. Elems(<< >>) = {}
  BY DEF Elems
<1>2. ASSUME NEW e PROVE Elems(<<e>>) = {e}
  <2>1. Len(<<e>>) = 1 /\ <<e>>[1] = e
    OBVIOUS
  <2> QED
    BY <2>1 DEF Elems
<1> QED
  BY <1>1, <1>2

LEMMA ElemsJoin ==
    ASSUME NEW T, NEW s \in Seq(T), NEW t \in Seq(T)
    PROVE  Elems(s \o t) = Elems(s) \cup Elems(t)
<1>1. Len(s \o t) = Len(s) + Len(t) /\ Len(s) \in Nat /\ Len(t) \in Nat
  OBVIOUS
<1>2. \A i \in 1 .. Len(s) : i \in 1 .. Len(s \o t) /\ (s \o t)[i] = s[i]
  OBVIOUS
<1>3. \A i \in 1 .. Len(t) : Len(s) + i \in 1 .. Len(s \o t) /\ (s \o t)[Len(s) + i] = t[i]
  <2>1. \A i \in 1 .. Len(t) : Len(s) + i \in 1 .. Len(s \o t)
                               /\ ~(Len(s) + i <= Len(s)) /\ (Len(s) + i) - Len(s) = i
    BY <1>1
  <2> QED
    BY <1>1, <2>1
<1>4. \A i \in 1 .. Len(s \o t) : i \in 1 .. Len(s) \/ \E j \in 1 .. Len(t) : i = Len(s) + j
  <2>1. ASSUME NEW i \in 1 .. Len(s \o t), i \notin 1 .. Len(s)
        PROVE  \E j \in 1 .. Len(t) : i = Len(s) + j
    <3>1. i - Len(s) \in 1 .. Len(t) /\ i = Len(s) + (i - Len(s))
      BY <1>1, <2>1
    <3> QED
      BY <3>1
  <2> QED
    BY <2>1
<1>5. \A f : f \in Elems(s \o t) <=> f \in Elems(s) \/ f \in Elems(t)
  <2>1. \A q, f : f \in Elems(q) <=> \E i \in 1 .. Len(q) : f = q[i]
    BY Zenon DEF Elems
  <2>2. PICK u : u = s \o t
    OBVIOUS
  <2>3. ASSUME NEW f, f \in Elems(u) PROVE f \in Elems(s) \/ f \in Elems(t)
    <3>1. PICK i \in 1 .. Len(u) : f = u[i]
      BY <2>1, <2>3
    <3>2. CASE i \in 1 .. Len(s)
      BY <1>2, <2>1, <2>2, <3>1, <3>2, Zenon
    <3>3. CASE \E j \in 1 .. Len(t) : i = Len(s) + j
      BY <1>3, <2>1, <2>2, <3>1, <3>3, Zenon
    <3> QED
      BY <1>4, <2>2, <3>2, <3>3, Zenon
  <2>4. ASSUME NEW f, f \in Elems(s) PROVE f \in Elems(u)
    <3>1. PICK i \in 1 .. Len(s) : f = s[i]
      BY <2>1, <2>4
    <3>2. i \in 1 .. Len(u) /\ u[i] = f
      BY <1>2, <2>2, <3>1
    <3> QED
      BY <2>1, <3>2
  <2>5. ASSUME NEW f, f \in Elems(t) PROVE f \in Elems(u)
    <3>1. PICK i \in 1 .. Len(t) : f = t[i]
      BY <2>1, <2>5
    <3>2. Len(s) + i \in 1 .. Len(u) /\ u[Len(s) + i] = f
      BY <1>3, <2>2, <3>1
    <3> QED
      BY <2>1, <3>2
  <2> QED
    BY <2>2, <2>3, <2>4, <2>5, Zenon
<1> QED
  BY <1>5, Zenon

LEMMA ElemsType ==
    ASSUME NEW T, NEW q \in Seq(T), NEW U
    PROVE  Elems(q) \subseteq T /\ (q \in Seq(U) <=> Elems(q) \subseteq U)
<1>1. q \in [1 .. Len(q) -> T] /\ Len(q) \in Nat
  OBVIOUS
<1>2. Elems(q) \subseteq T
  BY <1>1 DEF Elems
<1>3. ASSUME Elems(q) \subseteq U PROVE q \in Seq(U)
  <2>1. \A i \in 1 .. Len(q) : q[i] \in U
    BY <1>3 DEF Elems
  <2>2. q \in [1 .. Len(q) -> U]
    BY <1>1, <2>1
  <2> QED
    BY <1>1, <2>2
<1>4. ASSUME q \in Seq(U) PROVE Elems(q) \subseteq U
  BY <1>4 DEF Elems
<1> QED
  BY <1>2, <1>3, <1>4

LEMMA ElemsPick ==
    ASSUME NEW S, NEW w \in Seq(Frames)
    PROVE  Elems(Pick(w, S)) = Elems(w) \cap S
<1> DEFINE G == {v \in Seq(Frames) : Elems(Pick(v, S)) = Elems(v) \cap S}
<1>1. << >> \in G
  <2>1. << >> \in Seq(Frames)
    OBVIOUS
  <2> QED
    BY <2>1, PickAppend, ElemsFew
<1>2. ASSUME NEW v \in Seq(Frames), NEW e \in Frames, v \in G PROVE Append(v, e) \in G
  <2>1. Append(v, e) \in Seq(Frames) /\ Append(v, e) = v \o <<e>> /\ <<e>> \in Seq(Frames)
    OBVIOUS
  <2>2. Elems(Append(v, e)) = Elems(v) \cup {e}
    <3>1. Elems(v \o <<e>>) = Elems(v) \cup Elems(<<e>>)
      BY <2>1, ElemsJoin, ZenonT(40)
    <3> QED
      BY <2>1, <3>1, ElemsFew, Zenon
  <2>3. PICK a \in Seq(Frames) : a = Pick(v, S)
    BY PickIsSeq
  <2>4. Pick(Append(v, e), S) = Grown(a, e, S)
    BY <2>3, PickAppend, Zenon
  <2>5. Elems(Append(a, e)) = Elems(a) \cup {e}
    <3>1. Append(a, e) = a \o <<e>>
      BY <2>3
    <3>2. Elems(a \o <<e>>) = Elems(a) \cup Elems(<<e>>)
      BY <2>1, <2>3, ElemsJoin, ZenonT(40)
    <3> QED
      BY <3>1, <3>2, ElemsFew, Zenon
  <2>6. Elems(a) = Elems(v) \cap S
    BY <1>2, <2>3
  <2>7. Elems(Pick(Append(v, e), S)) = Elems(Append(v, e)) \cap S
    BY <2>2, <2>4, <2>5, <2>6 DEF Grown
  <2> QED
    BY <2>1, <2>7
<1>3. Seq(Frames) \subseteq G
  <2> HIDE DEF G
  <2> QED
    BY <1>1, <1>2, ClimbSeq, Zenon
<1> QED
  BY <1>3

-----------------------------------------------------------------------------
(* The Data frames d of a stream that are under way start with what the    *)
(* peer has not got, and a FIN or RST ends that.  Without one, and as long *)
(* as the sender lives, what is pending follows, up to the last unit       *)
(* accepted.                                                               *)
FinFlags == {"FIN", "RST"}

CarriedBy(d, q, got, given, live) ==
    \E s, r \in Seq(Frames) :
        /\ d = s \o r
        /\ \A f \in Elems(s) : f.flag = "none"
        /\ r # << >> => r[1].flag # "none"
        /\ Chain(s, got) /\ got + LengthOf(s) <= given
        /\ r = << >> /\ live => /\ Chain(q, got + LengthOf(s))
                                /\ got + LengthOf(s) + LengthOf(q) = given

LEMMA CarriedLess ==
    ASSUME NEW d, NEW q, NEW q2, NEW got, NEW given, NEW live, NEW live2,
           live2 => live /\ q2 = q, CarriedBy(d, q, got, given, live)
    PROVE  CarriedBy(d, q2, got, given, live2)
BY DEF CarriedBy

LEMMA CarriedDead ==
    ASSUME NEW d, NEW q, NEW q2, NEW got \in Nat, NEW given \in Nat, NEW given2 \in Nat,
           NEW live, NEW live2, ~live2, given <= given2, CarriedBy(d, q, got, given, live)
    PROVE  CarriedBy(d, q2, got, given2, live2)
<1>1. PICK s \in Seq(Frames), r \in Seq(Frames) :
          /\ d = s \o r
          /\ \A f \in Elems(s) : f.flag = "none"
          /\ r # << >> => r[1].flag # "none"
          /\ Chain(s, got) /\ got + LengthOf(s) <= given
  BY DEF CarriedBy
<1>2. got + LengthOf(s) <= given2
  <2>1. LengthOf(s) \in Nat
    BY FramesArePieces, SumsAre
  <2> QED
    BY <1>1, <2>1
<1> QED
  BY <1>1, <1>2 DEF CarriedBy

(* A frame that closes the stream is sent.                                 *)
LEMMA CarriedFin ==
    ASSUME NEW d, NEW q, NEW q2, NEW got, NEW given, NEW live, NEW live2,
           NEW f \in Frames, f.flag # "none", CarriedBy(d, q, got, given, live)
    PROVE  CarriedBy(d \o <<f>>, q2, got, given, live2)
<1>1. PICK s \in Seq(Frames), r \in Seq(Frames) :
          /\ d = s \o r
          /\ \A e \in Elems(s) : e.flag = "none"
          /\ r # << >> => r[1].flag # "none"
          /\ Chain(s, got) /\ got + LengthOf(s) <= given
  BY DEF CarriedBy
<1>2. PICK v \in Seq(Frames) : v = r \o <<f>>
  <2>1. r \o <<f>> \in Seq(Frames)
    OBVIOUS
  <2> QED
    BY <2>1, Zenon
<1>3. v # << >> /\ v[1].flag # "none"
  <2>1. CASE r = << >>
    <3>1. v = <<f>>
      BY <1>2, <2>1
    <3> QED
      BY <3>1
  <2>2. CASE r # << >>
    <3>1. v # << >> /\ v[1] = r[1]
      BY <1>2, <2>2
    <3> QED
      BY <1>1, <2>2, <3>1
  <2> QED
    BY <2>1, <2>2
<1>4. d \o <<f>> = s \o v
  BY <1>1, <1>2
<1> QED
  BY <1>1, <1>3, <1>4 DEF CarriedBy

(* Data is sent behind a frame that closed the stream.                     *)
LEMMA CarriedBehind ==
    ASSUME NEW d \in Seq(Frames), NEW q, NEW q2, NEW got \in Nat,
           NEW given \in Nat, NEW given2 \in Nat, given <= given2, NEW live, NEW live2,
           NEW fs \in Seq(Frames), NEW f \in Elems(d), f.flag # "none",
           CarriedBy(d, q, got, given, live)
    PROVE  CarriedBy(d \o fs, q2, got, given2, live2)
<1>1. PICK s \in Seq(Frames), r \in Seq(Frames) :
          /\ d = s \o r
          /\ \A e \in Elems(s) : e.flag = "none"
          /\ r # << >> => r[1].flag # "none"
          /\ Chain(s, got) /\ got + LengthOf(s) <= given
  BY DEF CarriedBy
<1>2. r # << >>
  <2>1. SUFFICES ASSUME r = << >> PROVE FALSE
    OBVIOUS
  <2>2. d = s
    BY <1>1, <2>1
  <2> QED
    BY <1>1, <2>2
<1>3. PICK v \in Seq(Frames) : v = r \o fs
  <2>1. r \o fs \in Seq(Frames)
    OBVIOUS
  <2> QED
    BY <2>1, Zenon
<1>4. v # << >> /\ v[1] = r[1]
  BY <1>2, <1>3
<1>5. d \o fs = s \o v
  BY <1>1, <1>3, SMTT(30)
<1>6. got + LengthOf(s) <= given2
  <2>1. LengthOf(s) \in Nat
    BY FramesArePieces, SumsAre
  <2> QED
    BY <1>1, <2>1
<1> QED
  BY <1>1, <1>2, <1>4, <1>5, <1>6 DEF CarriedBy

(* What a queue of ranges and more is turned into, when frames are sent.   *)
Splits(q, given, fs, q2, given2) ==
    \A a \in Nat : Chain(q, a) /\ a + LengthOf(q) = given =>
        Chain(fs, a) /\ Chain(q2, a + LengthOf(fs)) /\ a + LengthOf(fs) + LengthOf(q2) = given2

LEMMA CarriedMore ==
    ASSUME NEW d \in Seq(Frames), NEW q \in Seq(Ranges), NEW q2 \in Seq(Ranges), NEW got \in Nat,
           NEW given \in Nat, NEW given2 \in Nat, NEW live,  NEW live2, live2 => live, live,
           NEW fs \in Seq(Frames),
           \A f \in Elems(d) : f.flag = "none", \A f \in Elems(fs) : f.flag = "none",
           Splits(q, given, fs, q2, given2), CarriedBy(d, q, got, given, live)
    PROVE  CarriedBy(d \o fs, q2, got, given2, live2)
<1>1. PICK s \in Seq(Frames), r \in Seq(Frames) :
          /\ d = s \o r
          /\ r # << >> => r[1].flag # "none"
          /\ Chain(s, got)
          /\ r = << >> => /\ Chain(q, got + LengthOf(s))
                          /\ got + LengthOf(s) + LengthOf(q) = given
  BY DEF CarriedBy
<1>2. r = << >>
  <2>1. SUFFICES ASSUME r # << >> PROVE FALSE
    OBVIOUS
  <2>2. 1 \in 1 .. Len(r)
    BY <2>1
  <2>3. r[1] \in Elems(r)
    BY <2>2 DEF Elems
  <2>4. r[1] \in Elems(d)
    BY <1>1, <2>3, ElemsJoin
  <2> QED
    BY <1>1, <2>1, <2>4
<1>3. d = s
  BY <1>1, <1>2
<1>4. PICK a \in Nat : a = got + LengthOf(s)
  BY FramesArePieces, SumsAre
<1>5. Chain(fs, a) /\ Chain(q2, a + LengthOf(fs)) /\ a + LengthOf(fs) + LengthOf(q2) = given2
  BY <1>1, <1>2, <1>4 DEF Splits
<1>6. PICK v \in Seq(Frames) : v = d \o fs
  <2>1. d \o fs \in Seq(Frames)
    OBVIOUS
  <2> QED
    BY <2>1, Zenon
<1>7. /\ LengthOf(v) = LengthOf(d) + LengthOf(fs)
      /\ Chain(v, got)
  <2>1. d \in Seq(Pieces) /\ fs \in Seq(Pieces)
    BY FramesArePieces
  <2>2. LengthOf(v) = LengthOf(d) + LengthOf(fs)
    BY <1>6, <2>1, SumsJoin, Zenon
  <2>3. Chain(v, got) <=> Chain(d, got) /\ Chain(fs, got + LengthOf(d))
    BY <1>6, <2>1, ChainJoin, Zenon
  <2> QED
    BY <1>1, <1>3, <1>4, <1>5, <2>2, <2>3
<1>8. LengthOf(d) \in Nat /\ LengthOf(fs) \in Nat /\ LengthOf(q2) \in Nat
  BY FramesArePieces, RangesArePieces, SumsAre
<1>9. got + LengthOf(v) = a + LengthOf(fs)
  BY <1>3, <1>4, <1>7, <1>8
<1>10. got + LengthOf(v) <= given2 /\ Chain(q2, got + LengthOf(v))
       /\ got + LengthOf(v) + LengthOf(q2) = given2
  BY <1>5, <1>8, <1>9, SMTT(30)
<1>11. \A f \in Elems(v) : f.flag = "none"
  <2>1. Elems(v) = Elems(d) \cup Elems(fs)
    BY <1>6, ElemsJoin, ZenonT(40)
  <2> QED
    BY <2>1
<1>12. v = v \o << >> /\ << >> \in Seq(Frames)
  OBVIOUS
<1>13. CarriedBy(v, q2, got, given2, live2)
  BY <1>7, <1>10, <1>11, <1>12 DEF CarriedBy
<1> QED
  BY <1>6, <1>13

(* The peer takes the first frame.                                         *)
LEMMA CarriedTaken ==
    ASSUME NEW d \in Seq(Frames), NEW f \in Frames, f.flag = "none", NEW q,
           NEW got \in Nat, NEW given \in Nat, NEW live,
           CarriedBy(<<f>> \o d, q, got, given, live)
    PROVE  /\ f.first = got + 1 /\ got + f.length <= given
           /\ CarriedBy(d, q, got + f.length, given, live)
<1>1. PICK s \in Seq(Frames), r \in Seq(Frames) :
          /\ <<f>> \o d = s \o r
          /\ \A e \in Elems(s) : e.flag = "none"
          /\ r # << >> => r[1].flag # "none"
          /\ Chain(s, got) /\ got + LengthOf(s) <= given
          /\ r = << >> /\ live => /\ Chain(q, got + LengthOf(s))
                                  /\ got + LengthOf(s) + LengthOf(q) = given
  BY DEF CarriedBy
<1>2. PICK v \in Seq(Frames) : v = <<f>> \o d
  <2>1. <<f>> \o d \in Seq(Frames)
    OBVIOUS
  <2> QED
    BY <2>1, Zenon
<1>3. v[1] = f /\ Tail(v) = d /\ v # << >>
  BY <1>2
<1>4. s # << >>
  <2>1. SUFFICES ASSUME s = << >> PROVE FALSE
    OBVIOUS
  <2>2. v = r
    BY <1>1, <1>2, <2>1
  <2> QED
    BY <1>1, <1>3, <2>2
<1>5. PICK t \in Seq(Frames) : t = Tail(s)
  <2>1. Tail(s) \in Seq(Frames)
    BY <1>4
  <2> QED
    BY <2>1, Zenon
<1>6. s[1] = f /\ d = t \o r
  <2>1. v = s \o r
    BY <1>1, <1>2
  <2>2. v[1] = s[1] /\ Tail(v) = Tail(s) \o r
    BY <1>4, <2>1
  <2> QED
    BY <1>3, <1>5, <2>2
<1>7. s = <<f>> \o t
  BY <1>4, <1>5, <1>6
<1>8. /\ LengthOf(s) = f.length + LengthOf(t)
      /\ f.first = got + 1 /\ Chain(t, got + f.length)
  <2>1. f \in Pieces /\ t \in Seq(Pieces)
    BY FramesArePieces DEF Pieces
  <2>2. /\ LengthOf(<<f>> \o t) = f.length + LengthOf(t)
        /\ Chain(<<f>> \o t, got) <=> f.first = got + 1 /\ Chain(t, got + f.length)
    BY <2>1, OneBefore, Zenon
  <2> QED
    BY <1>1, <1>7, <2>2
<1>9. LengthOf(t) \in Nat /\ f.length \in Nat
  BY FramesArePieces, SumsAre DEF Frames
<1>10. got + LengthOf(s) = (got + f.length) + LengthOf(t) /\ got + f.length <= given
       /\ (got + f.length) + LengthOf(t) <= given
  BY <1>1, <1>8, <1>9, SMTT(30)
<1>11. \A e \in Elems(t) : e.flag = "none"
  <2>1. <<f>> \in Seq(Frames)
    OBVIOUS
  <2>2. Elems(s) = Elems(<<f>>) \cup Elems(t)
    BY <1>7, <2>1, ElemsJoin, ZenonT(40)
  <2> QED
    BY <1>1, <2>2
<1>12. CarriedBy(d, q, got + f.length, given, live)
  BY <1>1, <1>6, <1>8, <1>10, <1>11 DEF CarriedBy
<1> QED
  BY <1>8, <1>10, <1>12

-----------------------------------------------------------------------------
(* The invariant.  What an end has of a stream: the frames it sent that    *)
(* its peer has not handled, the ACK and the credit its handlers still owe *)
(* the peer, its record of the stream, and what was given and got.         *)
OfId(id) == {f \in Frames : f.id = id}
Owed(st, id) == {c \in Elems(st) : c.pc \in {"ack", "consumed"} /\ c.id = id}

End(p, id) == [line |-> Pick(wire[p], OfId(id)), owed |-> Owed(stack[p], id),
               known |-> Knows(p, id), up |-> connected[p],
               s |-> IF Knows(p, id) THEN streams[p][id] ELSE NewStream,
               accepted |-> accepted[p][id], delivered |-> delivered[p][id],
               next |-> m_nextStreamId[p]]

(* The frames the code sends.                                              *)
GoodFrames == {f \in Frames :
    \/ f.type = "Data" /\ f.id \in Ids /\ f.flag \in FinFlags /\ f.length = 0
    \/ f.type = "Data" /\ f.id \in Ids /\ f.flag = "none" /\ f.length > 0
    \/ f.type = "WindowUpdate" /\ f.id \in Ids /\ f.flag \in {"SYN", "ACK"}
                               /\ f.length = 0 /\ f.first = 0
    \/ f.type = "WindowUpdate" /\ f.id \in Ids /\ f.flag = "none" /\ f.length > 0
    \/ f.type = "GoAway" /\ f.id = 0}

StreamFrames(id) == GoodFrames \cap OfId(id)
PayloadFrames(id) == {f \in StreamFrames(id) : f.type = "Data" /\ f.flag = "none"}

EndOK(id, e) == /\ e.line \in Seq(StreamFrames(id))
                /\ \A c \in e.owed : c.pc \in {"ack", "consumed"}
                                     /\ (c.pc = "consumed" => c.length \in Nat)
                /\ e.known \in BOOLEAN /\ e.up \in BOOLEAN
                /\ e.s \in Stream /\ (~e.known => e.s = NewStream)
                /\ e.accepted \in 0 .. MaxAccepted /\ e.delivered \in 0 .. MaxAccepted
                /\ e.next \in Nat

Opens(id, e) == Syn(id) \in Elems(e.line)
Ended(e) == \E f \in Elems(e.line) : f.flag \in FinFlags
Awaited(id, e, g) == Opens(id, e) \/ (g.known /\ ~g.s.remoteClosed)
DataOf(id, e) == Pick(e.line, OfType(id, "Data"))
CreditOf(id, e) == Pick(e.line, OfType(id, "WindowUpdate"))
Blank(e) == e.line = << >> /\ e.owed = {} /\ ~e.known /\ e.accepted = 0 /\ e.delivered = 0

(* End e of a stream, p's, towards end g: an id not opened yet is unused;  *)
Owner(id) == IF id % 2 = 1 THEN "client" ELSE "server"
Unopened(p, id, e, g) == Owner(id) = p /\ id >= e.next => Blank(e) /\ Blank(g)

(* a SYN under way comes first, and the peer has nothing of the stream;    *)
AtSyn(p, id, e, g) == Opens(id, e) =>
    /\ Owner(id) = p /\ Head(e.line) = Syn(id) /\ \A f \in Elems(Tail(e.line)) : f.type = "Data"
    /\ e.owed = {} /\ e.s.recvWindow = InitialWindow /\ ~e.s.remoteClosed
    /\ e.s.unackedRecvBytes = 0 /\ e.delivered = 0
    /\ Blank(g)

(* only an end that closed a stream sends FIN or RST, and it does;         *)
Closes(id, e, g) ==
    /\ (Ended(e) \/ g.s.remoteClosed) /\ e.known => e.s.localClosed
    /\ e.known /\ e.s.localClosed /\ e.up /\ Awaited(id, e, g) => Ended(e)

(* the data is under way or pending, in order;                             *)
Carried(id, e, g) == Awaited(id, e, g) =>
    CarriedBy(DataOf(id, e), e.s.pendingData, g.delivered, e.accepted, e.up /\ e.known)

(* the peer's window covers it, and the credit that e has or will have;    *)
Covered(id, e, g) == Awaited(id, e, g) =>
    /\ LengthOf(DataOf(id, e)) <= g.s.recvWindow
    /\ e.known => e.s.sendWindow + LengthOf(DataOf(id, e)) + LengthOf(CreditOf(id, g))
                      <= g.s.recvWindow
    /\ e.known /\ e.up /\ g.up =>
           e.s.sendWindow + LengthOf(DataOf(id, e)) + LengthOf(CreditOf(id, g)) = g.s.recvWindow

(* and what e's window misses is counted, or about to be.                  *)
Accounted(e) == e.known /\ e.up =>
    /\ e.s.unackedRecvBytes < Threshold
    /\ \A c \in e.owed : c.pc = "consumed" =>
           e.s.recvWindow + e.s.unackedRecvBytes + c.length = InitialWindow
    /\ (\A c \in e.owed : c.pc # "consumed") =>
           e.s.recvWindow + e.s.unackedRecvBytes = InitialWindow
    /\ e.s.pendingData # << >> => e.s.sendWindow = 0

Sound(p, id, e, g) == /\ Unopened(p, id, e, g) /\ AtSyn(p, id, e, g) /\ Closes(id, e, g)
                      /\ Carried(id, e, g) /\ Covered(id, e, g) /\ Accounted(e)

(* Both directions.                                                        *)
Pair(p, id, e, g) == /\ EndOK(id, e) /\ EndOK(id, g)
                     /\ Sound(p, id, e, g) /\ Sound(Other(p), id, g, e)

-----------------------------------------------------------------------------
(* Facts about frames and ends.                                            *)
LEMMA Peering ==
    ASSUME NEW p \in Peers
    PROVE  Other(p) \in Peers /\ Other(p) # p /\ Other(Other(p)) = p
           /\ \A o \in Peers : o = p \/ o = Other(p)
BY DEF Peers, Other

LEMMA StreamFields ==
    ASSUME NEW s \in Stream
    PROVE  /\ s.sendWindow \in Nat /\ s.recvWindow \in Nat /\ s.unackedRecvBytes \in Nat
           /\ s.localClosed \in BOOLEAN /\ s.remoteClosed \in BOOLEAN
           /\ s.pendingData \in Seq(Ranges)
BY DEF Stream

LEMMA NewStreamFields ==
    /\ NewStream \in Stream
    /\ NewStream.sendWindow = InitialWindow /\ NewStream.recvWindow = InitialWindow
    /\ NewStream.unackedRecvBytes = 0 /\ ~NewStream.localClosed /\ ~NewStream.remoteClosed
    /\ NewStream.pendingData = << >>
    /\ InitialWindow \in Nat /\ 0 < Threshold
<1>1. InitialWindow \in Nat /\ 0 < Threshold
  BY WindowAssumption
<1>2. << >> \in Seq(Ranges)
  OBVIOUS
<1> QED
  BY <1>1, <1>2 DEF NewStream, Stream

(* What becomes of an end when nothing is sent or handled: it may forget   *)
(* the stream, or lose its connection.                                     *)
Less(e, e2) == /\ e2.line = e.line /\ e2.owed \subseteq e.owed
               /\ e2.known => e.known /\ e2.s = e.s
               /\ e2.known /\ e2.up => e2.owed = e.owed
               /\ e2.up => e.up
               /\ e2.accepted = e.accepted /\ e2.delivered = e.delivered
               /\ e.next <= e2.next

LEMMA LessIsSound ==
    ASSUME NEW p, NEW id \in Nat, NEW e, NEW g, NEW e2, NEW g2,
           EndOK(id, e), EndOK(id, g), EndOK(id, e2), EndOK(id, g2),
           Less(e, e2), Less(g, g2), Sound(p, id, e, g)
    PROVE  Sound(p, id, e2, g2)
<1>1. /\ Opens(id, e2) <=> Opens(id, e)
      /\ Ended(e2) <=> Ended(e)
      /\ DataOf(id, e2) = DataOf(id, e) /\ CreditOf(id, g2) = CreditOf(id, g)
  BY DEF Less, Opens, Ended, DataOf, CreditOf
<1>2. /\ e2.known => e.known /\ e2.s = e.s
      /\ e2.known /\ e2.up => e.up /\ e2.owed = e.owed
      /\ g2.known => g.known /\ g2.s = g.s
      /\ ~e2.known => e2.s = NewStream
      /\ ~g2.known => g2.s = NewStream
  BY DEF Less, EndOK
<1>3. (Blank(e) => Blank(e2)) /\ (Blank(g) => Blank(g2))
  BY DEF Less, Blank
<1>4. Unopened(p, id, e2, g2)
  <2>1. id >= e2.next => id >= e.next
    BY DEF Less, EndOK
  <2> QED
    BY <1>3, <2>1 DEF Sound, Unopened
<1>5. AtSyn(p, id, e2, g2)
  <2>1. ASSUME Opens(id, e2)
        PROVE  /\ Owner(id) = p /\ Head(e.line) = Syn(id)
               /\ \A f \in Elems(Tail(e.line)) : f.type = "Data"
               /\ e.owed = {} /\ e.s.recvWindow = InitialWindow /\ ~e.s.remoteClosed
               /\ e.s.unackedRecvBytes = 0 /\ e.delivered = 0
               /\ Blank(g)
    BY <1>1, <2>1 DEF Sound, AtSyn
  <2>2. ASSUME Opens(id, e2)
        PROVE  /\ e2.s.recvWindow = InitialWindow /\ ~e2.s.remoteClosed
               /\ e2.s.unackedRecvBytes = 0
    BY <1>2, <2>1, <2>2, NewStreamFields
  <2>3. Opens(id, e2) => Blank(g2)
    BY <1>3, <2>1
  <2>4. Opens(id, e2) => e2.line = e.line /\ e2.owed = {} /\ e2.delivered = 0
    BY <2>1 DEF Less
  <2> QED
    BY <2>1, <2>2, <2>3, <2>4 DEF AtSyn
<1>6. Awaited(id, e2, g2) => /\ Awaited(id, e, g) /\ g2.s.recvWindow = g.s.recvWindow
  <2>1. CASE Opens(id, e2)
    <3>1. Opens(id, e) /\ Blank(g)
      BY <1>1, <2>1 DEF Sound, AtSyn
    <3>2. g.s = NewStream /\ g2.s = NewStream
      BY <1>2, <3>1 DEF EndOK, Blank
    <3> QED
      BY <3>1, <3>2 DEF Awaited
  <2>2. CASE ~Opens(id, e2)
    BY <1>1, <1>2, <2>2 DEF Awaited
  <2> QED
    BY <2>1, <2>2
<1>7. Closes(id, e2, g2)
  <2>1. ASSUME e2.known, Ended(e2) \/ g2.s.remoteClosed PROVE e2.s.localClosed
    <3>1. Ended(e) \/ g.s.remoteClosed
      BY <1>1, <1>2, <2>1, NewStreamFields
    <3> QED
      BY <1>2, <2>1, <3>1 DEF Sound, Closes
  <2>2. ASSUME e2.known, e2.s.localClosed, e2.up, Awaited(id, e2, g2) PROVE Ended(e2)
    <3>1. e.known /\ e.s.localClosed /\ e.up /\ Awaited(id, e, g)
      BY <1>2, <1>6, <2>2 DEF Less
    <3> QED
      BY <1>1, <3>1 DEF Sound, Closes
  <2> QED
    BY <2>1, <2>2 DEF Closes
<1>8. Carried(id, e2, g2)
  <2>1. SUFFICES ASSUME Awaited(id, e2, g2)
                 PROVE  CarriedBy(DataOf(id, e2), e2.s.pendingData, g2.delivered, e2.accepted,
                                  e2.up /\ e2.known)
    BY DEF Carried
  <2>2. CarriedBy(DataOf(id, e), e.s.pendingData, g.delivered, e.accepted, e.up /\ e.known)
    BY <1>6, <2>1 DEF Sound, Carried
  <2>3. g2.delivered = g.delivered /\ e2.accepted = e.accepted
        /\ e.accepted \in Nat /\ g.delivered \in Nat /\ e.accepted <= e.accepted
    BY DEF Less, EndOK
  <2>4. e2.up /\ e2.known => (e.up /\ e.known) /\ e2.s.pendingData = e.s.pendingData
    BY <1>2 DEF Less
  <2>5. CarriedBy(DataOf(id, e), e2.s.pendingData, g.delivered, e.accepted, e2.up /\ e2.known)
    BY <2>2, <2>4, CarriedLess, ZenonT(40)
  <2> QED
    BY <1>1, <2>3, <2>5
<1>9. Covered(id, e2, g2)
  <2>1. ASSUME Awaited(id, e2, g2)
        PROVE  /\ Awaited(id, e, g) /\ g2.s.recvWindow = g.s.recvWindow
               /\ e2.known => e.known /\ e2.s.sendWindow = e.s.sendWindow
               /\ e2.up => e.up
               /\ g2.up => g.up
    BY <1>2, <1>6, <2>1 DEF Less
  <2> QED
    BY <1>1, <2>1 DEF Sound, Covered
<1>10. Accounted(e2)
  BY <1>2 DEF Sound, Accounted
<1> QED
  BY <1>4, <1>5, <1>7, <1>8, <1>9, <1>10 DEF Sound

LEMMA EndNumbers ==
    ASSUME NEW id, NEW e, EndOK(id, e)
    PROVE  e.accepted \in Nat /\ e.delivered \in Nat
<1>1. e.accepted \in 0 .. MaxAccepted /\ e.delivered \in 0 .. MaxAccepted
  BY DEF EndOK
<1> QED
  BY <1>1, TunnelAssumption

LEMMA FrameKinds ==
    ASSUME NEW id \in Ids, NEW f \in StreamFrames(id)
    PROVE  /\ f \in Frames /\ f.id = id /\ f.length \in Nat
           /\ f.type = "Data" \/ f.type = "WindowUpdate"
           /\ \A t : f \in OfType(id, t) <=> f.type = t
           /\ f.type = "Data" => /\ f # Syn(id)
                                 /\ f.length > 0 <=> f.flag = "none"
                                 /\ f.flag # "none" <=> f.flag \in FinFlags
           /\ f.type = "WindowUpdate" => /\ f.flag \notin FinFlags
                                         /\ f.length > 0 <=> f.flag = "none"
                                         /\ f.flag = "SYN" <=> f = Syn(id)
<1>1. f \in GoodFrames /\ f \in Frames /\ f.id = id /\ id \in Nat \ {0}
  BY TunnelAssumption DEF StreamFrames, OfId, GoodFrames
<1>2. /\ f = [type |-> f.type, flag |-> f.flag, id |-> f.id, length |-> f.length, first |-> f.first]
      /\ f.length \in Nat
  BY <1>1 DEF Frames
<1>3. \/ f.type = "Data" /\ f.flag \in FinFlags /\ f.length = 0
      \/ f.type = "Data" /\ f.flag = "none" /\ f.length > 0
      \/ f.type = "WindowUpdate" /\ f.flag \in {"SYN", "ACK"} /\ f.length = 0 /\ f.first = 0
      \/ f.type = "WindowUpdate" /\ f.flag = "none" /\ f.length > 0
  BY <1>1 DEF GoodFrames
<1>4. \A t : f \in OfType(id, t) <=> f.type = t
  BY <1>1 DEF OfType
<1>5. Syn(id).type = "WindowUpdate" /\ Syn(id).flag = "SYN"
  BY DEF Syn, Frame
<1>6. f.type = "WindowUpdate" /\ f.flag = "SYN" => f = Syn(id)
  BY <1>1, <1>2, <1>3 DEF Syn, Frame, FinFlags
<1> QED
  BY <1>1, <1>2, <1>3, <1>4, <1>5, <1>6 DEF FinFlags

(* The frames an end sends.                                                *)
LEMMA SentFrames ==
    ASSUME NEW id \in Ids
    PROVE  /\ StreamFrames(id) \subseteq GoodFrames /\ PayloadFrames(id) \subseteq StreamFrames(id)
           /\ Syn(id) \in StreamFrames(id)
           /\ Ack(id) \in StreamFrames(id) /\ Ack(id).type = "WindowUpdate"
           /\ Ack(id).flag = "ACK" /\ Ack(id).length = 0
           /\ \A n \in Nat \ {0} :
                  /\ Update(id, n) \in StreamFrames(id) /\ Update(id, n).type = "WindowUpdate"
                  /\ Update(id, n).flag = "none" /\ Update(id, n).length = n
           /\ \A r \in Ranges : /\ Data(id, r) \in PayloadFrames(id)
                                /\ Data(id, r).first = r.first /\ Data(id, r).length = r.length
           /\ \A rst \in BOOLEAN :
                  /\ Fin(id, rst) \in StreamFrames(id) /\ Fin(id, rst).type = "Data"
                  /\ Fin(id, rst).flag \in FinFlags /\ Fin(id, rst).length = 0
<1>1. id \in Nat \ {0}
  BY TunnelAssumption
<1>2. StreamFrames(id) \subseteq GoodFrames /\ PayloadFrames(id) \subseteq StreamFrames(id)
  BY DEF StreamFrames, PayloadFrames
<1>3. Syn(id) \in StreamFrames(id)
  BY DEF Syn, Frame, Frames, StreamFrames, GoodFrames, OfId
<1>4. /\ Ack(id) \in StreamFrames(id) /\ Ack(id).type = "WindowUpdate"
      /\ Ack(id).flag = "ACK" /\ Ack(id).length = 0
  BY DEF Ack, Frame, Frames, StreamFrames, GoodFrames, OfId
<1>5. ASSUME NEW n \in Nat \ {0}
      PROVE  /\ Update(id, n) \in StreamFrames(id) /\ Update(id, n).type = "WindowUpdate"
             /\ Update(id, n).flag = "none" /\ Update(id, n).length = n
  BY DEF Update, Frame, Frames, StreamFrames, GoodFrames, OfId
<1>6. ASSUME NEW r \in Ranges
      PROVE  /\ Data(id, r) \in PayloadFrames(id)
             /\ Data(id, r).first = r.first /\ Data(id, r).length = r.length
  <2>1. PICK a \in Nat \ {0}, n \in Nat \ {0} : a = r.first /\ n = r.length
    BY DEF Ranges
  <2> QED
    BY <2>1 DEF Data, Frame, Frames, PayloadFrames, StreamFrames, GoodFrames, OfId
<1>7. ASSUME NEW rst \in BOOLEAN
      PROVE  /\ Fin(id, rst) \in StreamFrames(id) /\ Fin(id, rst).type = "Data"
             /\ Fin(id, rst).flag \in FinFlags /\ Fin(id, rst).length = 0
  BY DEF Fin, Frame, Frames, StreamFrames, GoodFrames, OfId, FinFlags
<1> QED
  BY <1>2, <1>3, <1>4, <1>5, <1>6, <1>7

LEMMA StreamLine ==
    ASSUME NEW id, NEW w \in Seq(StreamFrames(id))
    PROVE  w \in Seq(Frames) /\ Elems(w) \subseteq StreamFrames(id)
<1>1. StreamFrames(id) \subseteq Frames
  BY DEF StreamFrames, OfId
<1> QED
  BY <1>1, ElemsType

(* An end sends frames of a stream, or handles one of its peer's.          *)
Grew(id, e, e2, fs) ==
    /\ e2.line \in Seq(StreamFrames(id))
    /\ Elems(e2.line) = Elems(e.line) \cup Elems(fs)
    /\ DataOf(id, e2) = DataOf(id, e) \o Pick(fs, OfType(id, "Data"))
    /\ CreditOf(id, e2) = CreditOf(id, e) \o Pick(fs, OfType(id, "WindowUpdate"))
    /\ Opens(id, e2) <=> Opens(id, e) \/ Syn(id) \in Elems(fs)
    /\ Ended(e2) <=> Ended(e) \/ \E f \in Elems(fs) : f.flag \in FinFlags

LEMMA LineGrows ==
    ASSUME NEW id, NEW e, NEW e2, NEW fs \in Seq(StreamFrames(id)),
           e.line \in Seq(StreamFrames(id)), e2.line = e.line \o fs
    PROVE  Grew(id, e, e2, fs)
<1>1. PICK v : v = e.line
  OBVIOUS
<1>2. v \in Seq(StreamFrames(id)) /\ v \in Seq(Frames) /\ fs \in Seq(Frames) /\ e2.line = v \o fs
  BY <1>1, StreamLine
<1>3. v \o fs \in Seq(StreamFrames(id))
  BY <1>2
<1>4. Elems(v \o fs) = Elems(v) \cup Elems(fs)
  <2>1. v \in Seq(Frames) /\ fs \in Seq(Frames)
    BY <1>2
  <2> QED
    BY <2>1, ElemsJoin
<1>5. \A S : Pick(v \o fs, S) = Pick(v, S) \o Pick(fs, S)
  BY <1>2, PickJoin, Zenon
<1>6. /\ DataOf(id, e2) = DataOf(id, e) \o Pick(fs, OfType(id, "Data"))
      /\ CreditOf(id, e2) = CreditOf(id, e) \o Pick(fs, OfType(id, "WindowUpdate"))
  BY <1>1, <1>2, <1>5, Zenon DEF DataOf, CreditOf
<1>7. Elems(e2.line) = Elems(e.line) \cup Elems(fs)
  BY <1>1, <1>2, <1>4, Zenon
<1> QED
  BY <1>2, <1>3, <1>6, <1>7 DEF Grew, Opens, Ended

Shrank(id, e, e2, f) ==
    /\ Elems(e.line) = {f} \cup Elems(e2.line)
    /\ e.line # << >> /\ Head(e.line) = f /\ Tail(e.line) = e2.line
    /\ f.type = "Data" => /\ DataOf(id, e) = <<f>> \o DataOf(id, e2)
                          /\ CreditOf(id, e) = CreditOf(id, e2)
    /\ f.type = "WindowUpdate" => /\ DataOf(id, e) = DataOf(id, e2)
                                  /\ CreditOf(id, e) = <<f>> \o CreditOf(id, e2)
    /\ Opens(id, e) <=> Opens(id, e2) \/ f = Syn(id)
    /\ Ended(e) <=> Ended(e2) \/ f.flag \in FinFlags

LEMMA LineShrinks ==
    ASSUME NEW id \in Ids, NEW e, NEW e2, NEW f \in StreamFrames(id),
           e2.line \in Seq(StreamFrames(id)), e.line = <<f>> \o e2.line
    PROVE  Shrank(id, e, e2, f)
<1>1. PICK v : v = e2.line
  OBVIOUS
<1>2. v \in Seq(Frames) /\ f \in Frames /\ e.line = <<f>> \o v /\ <<f>> \in Seq(Frames)
  <2>1. v \in Seq(Frames) /\ f \in Frames /\ e.line = <<f>> \o v
    BY <1>1, StreamLine, FrameKinds
  <2> QED
    BY <2>1
<1>3. Elems(<<f>> \o v) = {f} \cup Elems(v)
  <2>1. Elems(<<f>> \o v) = Elems(<<f>>) \cup Elems(v)
    <3>1. PICK u : u = <<f>>
      OBVIOUS
    <3>2. v \in Seq(Frames) /\ u \in Seq(Frames)
      BY <1>2, <3>1
    <3>3. Elems(u \o v) = Elems(u) \cup Elems(v)
      BY <3>2, ElemsJoin
    <3> QED
      BY <3>1, <3>3
  <2> QED
    BY <2>1, ElemsFew, Zenon
<1>4. \A S : Pick(<<f>> \o v, S) = Pick(<<f>>, S) \o Pick(v, S)
  BY <1>2, PickJoin, Zenon
<1>5. ASSUME NEW S
      PROVE  Pick(e.line, S) = IF f \in S THEN <<f>> \o Pick(v, S) ELSE Pick(v, S)
  <2>1. Pick(<<f>>, S) = IF f \in S THEN <<f>> ELSE << >>
    BY <1>2, PickOne, Zenon
  <2>2. PICK b \in Seq(Frames) : b = Pick(v, S)
    BY <1>2, PickIsSeq
  <2>3. << >> \o b = b
    BY <2>2
  <2> QED
    BY <1>2, <1>4, <2>1, <2>2, <2>3, Zenon
<1>6. \A t : f \in OfType(id, t) <=> f.type = t
  BY FrameKinds
<1>7. /\ f.type = "Data" => /\ DataOf(id, e) = <<f>> \o DataOf(id, e2)
                            /\ CreditOf(id, e) = CreditOf(id, e2)
      /\ f.type = "WindowUpdate" => /\ DataOf(id, e) = DataOf(id, e2)
                                    /\ CreditOf(id, e) = <<f>> \o CreditOf(id, e2)
  BY <1>1, <1>5, <1>6 DEF DataOf, CreditOf
<1>8. e.line # << >> /\ Head(e.line) = f /\ Tail(e.line) = e2.line
  BY <1>1, <1>2
<1>9. Elems(e.line) = {f} \cup Elems(e2.line)
  BY <1>1, <1>2, <1>3, Zenon
<1> QED
  BY <1>7, <1>8, <1>9 DEF Shrank, Opens, Ended

(* Lengths of what is under way.                                           *)
LEMMA LineLengths ==
    ASSUME NEW id, NEW e, e.line \in Seq(StreamFrames(id))
    PROVE  /\ DataOf(id, e) \in Seq(Frames) /\ CreditOf(id, e) \in Seq(Frames)
           /\ LengthOf(DataOf(id, e)) \in Nat /\ LengthOf(CreditOf(id, e)) \in Nat
           /\ \A f \in Elems(DataOf(id, e)) : f \in Elems(e.line)
<1>1. PICK v : v = e.line
  OBVIOUS
<1>2. v \in Seq(Frames)
  BY <1>1, StreamLine
<1>3. \A S : Pick(v, S) \in Seq(Frames) /\ Elems(Pick(v, S)) = Elems(v) \cap S
  BY <1>2, PickIsSeq, ElemsPick, Zenon
<1>4. DataOf(id, e) \in Seq(Frames) /\ CreditOf(id, e) \in Seq(Frames)
  BY <1>1, <1>3 DEF DataOf, CreditOf
<1>5. Elems(DataOf(id, e)) = Elems(e.line) \cap OfType(id, "Data")
  BY <1>1, <1>3 DEF DataOf
<1> QED
  BY <1>4, <1>5, FramesArePieces, SumsAre

-----------------------------------------------------------------------------
Joined(v, w) ==
    /\ v \o w \in Seq(Frames) /\ Elems(v \o w) = Elems(v) \cup Elems(w)
    /\ v # << >> => /\ Head(v \o w) = Head(v) /\ Tail(v) \in Seq(Frames)
                    /\ Tail(v \o w) = Tail(v) \o w
                    /\ Elems(Tail(v \o w)) = Elems(Tail(v)) \cup Elems(w)

LEMMA FramesJoin ==
    ASSUME NEW v \in Seq(Frames), NEW w \in Seq(Frames)
    PROVE  Joined(v, w)
<1>1. v \o w \in Seq(Frames)
  OBVIOUS
<1>2. Elems(v \o w) = Elems(v) \cup Elems(w)
  BY ElemsJoin, ZenonT(40)
<1>3. ASSUME v # << >>
      PROVE  /\ Head(v \o w) = Head(v) /\ Tail(v) \in Seq(Frames)
             /\ Tail(v \o w) = Tail(v) \o w
             /\ Elems(Tail(v \o w)) = Elems(Tail(v)) \cup Elems(w)
  <2>1. Head(v \o w) = Head(v) /\ Tail(v) \in Seq(Frames)
    BY <1>3
  <2>2. Tail(v \o w) = Tail(v) \o w
    BY <1>3
  <2>3. PICK u : u = Tail(v)
    OBVIOUS
  <2>4. u \in Seq(Frames)
    BY <2>1, <2>3
  <2>5. Elems(u \o w) = Elems(u) \cup Elems(w)
    BY <2>4, ElemsJoin, ZenonT(40)
  <2> QED
    BY <2>1, <2>2, <2>3, <2>5, Zenon
<1> QED
  BY <1>1, <1>2, <1>3, Zenon DEF Joined

(* Frames f are sent, and the window goes down from w to w2; meanwhile     *)
(* credit may have come, of c - c2.                                        *)
CreditSpent(w, w2, c, c2, f, d, r) ==
    /\ w2 + (d + f) + c2 = w + d + c
    /\ w + d + c <= r => d + f <= r /\ d <= r /\ w2 + (d + f) + c2 <= r /\ w2 + d + c2 <= r

LEMMA CreditMoves ==
    ASSUME NEW w \in Nat, NEW w2 \in Nat, NEW c \in Nat, NEW c2 \in Nat, NEW f \in Nat,
           NEW d \in Nat, NEW r \in Nat, w2 + f + c2 = w + c
    PROVE  CreditSpent(w, w2, c, c2, f, d, r)
BY DEF CreditSpent

(* What each operation does to the two ends of the stream it is about: p's *)
(* end e becomes e2, and its peer's end g becomes g2.                      *)

(* A direction, from g to e, that an operation leaves as it is.            *)
Unmoved(id, g, e, g2, e2) ==
    /\ ~(Blank(g) /\ Blank(e)) /\ g.next <= g2.next
    /\ ~Opens(id, g) /\ ~Opens(id, g2)
    /\ g2.known = g.known /\ g2.up = g.up /\ e2.known = e.known /\ e2.up = e.up
    /\ g2.s.localClosed = g.s.localClosed /\ g2.s.sendWindow = g.s.sendWindow
    /\ g2.s.pendingData = g.s.pendingData /\ g2.accepted = g.accepted
    /\ e2.s.remoteClosed = e.s.remoteClosed /\ e2.s.recvWindow = e.s.recvWindow
    /\ e2.delivered = e.delivered
    /\ DataOf(id, g2) = DataOf(id, g) /\ (Ended(g2) <=> Ended(g))
    /\ g.known => LengthOf(CreditOf(id, e2)) = LengthOf(CreditOf(id, e))
    /\ Accounted(g) => Accounted(g2)

LEMMA OtherWay ==
    ASSUME NEW q, NEW id \in Nat, NEW g, NEW e, NEW g2, NEW e2,
           EndOK(id, e), EndOK(id, g), EndOK(id, e2), EndOK(id, g2), Sound(q, id, g, e),
           Unmoved(id, g, e, g2, e2)
    PROVE  Sound(q, id, g2, e2)
<1>2. Unopened(q, id, g2, e2)
  <2>1. g.next \in Nat /\ g2.next \in Nat /\ g.next <= g2.next /\ ~(Blank(g) /\ Blank(e))
    BY DEF EndOK, Unmoved
  <2>2. ~(Owner(id) = q /\ id >= g.next)
    BY <2>1 DEF Sound, Unopened
  <2> QED
    BY <2>1, <2>2 DEF Unopened
<1>3. AtSyn(q, id, g2, e2)
  BY DEF AtSyn, Unmoved
<1>4. Awaited(id, g2, e2) <=> Awaited(id, g, e)
  BY DEF Awaited, Unmoved
<1>5. Closes(id, g2, e2)
  BY <1>4 DEF Sound, Closes, Unmoved
<1>6. Carried(id, g2, e2)
  BY <1>4 DEF Sound, Carried, Unmoved
<1>7. Covered(id, g2, e2)
  BY <1>4 DEF Sound, Covered, Unmoved
<1>8. Accounted(g2)
  BY DEF Sound, Unmoved
<1> QED
  BY <1>2, <1>3, <1>5, <1>6, <1>7, <1>8 DEF Sound

(* sendToStream, and processPending when credit has come.                  *)
Sends(id, e, g, e2, g2, fs) ==
    /\ e.known /\ e2.known /\ e2.up = e.up
    /\ e2.line = e.line \o IF e.up THEN fs ELSE << >>
    /\ e2.owed = e.owed /\ e2.delivered = e.delivered /\ e2.next = e.next
    /\ e.accepted <= e2.accepted
    /\ e2.s.recvWindow = e.s.recvWindow /\ e2.s.unackedRecvBytes = e.s.unackedRecvBytes
    /\ e2.s.localClosed = e.s.localClosed /\ e2.s.remoteClosed = e.s.remoteClosed
    /\ e.up => /\ Splits(e.s.pendingData, e.accepted, fs, e2.s.pendingData, e2.accepted)
               /\ e2.s.pendingData # << >> => e2.s.sendWindow = 0
    /\ e2.s.sendWindow + LengthOf(fs) + LengthOf(CreditOf(id, g2))
           = e.s.sendWindow + LengthOf(CreditOf(id, g))
    /\ ~Opens(id, g2) /\ DataOf(id, g2) = DataOf(id, g) /\ (Ended(g2) <=> Ended(g))
    /\ g2.owed = g.owed /\ g2.known = g.known /\ g2.up = g.up /\ g2.s = g.s
    /\ g2.accepted = g.accepted /\ g2.delivered = g.delivered /\ g2.next = g.next
    /\ g2.line = g.line \/ g.line # << >>

LEMMA SendsSound ==
    ASSUME NEW p \in Peers, NEW id \in Ids, NEW e, NEW g, NEW e2, NEW g2,
           Pair(p, id, e, g), EndOK(id, e2), EndOK(id, g2),
           NEW fs \in Seq(PayloadFrames(id)), Sends(id, e, g, e2, g2, fs)
    PROVE  Pair(p, id, e2, g2)
<1>0. /\ EndOK(id, e) /\ EndOK(id, g) /\ id \in Nat
      /\ Sound(p, id, e, g) /\ Sound(Other(p), id, g, e)
  BY TunnelAssumption DEF Pair
<1>1. PICK sent : sent = IF e.up THEN fs ELSE << >>
  OBVIOUS
<1>2. sent \in Seq(PayloadFrames(id)) /\ e2.line = e.line \o sent
  <2>1. << >> \in Seq(PayloadFrames(id))
    OBVIOUS
  <2> QED
    BY <1>1, <2>1 DEF Sends
<1>3. PayloadFrames(id) \subseteq StreamFrames(id) /\ PayloadFrames(id) \subseteq Frames
      /\ sent \in Seq(StreamFrames(id)) /\ sent \in Seq(Frames) /\ fs \in Seq(Frames)
      /\ Elems(sent) \subseteq PayloadFrames(id) /\ Elems(fs) \subseteq PayloadFrames(id)
  <2>1. PayloadFrames(id) \subseteq StreamFrames(id) /\ PayloadFrames(id) \subseteq Frames
    BY DEF PayloadFrames, StreamFrames, OfId
  <2>2. sent \in Seq(StreamFrames(id)) /\ sent \in Seq(Frames) /\ fs \in Seq(Frames)
    BY <1>2, <2>1
  <2>3. Elems(sent) \subseteq PayloadFrames(id) /\ Elems(fs) \subseteq PayloadFrames(id)
    BY <1>2, ElemsType
  <2> QED
    BY <2>1, <2>2, <2>3
<1>4. Pick(sent, OfType(id, "Data")) = sent /\ Pick(sent, OfType(id, "WindowUpdate")) = << >>
  <2>1. /\ PayloadFrames(id) \subseteq OfType(id, "Data")
        /\ PayloadFrames(id) \cap OfType(id, "WindowUpdate") = {}
    BY FrameKinds DEF PayloadFrames
  <2> QED
    BY <1>2, <1>3, <2>1, PickAll, SMTT(30)
<1>5. PICK d \in Seq(Frames) : d = DataOf(id, e)
  BY <1>0, LineLengths DEF EndOK
<1>6. /\ DataOf(id, e2) = d \o sent
      /\ CreditOf(id, e2) = CreditOf(id, e)
      /\ Elems(e2.line) = Elems(e.line) \cup Elems(sent)
      /\ Opens(id, e2) <=> Opens(id, e)
      /\ Ended(e2) <=> Ended(e)
  <2>1. e.line \in Seq(StreamFrames(id))
    BY <1>0 DEF EndOK
  <2>2. /\ DataOf(id, e2) = DataOf(id, e) \o Pick(sent, OfType(id, "Data"))
        /\ CreditOf(id, e2) = CreditOf(id, e) \o Pick(sent, OfType(id, "WindowUpdate"))
        /\ Elems(e2.line) = Elems(e.line) \cup Elems(sent)
        /\ Opens(id, e2) <=> Opens(id, e) \/ Syn(id) \in Elems(sent)
        /\ Ended(e2) <=> Ended(e) \/ \E f \in Elems(sent) : f.flag \in FinFlags
    <3>1. Grew(id, e, e2, sent)
      BY <1>2, <1>3, <2>1, LineGrows
    <3> QED
      BY <3>1, Zenon DEF Grew
  <2>3. PICK c \in Seq(Frames) : c = CreditOf(id, e)
    BY <2>1, LineLengths
  <2>4. c \o << >> = c
    OBVIOUS
  <2>5. Syn(id) \notin Elems(sent) /\ ~ \E f \in Elems(sent) : f.flag \in FinFlags
    BY <1>3, FrameKinds DEF PayloadFrames, FinFlags
  <2> QED
    BY <1>4, <1>5, <2>2, <2>3, <2>4, <2>5, Zenon
<1>7. Sound(Other(p), id, g2, e2)
  <2>1. ~Blank(e) /\ LengthOf(CreditOf(id, e2)) = LengthOf(CreditOf(id, e))
        /\ e2.known = e.known
    BY <1>0, <1>6 DEF Blank, Sends, EndOK
  <2>2. ~Opens(id, g) /\ g.next \in Nat
    BY <1>0, <2>1 DEF Sound, AtSyn, EndOK
  <2>3. Accounted(g) => Accounted(g2)
    BY DEF Accounted, Sends
  <2>4. Unmoved(id, g, e, g2, e2)
    BY <2>1, <2>2, <2>3 DEF Sends, Unmoved
  <2> QED
    BY <1>0, <2>4, OtherWay, Zenon
<1>8. Unopened(p, id, e2, g2)
  BY <1>0 DEF Sound, Unopened, Blank, Sends
<1>9. AtSyn(p, id, e2, g2)
  <2>1. SUFFICES ASSUME Opens(id, e) PROVE AtSyn(p, id, e2, g2)
    BY <1>6 DEF AtSyn
  <2>2. /\ Owner(id) = p /\ Head(e.line) = Syn(id) /\ \A f \in Elems(Tail(e.line)) : f.type = "Data"
        /\ e.owed = {} /\ e.s.recvWindow = InitialWindow /\ ~e.s.remoteClosed
        /\ e.s.unackedRecvBytes = 0 /\ e.delivered = 0 /\ Blank(g)
    BY <1>0, <2>1 DEF Sound, AtSyn
  <2>3. PICK v \in Seq(Frames) : v = e.line
    BY <1>0, StreamLine DEF EndOK
  <2>4. v # << >>
    BY <2>1, <2>3, ElemsFew DEF Opens
  <2>5. sent \in Seq(Frames) /\ Joined(v, sent)
    BY <1>3, FramesJoin
  <2>6. Head(v \o sent) = Head(v) /\ Elems(Tail(v \o sent)) = Elems(Tail(v)) \cup Elems(sent)
    BY <2>4, <2>5 DEF Joined
  <2>7. Head(e2.line) = Syn(id) /\ \A f \in Elems(Tail(e2.line)) : f.type = "Data"
    <3>1. e2.line = v \o sent
      BY <1>2, <2>3
    <3>2. \A f \in Elems(sent) : f.type = "Data"
      BY <1>3 DEF PayloadFrames
    <3>3. \A f \in Elems(Tail(v \o sent)) : f.type = "Data"
      BY <2>2, <2>3, <2>6, <3>2, Zenon
    <3> QED
      BY <2>2, <2>3, <2>6, <3>1, <3>3, Zenon
  <2>8. Blank(g2)
    BY <2>2 DEF Blank, Sends
  <2> QED
    BY <2>2, <2>7, <2>8 DEF AtSyn, Sends
<1>10. Awaited(id, e2, g2) <=> Awaited(id, e, g)
  BY <1>6 DEF Awaited, Sends
<1>11. Closes(id, e2, g2)
  BY <1>0, <1>6, <1>10 DEF Sound, Closes, Sends
<1>12. LengthOf(d \o sent) = LengthOf(d) + LengthOf(sent) /\ LengthOf(d) \in Nat
       /\ LengthOf(fs) \in Nat /\ (e.up => sent = fs) /\ (~e.up => sent = << >> /\ LengthOf(sent) = 0)
  <2>1. d \in Seq(Pieces) /\ sent \in Seq(Pieces) /\ fs \in Seq(Pieces)
    BY <1>3, <1>5, FramesArePieces
  <2>2. LengthOf(d \o sent) = LengthOf(d) + LengthOf(sent)
    BY <2>1, SumsJoin, Zenon
  <2> QED
    BY <1>1, <2>1, <2>2, SumsAre, LengthOfFew
<1>13. Covered(id, e2, g2)
  <2>1. SUFFICES ASSUME Awaited(id, e, g)
                 PROVE  /\ LengthOf(d \o sent) <= g.s.recvWindow
                        /\ e2.s.sendWindow + LengthOf(d \o sent) + LengthOf(CreditOf(id, g2))
                               <= g.s.recvWindow
                        /\ e.up /\ g.up =>
                             e2.s.sendWindow + LengthOf(d \o sent) + LengthOf(CreditOf(id, g2))
                                 = g.s.recvWindow
    BY <1>6, <1>10 DEF Covered, Sends
  <2>2. /\ e.s.sendWindow + LengthOf(d) + LengthOf(CreditOf(id, g)) <= g.s.recvWindow
        /\ e.up /\ g.up =>
             e.s.sendWindow + LengthOf(d) + LengthOf(CreditOf(id, g)) = g.s.recvWindow
    BY <1>0, <1>5, <2>1 DEF Sound, Covered, Sends
  <2>3. /\ LengthOf(CreditOf(id, g)) \in Nat /\ LengthOf(CreditOf(id, g2)) \in Nat
        /\ e.s.sendWindow \in Nat /\ e2.s.sendWindow \in Nat /\ g.s.recvWindow \in Nat
    BY <1>0, LineLengths, StreamFields DEF EndOK
  <2>4. e2.s.sendWindow + LengthOf(fs) + LengthOf(CreditOf(id, g2))
            = e.s.sendWindow + LengthOf(CreditOf(id, g))
    BY DEF Sends
  <2>5. LengthOf(d) \in Nat /\ LengthOf(fs) \in Nat
    BY <1>12
  <2>6. CreditSpent(e.s.sendWindow, e2.s.sendWindow, LengthOf(CreditOf(id, g)),
                    LengthOf(CreditOf(id, g2)), LengthOf(fs), LengthOf(d), g.s.recvWindow)
    BY <2>3, <2>4, <2>5, CreditMoves
  <2>7. CASE e.up
    <3>1. LengthOf(d \o sent) = LengthOf(d) + LengthOf(fs)
      BY <1>12, <2>7
    <3> QED
      BY <2>2, <2>6, <3>1, Zenon DEF CreditSpent
  <2>8. CASE ~e.up
    <3>1. LengthOf(d \o sent) = LengthOf(d)
      BY <1>12, <2>8
    <3> QED
      BY <2>2, <2>6, <2>8, <3>1, Zenon DEF CreditSpent
  <2> QED
    BY <2>7, <2>8
<1>14. Carried(id, e2, g2)
  <2>0. PICK live : live = (e.up /\ e.known)
    OBVIOUS
  <2>1. SUFFICES ASSUME Awaited(id, e, g)
                 PROVE  CarriedBy(d \o sent, e2.s.pendingData, g.delivered, e2.accepted, live)
    BY <1>6, <1>10, <2>0 DEF Carried, Sends
  <2>2. CarriedBy(d, e.s.pendingData, g.delivered, e.accepted, live)
    BY <1>0, <1>5, <2>0, <2>1 DEF Sound, Carried
  <2>3. /\ g.delivered \in Nat /\ e.accepted \in Nat /\ e2.accepted \in Nat
        /\ e.accepted <= e2.accepted
        /\ e.s.pendingData \in Seq(Ranges) /\ e2.s.pendingData \in Seq(Ranges)
    <3>1. g.delivered \in Nat /\ e.accepted \in Nat /\ e2.accepted \in Nat
      BY <1>0, EndNumbers, Zenon
    <3>2. e.accepted <= e2.accepted
      BY DEF Sends
    <3>3. e.s.pendingData \in Seq(Ranges) /\ e2.s.pendingData \in Seq(Ranges)
      BY <1>0, StreamFields DEF EndOK
    <3> QED
      BY <3>1, <3>2, <3>3
  <2>4. CASE ~e.up
    <3>1. d \o << >> = d /\ sent = << >>
      BY <1>12, <2>4
    <3>2. CarriedBy(d, e2.s.pendingData, g.delivered, e2.accepted, live)
      <4>1. ~live
        BY <2>0, <2>4
      <4> QED
        BY <2>2, <2>3, <4>1, CarriedDead
    <3> QED
      BY <3>1, <3>2
  <2>5. CASE e.up /\ \E f \in Elems(d) : f.flag # "none"
    <3>1. PICK f \in Elems(d) : f.flag # "none"
      BY <2>5
    <3> QED
      BY <1>3, <2>2, <2>3, <3>1, CarriedBehind
  <2>6. CASE e.up /\ \A f \in Elems(d) : f.flag = "none"
    <3>1. \A f \in Elems(sent) : f.flag = "none"
      BY <1>3 DEF PayloadFrames
    <3>2. Splits(e.s.pendingData, e.accepted, sent, e2.s.pendingData, e2.accepted)
      BY <1>12, <2>6 DEF Sends
    <3>3. live => live
      OBVIOUS
    <3>4. live
      <4>1. e.known
        BY DEF Sends
      <4> QED
        BY <2>0, <2>6, <4>1
    <3> QED
      BY <1>3, <2>2, <2>3, <2>6, <3>1, <3>2, <3>3, <3>4, CarriedMore
  <2> QED
    BY <2>4, <2>5, <2>6
<1>15. Accounted(e2)
  BY <1>0 DEF Sound, Accounted, Sends
<1> QED
  BY <1>7, <1>8, <1>9, <1>11, <1>13, <1>14, <1>15 DEF Pair, Sound

(* Nothing of a stream is under way.                                       *)
EmptyLine(id, e) == /\ DataOf(id, e) = << >> /\ CreditOf(id, e) = << >>
                    /\ LengthOf(DataOf(id, e)) = 0 /\ LengthOf(CreditOf(id, e)) = 0
                    /\ ~Opens(id, e) /\ ~Ended(e)

LEMMA LineEmpty ==
    ASSUME NEW id, NEW e, e.line = << >>
    PROVE  EmptyLine(id, e)
<1>1. \A S : Pick(<< >>, S) = << >>
  BY PickAppend, Zenon
<1>2. DataOf(id, e) = << >> /\ CreditOf(id, e) = << >>
  BY <1>1 DEF DataOf, CreditOf
<1>3. ~Opens(id, e) /\ ~Ended(e)
  BY ElemsFew DEF Opens, Ended
<1> QED
  BY <1>2, <1>3, LengthOfFew DEF EmptyLine

LEMMA CarriedNone ==
    ASSUME NEW live
    PROVE  CarriedBy(<< >>, << >>, 0, 0, live)
<1>1. << >> \in Seq(Frames) /\ << >> = << >> \o << >>
  OBVIOUS
<1>2. PICK z \in Nat : z = LengthOf(<< >>) /\ z = 0
  BY LengthOfFew
<1>3. Chain(<< >>, 0) /\ Chain(<< >>, 0 + LengthOf(<< >>))
  <2>1. 0 + LengthOf(<< >>) = 0
    BY <1>2
  <2> QED
    BY <2>1, ChainFew
<1>4. 0 + LengthOf(<< >>) <= 0 /\ 0 + LengthOf(<< >>) + LengthOf(<< >>) = 0
  BY <1>2
<1>5. \A f \in Elems(<< >>) : f.flag = "none"
  BY ElemsFew
<1> QED
  BY <1>1, <1>3, <1>4, <1>5 DEF CarriedBy

(* openStream.                                                             *)
Begins(id, e, g, e2, g2) ==
    /\ Blank(e) /\ Blank(g) /\ g2 = g
    /\ e2.line = IF e.up THEN <<Syn(id)>> ELSE << >>
    /\ e2.owed = {} /\ e2.known /\ e2.s = NewStream /\ e2.up = e.up
    /\ e2.accepted = 0 /\ e2.delivered = 0 /\ e2.next = id + 2

LEMMA BeginsSound ==
    ASSUME NEW p \in Peers, NEW id \in Ids, NEW e, NEW g, NEW e2, NEW g2,
           Pair(p, id, e, g), EndOK(id, e2), Owner(id) = p, Begins(id, e, g, e2, g2)
    PROVE  Pair(p, id, e2, g2)
<1>0. /\ EndOK(id, e) /\ EndOK(id, g) /\ id \in Nat /\ g2 = g /\ EndOK(id, g2)
      /\ Other(p) # p
  BY TunnelAssumption, Peering DEF Pair, Begins
<1>1. EmptyLine(id, e) /\ EmptyLine(id, g)
  BY LineEmpty DEF Begins, Blank
<1>2. /\ DataOf(id, e2) = << >> /\ LengthOf(DataOf(id, e2)) = 0
      /\ LengthOf(CreditOf(id, e2)) = 0 /\ ~Ended(e2)
      /\ Opens(id, e2) <=> e.up
  <2>1. CASE e.up
    <3>1. Syn(id) \in StreamFrames(id) /\ Syn(id).type = "WindowUpdate"
          /\ Syn(id).length = 0 /\ Syn(id).flag = "SYN"
      BY TunnelAssumption DEF Syn, Frame, StreamFrames, GoodFrames, Frames, OfId
    <3>2. PICK fs : fs = <<Syn(id)>>
      OBVIOUS
    <3>3. fs \in Seq(StreamFrames(id)) /\ e.line \in Seq(StreamFrames(id))
          /\ e2.line = e.line \o fs
      BY <2>1, <3>1, <3>2, <1>0 DEF Begins, Blank, EndOK
    <3>4. Grew(id, e, e2, fs)
      BY <3>3, LineGrows
    <3>5. Elems(fs) = {Syn(id)}
      BY <3>2, ElemsFew
    <3>6. Syn(id) \in Frames /\ Syn(id) \in OfType(id, "WindowUpdate")
          /\ Syn(id) \notin OfType(id, "Data")
      BY <3>1, FrameKinds
    <3>7. Pick(fs, OfType(id, "Data")) = << >> /\ Pick(fs, OfType(id, "WindowUpdate")) = fs
      BY <3>2, <3>6, PickOne
    <3>8. << >> \o fs = fs /\ << >> \o << >> = << >>
      BY <3>3
    <3>9. DataOf(id, e2) = << >> /\ CreditOf(id, e2) = fs
      BY <1>1, <3>4, <3>7, <3>8 DEF EmptyLine, Grew
    <3>10. LengthOf(fs) = 0
      <4>1. Syn(id) \in Pieces
        BY <3>6 DEF Pieces
      <4> QED
        BY <3>1, <3>2, <4>1, LengthOfFew
    <3>11. ~Ended(e2) /\ Opens(id, e2)
      BY <1>1, <3>1, <3>4, <3>5 DEF EmptyLine, Grew, FinFlags
    <3> QED
      BY <2>1, <3>9, <3>10, <3>11, LengthOfFew
  <2>2. CASE ~e.up
    BY <2>2, LineEmpty DEF Begins, EmptyLine
  <2> QED
    BY <2>1, <2>2
<1>3. /\ e2.known /\ e2.s = NewStream /\ ~g2.known /\ g2.s = NewStream
      /\ e2.delivered = 0 /\ e2.accepted = 0 /\ g2.delivered = 0 /\ g2.accepted = 0
      /\ e2.owed = {} /\ Blank(g2) /\ e2.next = id + 2 /\ EmptyLine(id, g2)
  BY <1>0, <1>1 DEF Begins, Blank, EndOK
<1>4. Sound(p, id, e2, g2)
  <2>1. Unopened(p, id, e2, g2)
    BY <1>0, <1>3 DEF Unopened
  <2>2. AtSyn(p, id, e2, g2)
    <3>1. ASSUME e.up
          PROVE  Head(e2.line) = Syn(id) /\ \A f \in Elems(Tail(e2.line)) : f.type = "Data"
      <4>1. e2.line = <<Syn(id)>>
        BY <3>1 DEF Begins
      <4>2. Tail(e2.line) = << >> /\ Head(e2.line) = Syn(id)
        BY <4>1
      <4> QED
        BY <4>2, ElemsFew
    <3> QED
      BY <1>2, <1>3, <3>1, NewStreamFields DEF AtSyn
  <2>3. Closes(id, e2, g2)
    BY <1>2, <1>3, NewStreamFields DEF Closes
  <2>4. Carried(id, e2, g2)
    BY <1>2, <1>3, NewStreamFields, CarriedNone DEF Carried
  <2>5. Covered(id, e2, g2)
    BY <1>2, <1>3, NewStreamFields DEF Covered, EmptyLine
  <2>6. Accounted(e2)
    BY <1>3, NewStreamFields DEF Accounted
  <2> QED
    BY <2>1, <2>2, <2>3, <2>4, <2>5, <2>6 DEF Sound
<1>5. Sound(Other(p), id, g2, e2)
  <2>1. Unopened(Other(p), id, g2, e2)
    BY <1>0 DEF Unopened
  <2>2. AtSyn(Other(p), id, g2, e2)
    BY <1>3 DEF AtSyn, EmptyLine
  <2>3. Closes(id, g2, e2)
    BY <1>3 DEF Closes
  <2>4. Carried(id, g2, e2)
    BY <1>3, NewStreamFields, CarriedNone DEF Carried, EmptyLine
  <2>5. Covered(id, g2, e2)
    BY <1>3, NewStreamFields DEF Covered, EmptyLine
  <2>6. Accounted(g2)
    BY <1>3 DEF Accounted
  <2> QED
    BY <2>1, <2>2, <2>3, <2>4, <2>5, <2>6 DEF Sound
<1> QED
  BY <1>0, <1>4, <1>5 DEF Pair

(* One frame is sent, or taken from the peer's line.                       *)
SentOne(id, e, e2, f) ==
    /\ f.type = "Data" => /\ DataOf(id, e2) = DataOf(id, e) \o <<f>>
                          /\ LengthOf(DataOf(id, e2)) = LengthOf(DataOf(id, e)) + f.length
                          /\ CreditOf(id, e2) = CreditOf(id, e)
    /\ f.type = "WindowUpdate" =>
           /\ DataOf(id, e2) = DataOf(id, e)
           /\ LengthOf(CreditOf(id, e2)) = LengthOf(CreditOf(id, e)) + f.length
    /\ Opens(id, e2) <=> Opens(id, e) \/ f = Syn(id)
    /\ Ended(e2) <=> Ended(e) \/ f.flag \in FinFlags
    /\ e.line # << >> => /\ Head(e2.line) = Head(e.line)
                         /\ Elems(Tail(e2.line)) = Elems(Tail(e.line)) \cup {f}

LEMMA SendOne ==
    ASSUME NEW id \in Ids, NEW e, NEW e2, NEW f \in StreamFrames(id),
           e.line \in Seq(StreamFrames(id)), e2.line = e.line \o <<f>>
    PROVE  SentOne(id, e, e2, f)
<1>1. PICK fs : fs = <<f>>
  OBVIOUS
<1>2. /\ fs \in Seq(StreamFrames(id)) /\ e2.line = e.line \o fs /\ Elems(fs) = {f}
      /\ f \in Frames /\ \A t : f \in OfType(id, t) <=> f.type = t
  BY <1>1, ElemsFew, FrameKinds
<1>3. Grew(id, e, e2, fs)
  BY <1>2, LineGrows
<1>4. PICK d \in Seq(Frames), c \in Seq(Frames) : d = DataOf(id, e) /\ c = CreditOf(id, e)
  BY LineLengths
<1>5. /\ Pick(fs, OfType(id, "Data")) = IF f.type = "Data" THEN fs ELSE << >>
      /\ Pick(fs, OfType(id, "WindowUpdate")) = IF f.type = "WindowUpdate" THEN fs ELSE << >>
  BY <1>1, <1>2, PickOne
<1>6. d \o << >> = d /\ c \o << >> = c
  OBVIOUS
<1>7. /\ f.type = "Data" => DataOf(id, e2) = d \o fs /\ CreditOf(id, e2) = c
      /\ f.type = "WindowUpdate" => DataOf(id, e2) = d /\ CreditOf(id, e2) = c \o fs
  BY <1>3, <1>4, <1>5, <1>6 DEF Grew
<1>8. LengthOf(d \o fs) = LengthOf(d) + f.length /\ LengthOf(c \o fs) = LengthOf(c) + f.length
  <2>1. fs \in Seq(Frames) /\ f \in Pieces /\ fs \in Seq(Pieces) /\ d \in Seq(Pieces) /\ c \in Seq(Pieces)
    BY <1>1, <1>2, FramesArePieces DEF Pieces
  <2>2. LengthOf(fs) = f.length
    BY <1>1, <2>1, LengthOfFew
  <2>3. LengthOf(d \o fs) = LengthOf(d) + LengthOf(fs) /\ LengthOf(c \o fs) = LengthOf(c) + LengthOf(fs)
    BY <2>1, SumsJoin, Zenon
  <2> QED
    BY <2>2, <2>3
<1>9. ASSUME e.line # << >>
      PROVE  /\ Head(e2.line) = Head(e.line)
             /\ Elems(Tail(e2.line)) = Elems(Tail(e.line)) \cup {f}
  <2>1. e.line \in Seq(Frames) /\ fs \in Seq(Frames)
    BY <1>2, StreamLine
  <2>2. Joined(e.line, fs)
    BY <2>1, FramesJoin
  <2> QED
    BY <1>2, <1>9, <2>2 DEF Joined
<1>10. /\ Opens(id, e2) <=> Opens(id, e) \/ f = Syn(id)
       /\ Ended(e2) <=> Ended(e) \/ f.flag \in FinFlags
  BY <1>2, <1>3, Zenon DEF Grew
<1> QED
  BY <1>1, <1>4, <1>7, <1>8, <1>9, <1>10 DEF SentOne

TookOne(id, g, g2, f) ==
    /\ g.line # << >> /\ ~Blank(g) /\ Head(g.line) = f /\ Tail(g.line) = g2.line
    /\ f.type = "Data" => /\ DataOf(id, g) = <<f>> \o DataOf(id, g2)
                          /\ LengthOf(DataOf(id, g)) = f.length + LengthOf(DataOf(id, g2))
                          /\ CreditOf(id, g2) = CreditOf(id, g)
    /\ f.type = "WindowUpdate" =>
           /\ DataOf(id, g2) = DataOf(id, g)
           /\ LengthOf(CreditOf(id, g)) = f.length + LengthOf(CreditOf(id, g2))
    /\ Opens(id, g) <=> Opens(id, g2) \/ f = Syn(id)
    /\ Ended(g) <=> Ended(g2) \/ f.flag \in FinFlags

LEMMA TakeOne ==
    ASSUME NEW id \in Ids, NEW g, NEW g2, NEW f \in StreamFrames(id),
           g2.line \in Seq(StreamFrames(id)), g.line = <<f>> \o g2.line
    PROVE  TookOne(id, g, g2, f)
<1>1. Shrank(id, g, g2, f)
  BY LineShrinks
<1>2. PICK d \in Seq(Frames), c \in Seq(Frames) : d = DataOf(id, g2) /\ c = CreditOf(id, g2)
  BY LineLengths
<1>3. LengthOf(<<f>> \o d) = f.length + LengthOf(d) /\ LengthOf(<<f>> \o c) = f.length + LengthOf(c)
  <2>1. f \in Pieces /\ d \in Seq(Pieces) /\ c \in Seq(Pieces)
    BY FrameKinds, FramesArePieces DEF Pieces
  <2> QED
    BY <2>1, OneBefore, Zenon
<1>4. ~Blank(g)
  BY <1>1 DEF Shrank, Blank
<1> QED
  BY <1>1, <1>2, <1>3, <1>4 DEF Shrank, TookOne

(* closeStream: FIN or RST goes out, if the connection is up.              *)
Shuts(e, g, e2, g2, f) ==
    /\ g2 = g /\ e.known /\ ~e.s.localClosed
    /\ f.type = "Data" /\ f.flag \in FinFlags /\ f.length = 0
    /\ e2.line = IF e.up THEN e.line \o <<f>> ELSE e.line
    /\ e2.s = Closed(e.s) /\ e2.known /\ e2.up = e.up /\ e2.owed = e.owed
    /\ e2.accepted = e.accepted /\ e2.delivered = e.delivered /\ e2.next = e.next

LEMMA ClosedFields ==
    ASSUME NEW s \in Stream
    PROVE  /\ Closed(s) \in Stream /\ Closed(s).localClosed
           /\ Closed(s).sendWindow = s.sendWindow /\ Closed(s).recvWindow = s.recvWindow
           /\ Closed(s).unackedRecvBytes = s.unackedRecvBytes
           /\ Closed(s).remoteClosed = s.remoteClosed /\ Closed(s).pendingData = s.pendingData
BY DEF Closed, Stream

LEMMA ShutsSound ==
    ASSUME NEW p \in Peers, NEW id \in Ids, NEW e, NEW g, NEW e2, NEW g2,
           Pair(p, id, e, g), EndOK(id, e2), NEW f \in StreamFrames(id), Shuts(e, g, e2, g2, f)
    PROVE  Pair(p, id, e2, g2)
<1>0. /\ EndOK(id, e) /\ EndOK(id, g) /\ id \in Nat /\ g2 = g /\ e.s \in Stream
      /\ Sound(p, id, e, g) /\ Sound(Other(p), id, g, e) /\ ~Blank(e)
  BY TunnelAssumption DEF Pair, Shuts, Blank, EndOK
<1>1. ASSUME e.up PROVE SentOne(id, e, e2, f)
  <2>1. e.line \in Seq(StreamFrames(id)) /\ e2.line = e.line \o <<f>>
    BY <1>0, <1>1 DEF EndOK, Shuts
  <2> QED
    BY <2>1, SendOne
<1>2. ASSUME ~e.up
      PROVE  /\ e2.line = e.line /\ DataOf(id, e2) = DataOf(id, e)
             /\ CreditOf(id, e2) = CreditOf(id, e)
             /\ Opens(id, e2) <=> Opens(id, e)
  <2>1. e2.line = e.line
    BY <1>2 DEF Shuts
  <2> QED
    BY <2>1 DEF DataOf, CreditOf, Opens
<1>3. PICK d \in Seq(Frames) : d = DataOf(id, e) /\ LengthOf(d) \in Nat
  BY <1>0, LineLengths DEF EndOK
<1>4. /\ LengthOf(DataOf(id, e2)) = LengthOf(d) /\ CreditOf(id, e2) = CreditOf(id, e)
      /\ Opens(id, e2) <=> Opens(id, e)
      /\ e.up => Ended(e2)
  <2>1. f # Syn(id) /\ f.length = 0 /\ f.type = "Data"
    BY FrameKinds DEF Shuts
  <2> QED
    BY <1>1, <1>2, <1>3, <2>1 DEF SentOne, Shuts
<1>5. /\ e2.s.localClosed /\ e2.s.sendWindow = e.s.sendWindow
      /\ e2.s.recvWindow = e.s.recvWindow /\ e2.s.unackedRecvBytes = e.s.unackedRecvBytes
      /\ e2.s.remoteClosed = e.s.remoteClosed /\ e2.s.pendingData = e.s.pendingData
  BY <1>0, ClosedFields DEF Shuts
<1>6. Sound(Other(p), id, g2, e2)
  <2>1. ~Opens(id, g) /\ g.next \in Nat /\ e2.known = e.known
    BY <1>0 DEF Sound, AtSyn, EndOK, Shuts
  <2>2. Unmoved(id, g, e, g2, e2)
    BY <1>0, <1>4, <1>5, <2>1 DEF Shuts, Unmoved
  <2> QED
    BY <1>0, <2>2, OtherWay, Zenon
<1>7. Unopened(p, id, e2, g2)
  BY <1>0 DEF Sound, Unopened, Shuts
<1>8. AtSyn(p, id, e2, g2)
  <2>1. SUFFICES ASSUME Opens(id, e) PROVE AtSyn(p, id, e2, g2)
    BY <1>4 DEF AtSyn
  <2>2. /\ Owner(id) = p /\ Head(e.line) = Syn(id) /\ \A x \in Elems(Tail(e.line)) : x.type = "Data"
        /\ e.owed = {} /\ e.s.recvWindow = InitialWindow /\ ~e.s.remoteClosed
        /\ e.s.unackedRecvBytes = 0 /\ e.delivered = 0 /\ Blank(g)
    BY <1>0, <2>1 DEF Sound, AtSyn
  <2>3. e.line # << >>
    BY <2>1, ElemsFew DEF Opens
  <2>4. Head(e2.line) = Syn(id) /\ \A x \in Elems(Tail(e2.line)) : x.type = "Data"
    BY <1>1, <1>2, <2>2, <2>3 DEF SentOne, Shuts
  <2> QED
    BY <1>0, <1>5, <2>2, <2>4 DEF AtSyn, Shuts
<1>9. Awaited(id, e2, g2) <=> Awaited(id, e, g)
  BY <1>0, <1>4 DEF Awaited
<1>10. Closes(id, e2, g2)
  BY <1>4, <1>5 DEF Closes, Shuts
<1>11. Carried(id, e2, g2)
  <2>1. SUFFICES ASSUME Awaited(id, e, g)
                 PROVE  CarriedBy(DataOf(id, e2), e.s.pendingData, g.delivered, e.accepted,
                                  e.up /\ e.known)
    BY <1>0, <1>5, <1>9 DEF Carried, Shuts
  <2>2. PICK live : live = (e.up /\ e.known)
    OBVIOUS
  <2>3. CarriedBy(d, e.s.pendingData, g.delivered, e.accepted, live)
    BY <1>0, <1>3, <2>1, <2>2 DEF Sound, Carried
  <2>4. f \in Frames /\ f.flag # "none"
    BY FrameKinds DEF Shuts, FinFlags
  <2>5. CarriedBy(d \o <<f>>, e.s.pendingData, g.delivered, e.accepted, live)
    BY <2>3, <2>4, CarriedFin
  <2>6. DataOf(id, e2) = d \o <<f>> \/ DataOf(id, e2) = d
    BY <1>1, <1>2, <1>3 DEF SentOne, Shuts
  <2> QED
    BY <2>2, <2>3, <2>5, <2>6
<1>12. Covered(id, e2, g2)
  BY <1>0, <1>3, <1>4, <1>5, <1>9 DEF Sound, Covered, Shuts
<1>13. Accounted(e2)
  BY <1>0, <1>5 DEF Sound, Accounted, Shuts
<1> QED
  BY <1>0, <1>6, <1>7, <1>8, <1>10, <1>11, <1>12, <1>13 DEF Pair, Sound

(* Handlers reply: an ACK is sent, or what was taken is counted.           *)
Replies(e, g, e2, g2, f) ==
    /\ g2 = g /\ e.owed # {}
    /\ e2.line = e.line \/ /\ e2.line = e.line \o <<f>> 
                           /\ f.type = "WindowUpdate" /\ f.flag = "ACK" /\ f.length = 0
    /\ e2.known = e.known /\ e2.up = e.up /\ e2.accepted = e.accepted
    /\ e2.delivered = e.delivered /\ e2.next = e.next
    /\ e2.s.localClosed = e.s.localClosed /\ e2.s.remoteClosed = e.s.remoteClosed
    /\ e2.s.sendWindow = e.s.sendWindow /\ e2.s.recvWindow = e.s.recvWindow
    /\ e2.s.pendingData = e.s.pendingData
    /\ Accounted(e) => Accounted(e2)

LEMMA RepliesSound ==
    ASSUME NEW p \in Peers, NEW id \in Ids, NEW e, NEW g, NEW e2, NEW g2,
           Pair(p, id, e, g), EndOK(id, e2), NEW f \in StreamFrames(id), Replies(e, g, e2, g2, f)
    PROVE  Pair(p, id, e2, g2)
<1>0. /\ EndOK(id, e) /\ EndOK(id, g) /\ id \in Nat /\ g2 = g
      /\ Sound(p, id, e, g) /\ Sound(Other(p), id, g, e) /\ ~Blank(e)
      /\ e.next \in Nat /\ g.next \in Nat
  BY TunnelAssumption DEF Pair, Replies, Blank, EndOK
<1>1. /\ DataOf(id, e2) = DataOf(id, e)
      /\ LengthOf(CreditOf(id, e2)) = LengthOf(CreditOf(id, e))
      /\ Opens(id, e2) <=> Opens(id, e)
      /\ Ended(e2) <=> Ended(e)
  <2>1. CASE e2.line = e.line
    BY <2>1 DEF DataOf, CreditOf, Opens, Ended
  <2>2. CASE e2.line # e.line
    <3>1. e.line \in Seq(StreamFrames(id)) /\ e2.line = e.line \o <<f>>
      BY <1>0, <2>2 DEF EndOK, Replies
    <3>2. SentOne(id, e, e2, f)
      BY <3>1, SendOne
    <3>3. f.type = "WindowUpdate" /\ f.length = 0 /\ f.flag \notin FinFlags /\ f # Syn(id)
      BY <2>2, FrameKinds DEF Replies, FinFlags
    <3>4. LengthOf(CreditOf(id, e)) \in Nat
      BY <3>1, LineLengths
    <3> QED
      BY <3>2, <3>3, <3>4 DEF SentOne
  <2> QED
    BY <2>1, <2>2
<1>2. ~Opens(id, e) /\ ~Opens(id, g)
  BY <1>0 DEF Sound, AtSyn, Replies
<1>3. Sound(p, id, e2, g2)
  <2>1. Unmoved(id, e, g, e2, g2)
    BY <1>0, <1>1, <1>2 DEF Unmoved, Replies
  <2> QED
    BY <1>0, <2>1, OtherWay, Zenon
<1>4. Sound(Other(p), id, g2, e2)
  <2>1. Unmoved(id, g, e, g2, e2)
    BY <1>0, <1>1, <1>2 DEF Unmoved, Replies
  <2> QED
    BY <1>0, <2>1, OtherWay, Zenon
<1> QED
  BY <1>0, <1>3, <1>4 DEF Pair

(* trySendWindowUpdate, at the threshold.                                  *)
Returned(s, n) == [s EXCEPT !.unackedRecvBytes = 0, !.recvWindow = @ + n]
Returns(e, g, e2, g2, c, f) ==
    /\ g2 = g /\ e.owed = {c} /\ c.pc = "consumed" /\ e.known
    /\ f.type = "WindowUpdate" /\ f.flag = "none" /\ f.length = e.s.unackedRecvBytes + c.length
    /\ e2.line = IF e.up THEN e.line \o <<f>> ELSE e.line
    /\ e2.known /\ e2.up = e.up /\ e2.accepted = e.accepted
    /\ e2.delivered = e.delivered /\ e2.next = e.next /\ e2.owed = {}
    /\ e2.s = Returned(e.s, f.length)

HasReturned(s, r, n) ==
    /\ r \in Stream /\ r.recvWindow = s.recvWindow + n /\ r.unackedRecvBytes = 0
    /\ r.sendWindow = s.sendWindow /\ r.pendingData = s.pendingData
    /\ r.localClosed = s.localClosed /\ r.remoteClosed = s.remoteClosed

LEMMA ReturnedFields ==
    ASSUME NEW s \in Stream, NEW n \in Nat
    PROVE  HasReturned(s, Returned(s, n), n)
<1>0. PICK r : r = Returned(s, n)
  OBVIOUS
<1>1. s.recvWindow + n \in Nat
  BY StreamFields
<1>2. PICK m \in Nat : m = s.recvWindow + n
  BY <1>1
<1>3. PICK t \in Stream : t = [s EXCEPT !.unackedRecvBytes = 0]
  <2>1. [s EXCEPT !.unackedRecvBytes = 0] \in Stream
    BY DEF Stream
  <2> QED
    BY <2>1, Zenon
<1>4. /\ t.recvWindow = s.recvWindow /\ t.unackedRecvBytes = 0
      /\ t.sendWindow = s.sendWindow /\ t.pendingData = s.pendingData
      /\ t.localClosed = s.localClosed /\ t.remoteClosed = s.remoteClosed
  BY <1>3 DEF Stream
<1>5. r = [t EXCEPT !.recvWindow = m]
  BY <1>0, <1>2, <1>3 DEF Stream, Returned
<1>6. /\ r \in Stream /\ r.recvWindow = m /\ r.unackedRecvBytes = t.unackedRecvBytes
      /\ r.sendWindow = t.sendWindow /\ r.pendingData = t.pendingData
      /\ r.localClosed = t.localClosed /\ r.remoteClosed = t.remoteClosed
  BY <1>5 DEF Stream
<1> QED
  BY <1>0, <1>2, <1>4, <1>6 DEF HasReturned

LEMMA ReturnsSound ==
    ASSUME NEW p \in Peers, NEW id \in Ids, NEW e, NEW g, NEW e2, NEW g2,
           Pair(p, id, e, g), EndOK(id, e2), NEW f \in StreamFrames(id), NEW c,
           Returns(e, g, e2, g2, c, f)
    PROVE  Pair(p, id, e2, g2)
<1>0. /\ EndOK(id, e) /\ EndOK(id, g) /\ id \in Nat /\ g2 = g /\ e.s \in Stream /\ g.s \in Stream
      /\ Sound(p, id, e, g) /\ Sound(Other(p), id, g, e) /\ ~Blank(e)
      /\ e.next \in Nat /\ g.next \in Nat /\ f.length \in Nat /\ c.length \in Nat
  BY TunnelAssumption, FrameKinds DEF Pair, Returns, Blank, EndOK
<1>1. /\ DataOf(id, e2) = DataOf(id, e)
      /\ e.up => LengthOf(CreditOf(id, e2)) = LengthOf(CreditOf(id, e)) + f.length
      /\ ~e.up => LengthOf(CreditOf(id, e2)) = LengthOf(CreditOf(id, e))
      /\ Opens(id, e2) <=> Opens(id, e)
      /\ Ended(e2) <=> Ended(e)
  <2>1. CASE ~e.up
    <3>1. e2.line = e.line
      BY <2>1 DEF Returns
    <3> QED
      BY <2>1, <3>1 DEF DataOf, CreditOf, Opens, Ended
  <2>2. CASE e.up
    <3>1. e.line \in Seq(StreamFrames(id)) /\ e2.line = e.line \o <<f>>
      BY <1>0, <2>2 DEF EndOK, Returns
    <3>2. SentOne(id, e, e2, f)
      BY <3>1, SendOne
    <3>3. f.type = "WindowUpdate" /\ f.flag \notin FinFlags /\ f # Syn(id)
      BY FrameKinds DEF Returns, FinFlags
    <3> QED
      BY <2>2, <3>2, <3>3 DEF SentOne
  <2> QED
    BY <2>1, <2>2
<1>2. ~Opens(id, e) /\ ~Opens(id, g)
  BY <1>0 DEF Sound, AtSyn, Returns
<1>3. /\ e2.s.recvWindow = e.s.recvWindow + f.length /\ e2.s.unackedRecvBytes = 0
      /\ e2.s.sendWindow = e.s.sendWindow /\ e2.s.pendingData = e.s.pendingData
      /\ e2.s.localClosed = e.s.localClosed /\ e2.s.remoteClosed = e.s.remoteClosed
  <2>1. HasReturned(e.s, Returned(e.s, f.length), f.length)
    BY <1>0, ReturnedFields
  <2> QED
    BY <2>1 DEF HasReturned, Returns
<1>4. e2.known = e.known
  BY <1>0 DEF Returns, EndOK
<1>5. Sound(p, id, e2, g2)
  <2>1. Accounted(e) => Accounted(e2)
    <3>1. SUFFICES ASSUME Accounted(e), e2.up PROVE Accounted(e2)
      BY DEF Accounted
    <3>2. /\ e.s.recvWindow + e.s.unackedRecvBytes + c.length = InitialWindow
          /\ e.s.pendingData # << >> => e.s.sendWindow = 0
      BY <3>1 DEF Accounted, Returns
    <3>3. e2.s.recvWindow + e2.s.unackedRecvBytes = InitialWindow
      <4>1. e.s.recvWindow \in Nat /\ e.s.unackedRecvBytes \in Nat
            /\ f.length = e.s.unackedRecvBytes + c.length
        BY <1>0, StreamFields DEF Returns
      <4> QED
        BY <1>0, <1>3, <3>2, <4>1
    <3> QED
      BY <1>3, <3>2, <3>3, NewStreamFields DEF Accounted, Returns
  <2>2. Unmoved(id, e, g, e2, g2)
    BY <1>0, <1>1, <1>2, <1>3, <1>4, <2>1 DEF Unmoved, Returns
  <2> QED
    BY <1>0, <2>2, OtherWay, Zenon
<1>6. Sound(Other(p), id, g2, e2)
  <2>1. Unopened(Other(p), id, g2, e2)
    BY <1>0 DEF Sound, Unopened
  <2>2. AtSyn(Other(p), id, g2, e2)
    BY <1>0, <1>2 DEF AtSyn
  <2>3. Awaited(id, g2, e2) <=> Awaited(id, g, e)
    BY <1>0, <1>2, <1>3, <1>4 DEF Awaited
  <2>4. Closes(id, g2, e2)
    BY <1>0, <1>3, <2>3 DEF Sound, Closes
  <2>5. Carried(id, g2, e2)
    BY <1>0, <2>3 DEF Sound, Carried, Returns
  <2>6. Covered(id, g2, e2)
    <3>1. /\ LengthOf(DataOf(id, g)) \in Nat /\ LengthOf(CreditOf(id, e)) \in Nat
          /\ e.s.recvWindow \in Nat /\ g.s.sendWindow \in Nat
      BY <1>0, LineLengths, StreamFields DEF EndOK
    <3>2. CASE e.up
      <4>1. e2.up /\ LengthOf(CreditOf(id, e2)) = LengthOf(CreditOf(id, e)) + f.length
        BY <1>1, <3>2 DEF Returns
      <4>2. SUFFICES ASSUME Awaited(id, g, e) PROVE Covered(id, g2, e2)
        BY <2>3 DEF Covered
      <4>3. /\ LengthOf(DataOf(id, g)) <= e.s.recvWindow
            /\ g.known => g.s.sendWindow + LengthOf(DataOf(id, g)) + LengthOf(CreditOf(id, e))
                              <= e.s.recvWindow
            /\ g.known /\ g.up /\ e.up =>
                   g.s.sendWindow + LengthOf(DataOf(id, g)) + LengthOf(CreditOf(id, e))
                       = e.s.recvWindow
        BY <1>0, <4>2 DEF Sound, Covered
      <4>4. g.s.sendWindow + LengthOf(DataOf(id, g)) + (LengthOf(CreditOf(id, e)) + f.length)
            = (g.s.sendWindow + LengthOf(DataOf(id, g)) + LengthOf(CreditOf(id, e))) + f.length
        BY <1>0, <3>1
      <4>5. LengthOf(DataOf(id, g)) <= e.s.recvWindow + f.length
        BY <1>0, <3>1, <4>3
      <4>6. g.known => (g.s.sendWindow + LengthOf(DataOf(id, g)) + LengthOf(CreditOf(id, e)))
                           + f.length <= e.s.recvWindow + f.length
        BY <1>0, <3>1, <4>3
      <4> QED
        BY <1>0, <1>3, <3>2, <4>1, <4>3, <4>4, <4>5, <4>6, Zenon DEF Covered
    <3>3. CASE ~e.up
      <4>1. ~e2.up /\ LengthOf(CreditOf(id, e2)) = LengthOf(CreditOf(id, e))
        BY <1>1, <3>3 DEF Returns
      <4> QED
        BY <1>0, <1>3, <2>3, <3>1, <4>1 DEF Sound, Covered
    <3> QED
      BY <3>2, <3>3
  <2>7. Accounted(g2)
    BY <1>0 DEF Sound
  <2> QED
    BY <2>1, <2>2, <2>4, <2>5, <2>6, <2>7 DEF Sound
<1> QED
  BY <1>0, <1>5, <1>6 DEF Pair

(* A frame that nothing is done about.                                     *)
Ignores(e, g, e2, g2, f) ==
    /\ e2 = e /\ g.line = <<f>> \o g2.line
    /\ g2.owed = g.owed /\ g2.known = g.known /\ g2.up = g.up /\ g2.s = g.s
    /\ g2.accepted = g.accepted /\ g2.delivered = g.delivered /\ g2.next = g.next
    /\ \/ f.type = "Data" /\ ~(e.known /\ ~e.s.remoteClosed)
       \/ f.type = "WindowUpdate" /\ ~e.known /\ f.flag # "SYN"
       \/ f.type = "WindowUpdate" /\ e.known /\ f.length = 0

LEMMA IgnoresSound ==
    ASSUME NEW p \in Peers, NEW id \in Ids, NEW e, NEW g, NEW e2, NEW g2,
           Pair(p, id, e, g), EndOK(id, g2), NEW f \in StreamFrames(id), Ignores(e, g, e2, g2, f)
    PROVE  Pair(p, id, e2, g2)
<1>0. /\ EndOK(id, e) /\ EndOK(id, g) /\ id \in Nat /\ e2 = e
      /\ Sound(p, id, e, g) /\ Sound(Other(p), id, g, e)
      /\ e.next \in Nat /\ g.next \in Nat
  BY TunnelAssumption DEF Pair, Ignores, EndOK
<1>1. g2.line \in Seq(StreamFrames(id)) /\ g.line = <<f>> \o g2.line
  BY DEF EndOK, Ignores
<1>2. TookOne(id, g, g2, f)
  BY <1>1, TakeOne
<1>3. ~Blank(g) /\ ~Opens(id, e)
  BY <1>0, <1>2 DEF TookOne, Sound, AtSyn
<1>4. ~Opens(id, g)
  <2>1. SUFFICES ASSUME Opens(id, g) PROVE FALSE
    OBVIOUS
  <2>2. f = Syn(id) /\ Blank(e)
    BY <1>0, <1>2, <2>1 DEF TookOne, Sound, AtSyn
  <2>3. ~e.known /\ f.type = "WindowUpdate" /\ f.flag = "SYN"
    BY <2>2 DEF Blank, Syn, Frame
  <2> QED
    BY <2>3 DEF Ignores
<1>5. ~Opens(id, g2) /\ LengthOf(CreditOf(id, g2)) \in Nat
  BY <1>1, <1>2, <1>4, LineLengths DEF TookOne
<1>6. Sound(p, id, e2, g2)
  <2>1. e.known => LengthOf(CreditOf(id, g2)) = LengthOf(CreditOf(id, g))
    BY <1>2, <1>5 DEF TookOne, Ignores
  <2>2. Unmoved(id, e, g, e2, g2)
    BY <1>0, <1>3, <2>1 DEF Unmoved, Ignores
  <2> QED
    BY <1>0, <2>2, OtherWay, Zenon
<1>7. Sound(Other(p), id, g2, e2)
  <2>1. CASE f.type = "Data"
    <3>1. ~(e.known /\ ~e.s.remoteClosed)
      BY <2>1 DEF Ignores
    <3>2. ~Awaited(id, g2, e2)
      BY <1>0, <1>5, <3>1 DEF Awaited
    <3>3. Unopened(Other(p), id, g2, e2)
      BY <1>0, <1>3 DEF Sound, Unopened, Ignores
    <3>4. AtSyn(Other(p), id, g2, e2)
      BY <1>5 DEF AtSyn
    <3>5. Closes(id, g2, e2)
      BY <1>0, <1>2, <3>2 DEF Sound, Closes, Ignores, TookOne
    <3>6. Accounted(g2)
      BY <1>0 DEF Sound, Accounted, Ignores
    <3> QED
      BY <3>2, <3>3, <3>4, <3>5, <3>6 DEF Sound, Carried, Covered
  <2>2. CASE f.type = "WindowUpdate"
    <3>1. f.flag \notin FinFlags
      BY <2>2, FrameKinds
    <3>2. Accounted(g) => Accounted(g2)
      BY DEF Accounted, Ignores
    <3>3. Unmoved(id, g, e, g2, e2)
      BY <1>0, <1>2, <1>3, <1>4, <1>5, <2>2, <3>1, <3>2 DEF Unmoved, Ignores, TookOne
    <3> QED
      BY <1>0, <3>3, OtherWay, Zenon
  <2> QED
    BY <2>1, <2>2, FrameKinds
<1> QED
  BY <1>0, <1>6, <1>7 DEF Pair

(* handleNewStream.                                                        *)
Accepts(id, e, g, e2, g2) ==
    /\ ~e.known /\ g.line = <<Syn(id)>> \o g2.line
    /\ g2.owed = g.owed /\ g2.known = g.known /\ g2.up = g.up /\ g2.s = g.s
    /\ g2.accepted = g.accepted /\ g2.delivered = g.delivered /\ g2.next = g.next
    /\ e2.line = e.line /\ e2.known /\ e2.up = e.up /\ e2.s = NewStream
    /\ e2.accepted = e.accepted /\ e2.delivered = e.delivered /\ e2.next = e.next
    /\ \A c \in e2.owed : c.pc = "ack"

LEMMA AcceptsSound ==
    ASSUME NEW p \in Peers, NEW id \in Ids, NEW e, NEW g, NEW e2, NEW g2,
           Pair(p, id, e, g), EndOK(id, e2), EndOK(id, g2), Accepts(id, e, g, e2, g2)
    PROVE  Pair(p, id, e2, g2)
<1>0. /\ EndOK(id, e) /\ EndOK(id, g) /\ id \in Nat
      /\ Sound(p, id, e, g) /\ Sound(Other(p), id, g, e)
      /\ Other(p) # p
  BY TunnelAssumption, Peering DEF Pair
<1>1. PICK f \in StreamFrames(id) : f = Syn(id) /\ f.type = "WindowUpdate" /\ f.length = 0
                                    /\ f.flag = "SYN"
  <2>1. Syn(id) \in StreamFrames(id) /\ Syn(id).type = "WindowUpdate"
        /\ Syn(id).length = 0 /\ Syn(id).flag = "SYN"
    BY TunnelAssumption DEF Syn, Frame, StreamFrames, GoodFrames, Frames, OfId
  <2> QED
    BY <2>1
<1>2. g2.line \in Seq(StreamFrames(id)) /\ g.line = <<f>> \o g2.line
  BY <1>1 DEF EndOK, Accepts
<1>3. TookOne(id, g, g2, f)
  BY <1>2, TakeOne
<1>4. Opens(id, g) /\ Tail(g.line) = g2.line /\ ~Blank(g)
  BY <1>1, <1>3 DEF TookOne
<1>5. /\ Owner(id) = Other(p) /\ \A x \in Elems(g2.line) : x.type = "Data"
      /\ g.s.recvWindow = InitialWindow /\ ~g.s.remoteClosed /\ g.delivered = 0 /\ Blank(e)
  BY <1>0, <1>4 DEF Sound, AtSyn
<1>6. EmptyLine(id, e) /\ EmptyLine(id, e2)
  BY <1>5, LineEmpty DEF Accepts, Blank
<1>7. CreditOf(id, g2) = << >> /\ LengthOf(CreditOf(id, g2)) = 0 /\ ~Opens(id, g2)
      /\ Syn(id).type # "Data"
  <2>1. Syn(id).type # "Data"
    BY DEF Syn, Frame
  <2>2. ~Opens(id, g2)
    BY <1>5, <2>1 DEF Opens
  <2>3. PICK v \in Seq(Frames) : v = g2.line
    BY <1>2, StreamLine
  <2>4. v \in Seq(OfType(id, "Data"))
    <3>1. Elems(v) \subseteq StreamFrames(id)
      BY <1>2, <2>3, StreamLine
    <3>2. Elems(v) \subseteq OfType(id, "Data")
      BY <1>5, <2>3, <3>1, FrameKinds
    <3> QED
      BY <3>2, ElemsType
  <2>5. OfType(id, "Data") \subseteq Frames
        /\ OfType(id, "Data") \cap OfType(id, "WindowUpdate") = {}
    BY DEF OfType
  <2>6. Pick(v, OfType(id, "WindowUpdate")) = << >>
    BY <2>4, <2>5, PickAll
  <2> QED
    BY <2>1, <2>2, <2>3, <2>6, LengthOfFew DEF CreditOf
<1>8. /\ e.s = NewStream /\ e.delivered = 0 /\ e.accepted = 0
      /\ e2.s = NewStream /\ e2.known /\ e2.delivered = 0 /\ e2.accepted = 0
  BY <1>0, <1>5 DEF Accepts, Blank, EndOK
<1>9. Sound(p, id, e2, g2)
  <2>1. Unopened(p, id, e2, g2)
    BY <1>0, <1>5 DEF Unopened
  <2>2. AtSyn(p, id, e2, g2)
    BY <1>6 DEF AtSyn, EmptyLine
  <2>3. Closes(id, e2, g2)
    BY <1>5, <1>6, <1>8, NewStreamFields DEF Closes, EmptyLine, Accepts
  <2>4. Carried(id, e2, g2)
    BY <1>5, <1>6, <1>8, NewStreamFields, CarriedNone DEF Carried, EmptyLine, Accepts
  <2>5. Covered(id, e2, g2)
    <3>1. InitialWindow \in Nat /\ InitialWindow + 0 + 0 = InitialWindow
          /\ InitialWindow <= InitialWindow /\ 0 <= InitialWindow
      BY NewStreamFields
    <3>2. e2.s.sendWindow = InitialWindow /\ g2.s.recvWindow = InitialWindow
      BY <1>5, <1>8, NewStreamFields DEF Accepts
    <3> QED
      BY <1>6, <1>7, <3>1, <3>2 DEF Covered, EmptyLine
  <2>6. Accounted(e2)
    BY <1>8, NewStreamFields DEF Accounted, Accepts
  <2> QED
    BY <2>1, <2>2, <2>3, <2>4, <2>5, <2>6 DEF Sound
<1>10. Sound(Other(p), id, g2, e2)
  <2>1. Unopened(Other(p), id, g2, e2)
    BY <1>0, <1>4 DEF Sound, Unopened, Accepts
  <2>2. AtSyn(Other(p), id, g2, e2)
    BY <1>7 DEF AtSyn
  <2>3. Awaited(id, g, e) /\ Awaited(id, g2, e2)
    BY <1>4, <1>8, NewStreamFields DEF Awaited
  <2>4. DataOf(id, g2) = DataOf(id, g) /\ (Ended(g2) <=> Ended(g))
    BY <1>1, <1>3 DEF TookOne, FinFlags
  <2>5. Closes(id, g2, e2)
    BY <1>0, <1>8, <2>3, <2>4 DEF Sound, Closes, Accepts
  <2>6. Carried(id, g2, e2)
    BY <1>0, <1>8, <2>3, <2>4 DEF Sound, Carried, Accepts
  <2>7. Covered(id, g2, e2)
    BY <1>0, <1>6, <1>8, <2>3, <2>4 DEF Sound, Covered, EmptyLine, Accepts
  <2>8. Accounted(g2)
    BY <1>0 DEF Sound, Accounted, Accepts
  <2> QED
    BY <2>1, <2>2, <2>5, <2>6, <2>7, <2>8 DEF Sound
<1> QED
  BY <1>9, <1>10 DEF Pair

(* handleDataFrame with FIN or RST.                                        *)
Heard(s) == [s EXCEPT !.remoteClosed = TRUE]

Hears(e, g, e2, g2, f) ==
    /\ e.known /\ ~e.s.remoteClosed /\ f.type = "Data" /\ f.flag \in FinFlags
    /\ g.line = <<f>> \o g2.line
    /\ g2.owed = g.owed /\ g2.known = g.known /\ g2.up = g.up /\ g2.s = g.s
    /\ g2.accepted = g.accepted /\ g2.delivered = g.delivered /\ g2.next = g.next
    /\ e2.line = e.line /\ e2.known /\ e2.up = e.up /\ e2.owed = e.owed
    /\ e2.accepted = e.accepted /\ e2.delivered = e.delivered /\ e2.next = e.next
    /\ e2.s = Heard(e.s)

HasHeard(s, r) ==
    /\ r \in Stream /\ r.remoteClosed /\ r.localClosed = s.localClosed
    /\ r.sendWindow = s.sendWindow /\ r.recvWindow = s.recvWindow
    /\ r.unackedRecvBytes = s.unackedRecvBytes /\ r.pendingData = s.pendingData

LEMMA HeardFields ==
    ASSUME NEW s \in Stream
    PROVE  HasHeard(s, Heard(s))
BY DEF Heard, HasHeard, Stream

LEMMA HearsSound ==
    ASSUME NEW p \in Peers, NEW id \in Ids, NEW e, NEW g, NEW e2, NEW g2,
           Pair(p, id, e, g), EndOK(id, e2), EndOK(id, g2), NEW f \in StreamFrames(id),
           Hears(e, g, e2, g2, f)
    PROVE  Pair(p, id, e2, g2)
<1>0. /\ EndOK(id, e) /\ EndOK(id, g) /\ id \in Nat /\ e.s \in Stream
      /\ Sound(p, id, e, g) /\ Sound(Other(p), id, g, e)
      /\ e.next \in Nat /\ g.next \in Nat
  BY TunnelAssumption DEF Pair, EndOK
<1>1. g2.line \in Seq(StreamFrames(id)) /\ g.line = <<f>> \o g2.line
  BY DEF EndOK, Hears
<1>2. TookOne(id, g, g2, f)
  BY <1>1, TakeOne
<1>3. ~Blank(g) /\ ~Opens(id, e)
  BY <1>0, <1>2 DEF TookOne, Sound, AtSyn
<1>4. f # Syn(id) /\ f.type = "Data"
  BY FrameKinds DEF Hears
<1>5. ~Opens(id, g)
  BY <1>0, <1>2, <1>4 DEF TookOne, Sound, AtSyn
<1>6. /\ DataOf(id, e2) = DataOf(id, e) /\ CreditOf(id, e2) = CreditOf(id, e)
      /\ Opens(id, e2) <=> Opens(id, e)
      /\ Ended(e2) <=> Ended(e)
      /\ CreditOf(id, g2) = CreditOf(id, g) /\ ~Opens(id, g2)
  BY <1>2, <1>4, <1>5 DEF DataOf, CreditOf, Opens, Ended, Hears, TookOne
<1>7. HasHeard(e.s, e2.s)
  BY <1>0, HeardFields DEF Hears
<1>8. Sound(p, id, e2, g2)
  <2>1. e2.known = e.known
    BY <1>0 DEF Hears, EndOK
  <2>2. Accounted(e) => Accounted(e2)
    BY <1>7 DEF Accounted, Hears, HasHeard
  <2>3. Unmoved(id, e, g, e2, g2)
    BY <1>0, <1>3, <1>6, <1>7, <2>1, <2>2 DEF Unmoved, Hears, HasHeard
  <2> QED
    BY <1>0, <2>3, OtherWay, Zenon
<1>9. Sound(Other(p), id, g2, e2)
  <2>1. ~Awaited(id, g2, e2)
    BY <1>6, <1>7 DEF Awaited, HasHeard
  <2>2. Unopened(Other(p), id, g2, e2)
    BY <1>0, <1>3 DEF Sound, Unopened, Hears
  <2>3. AtSyn(Other(p), id, g2, e2)
    BY <1>6 DEF AtSyn
  <2>4. Closes(id, g2, e2)
    BY <1>0, <1>2, <2>1 DEF Sound, Closes, Hears, TookOne
  <2>5. Accounted(g2)
    BY <1>0 DEF Sound, Accounted, Hears
  <2> QED
    BY <2>1, <2>2, <2>3, <2>4, <2>5 DEF Sound, Carried, Covered
<1> QED
  BY <1>8, <1>9 DEF Pair

(* handleDataFrame with a payload that fits.                               *)
Taken(s, n) == [s EXCEPT !.recvWindow = @ - n]

HasTaken(s, r, n) ==
    /\ r \in Stream /\ r.recvWindow = s.recvWindow - n
    /\ r.unackedRecvBytes = s.unackedRecvBytes
    /\ r.sendWindow = s.sendWindow /\ r.pendingData = s.pendingData
    /\ r.localClosed = s.localClosed /\ r.remoteClosed = s.remoteClosed

LEMMA TakenFields ==
    ASSUME NEW s \in Stream, NEW n \in Nat, n <= s.recvWindow
    PROVE  HasTaken(s, Taken(s, n), n)
<1>1. PICK m \in Nat : m = s.recvWindow - n
  <2>1. s.recvWindow - n \in Nat
    BY StreamFields
  <2> QED
    BY <2>1
<1>2. PICK r : r = [s EXCEPT !.recvWindow = m]
  OBVIOUS
<1>3. /\ r \in Stream /\ r.recvWindow = m /\ r.unackedRecvBytes = s.unackedRecvBytes
      /\ r.sendWindow = s.sendWindow /\ r.pendingData = s.pendingData
      /\ r.localClosed = s.localClosed /\ r.remoteClosed = s.remoteClosed
  BY <1>2 DEF Stream
<1>4. r = Taken(s, n)
  BY <1>1, <1>2 DEF Taken
<1> QED
  BY <1>1, <1>3, <1>4 DEF HasTaken

(* Data is handled in order, and it fits.                                  *)
Fits(e, g, f) == /\ f.length <= e.s.recvWindow
                 /\ f.first = e.delivered + 1 /\ e.delivered + f.length <= g.accepted

LEMMA DataFits ==
    ASSUME NEW p \in Peers, NEW id \in Ids, NEW e, NEW g, NEW g2, Pair(p, id, e, g),
           NEW f \in StreamFrames(id), f.type = "Data", f.flag = "none",
           e.known, ~e.s.remoteClosed,
           g2.line \in Seq(StreamFrames(id)), g.line = <<f>> \o g2.line
    PROVE  /\ Fits(e, g, f) /\ ~Opens(id, g)
           /\ CarriedBy(DataOf(id, g2), g.s.pendingData, e.delivered + f.length, g.accepted,
                        g.up /\ g.known)
<1>0. /\ EndOK(id, e) /\ EndOK(id, g) /\ e.s \in Stream /\ f.length \in Nat /\ f \in Frames
      /\ Sound(p, id, e, g) /\ Sound(Other(p), id, g, e)
  BY FrameKinds DEF Pair, EndOK
<1>1. TookOne(id, g, g2, f)
  BY TakeOne
<1>2. ~Opens(id, g)
  BY <1>0, <1>1, FrameKinds DEF TookOne, Sound, AtSyn
<1>3. Awaited(id, g, e)
  BY DEF Awaited
<1>4. PICK d \in Seq(Frames) : d = DataOf(id, g2) /\ LengthOf(d) \in Nat
  BY LineLengths
<1>5. DataOf(id, g) = <<f>> \o d /\ LengthOf(DataOf(id, g)) = f.length + LengthOf(d)
  BY <1>1, <1>4 DEF TookOne
<1>6. f.length <= e.s.recvWindow
  <2>1. f.length + LengthOf(d) <= e.s.recvWindow
    BY <1>0, <1>3, <1>5 DEF Sound, Covered
  <2>2. e.s.recvWindow \in Nat
    BY <1>0, StreamFields
  <2> QED
    BY <1>0, <1>4, <2>1, <2>2
<1>7. PICK live : live = (g.up /\ g.known)
  OBVIOUS
<1>8. CarriedBy(<<f>> \o d, g.s.pendingData, e.delivered, g.accepted, live)
  BY <1>0, <1>3, <1>5, <1>7 DEF Sound, Carried
<1>9. e.delivered \in Nat /\ g.accepted \in Nat
  BY <1>0, EndNumbers
<1>10. /\ f.first = e.delivered + 1 /\ e.delivered + f.length <= g.accepted
       /\ CarriedBy(d, g.s.pendingData, e.delivered + f.length, g.accepted, live)
  BY <1>0, <1>8, <1>9, CarriedTaken
<1> QED
  BY <1>2, <1>4, <1>6, <1>7, <1>10 DEF Fits

Takes(e, g, e2, g2, f, c) ==
    /\ e.known /\ ~e.s.remoteClosed /\ f.type = "Data" /\ f.flag = "none"
    /\ g.line = <<f>> \o g2.line
    /\ g2.owed = g.owed /\ g2.known = g.known /\ g2.up = g.up /\ g2.s = g.s
    /\ g2.accepted = g.accepted /\ g2.delivered = g.delivered /\ g2.next = g.next
    /\ e.owed = {} /\ e2.owed = {c} /\ c.pc = "consumed" /\ c.length = f.length
    /\ e2.line = e.line /\ e2.known /\ e2.up = e.up /\ e2.s = Taken(e.s, f.length)
    /\ e2.accepted = e.accepted /\ e2.delivered = e.delivered + f.length /\ e2.next = e.next

LEMMA TakesSound ==
    ASSUME NEW p \in Peers, NEW id \in Ids, NEW e, NEW g, NEW e2, NEW g2,
           Pair(p, id, e, g), EndOK(id, e2), EndOK(id, g2), NEW f \in StreamFrames(id), NEW c,
           Takes(e, g, e2, g2, f, c)
    PROVE  Pair(p, id, e2, g2)
<1>0. /\ EndOK(id, e) /\ EndOK(id, g) /\ id \in Nat /\ e.s \in Stream /\ g.s \in Stream
      /\ Sound(p, id, e, g) /\ Sound(Other(p), id, g, e)
      /\ e.next \in Nat /\ g.next \in Nat /\ f.length \in Nat
  BY TunnelAssumption, FrameKinds DEF Pair, EndOK
<1>1. g2.line \in Seq(StreamFrames(id)) /\ g.line = <<f>> \o g2.line
      /\ f.type = "Data" /\ f.flag = "none"
  BY DEF EndOK, Takes
<1>2. TookOne(id, g, g2, f)
  BY <1>1, TakeOne
<1>3. /\ Fits(e, g, f) /\ ~Opens(id, g)
      /\ CarriedBy(DataOf(id, g2), g.s.pendingData, e.delivered + f.length, g.accepted,
                   g.up /\ g.known)
  BY <1>1, DataFits DEF Takes
<1>4. ~Blank(g) /\ ~Opens(id, e) /\ ~Opens(id, g2)
  BY <1>0, <1>2, <1>3 DEF TookOne, Sound, AtSyn
<1>5. /\ DataOf(id, e2) = DataOf(id, e) /\ CreditOf(id, e2) = CreditOf(id, e)
      /\ ~Opens(id, e2)
      /\ Ended(e2) <=> Ended(e)
      /\ CreditOf(id, g2) = CreditOf(id, g)
      /\ LengthOf(DataOf(id, g)) = f.length + LengthOf(DataOf(id, g2))
      /\ Ended(g2) <=> Ended(g)
  BY <1>1, <1>2, <1>4 DEF DataOf, CreditOf, Opens, Ended, Takes, TookOne, FinFlags
<1>6. HasTaken(e.s, e2.s, f.length)
  BY <1>0, <1>3, TakenFields DEF Takes, Fits
<1>7. e2.known = e.known
  BY <1>0 DEF Takes, EndOK
<1>8. Sound(p, id, e2, g2)
  <2>1. Accounted(e) => Accounted(e2)
    <3>1. SUFFICES ASSUME Accounted(e), e2.up PROVE Accounted(e2)
      BY DEF Accounted
    <3>2. /\ e.s.unackedRecvBytes < Threshold
          /\ e.s.recvWindow + e.s.unackedRecvBytes = InitialWindow
          /\ e.s.pendingData # << >> => e.s.sendWindow = 0
      BY <3>1 DEF Accounted, Takes
    <3>3. e2.s.recvWindow + e2.s.unackedRecvBytes + f.length = InitialWindow
      <4>1. e.s.recvWindow \in Nat /\ e.s.unackedRecvBytes \in Nat
        BY <1>0, StreamFields
      <4>2. e2.s.recvWindow = e.s.recvWindow - f.length
            /\ e2.s.unackedRecvBytes = e.s.unackedRecvBytes
        BY <1>6 DEF HasTaken
      <4> QED
        BY <1>0, <3>2, <4>1, <4>2
    <3> QED
      BY <1>6, <3>2, <3>3 DEF Accounted, Takes, HasTaken
  <2>2. Unmoved(id, e, g, e2, g2)
    BY <1>0, <1>4, <1>5, <1>6, <1>7, <2>1 DEF Unmoved, Takes, HasTaken
  <2> QED
    BY <1>0, <2>2, OtherWay, Zenon
<1>9. Sound(Other(p), id, g2, e2)
  <2>1. Unopened(Other(p), id, g2, e2)
    BY <1>0, <1>4 DEF Sound, Unopened, Takes
  <2>2. AtSyn(Other(p), id, g2, e2)
    BY <1>4 DEF AtSyn
  <2>3. Awaited(id, g2, e2) /\ Awaited(id, g, e)
    BY <1>6 DEF Awaited, Takes, HasTaken
  <2>4. Closes(id, g2, e2)
    BY <1>0, <1>5, <1>6, <2>3 DEF Sound, Closes, Takes, HasTaken
  <2>5. Carried(id, g2, e2)
    BY <1>3, <1>6 DEF Carried, Takes, HasTaken
  <2>6. Covered(id, g2, e2)
    <3>1. PICK d \in Nat, c1 \in Nat, w \in Nat, r \in Nat :
              /\ d = LengthOf(DataOf(id, g2)) /\ c1 = LengthOf(CreditOf(id, e))
              /\ w = g.s.sendWindow /\ r = e.s.recvWindow
      <4>1. /\ LengthOf(DataOf(id, g2)) \in Nat /\ LengthOf(CreditOf(id, e)) \in Nat
            /\ g.s.sendWindow \in Nat /\ e.s.recvWindow \in Nat
        BY <1>0, <1>1, LineLengths, StreamFields DEF EndOK
      <4> QED
        BY <4>1
    <3>2. /\ f.length + d <= r
          /\ g.known => w + (f.length + d) + c1 <= r
          /\ g.known /\ g.up /\ e.up => w + (f.length + d) + c1 = r
      BY <1>0, <1>5, <2>3, <3>1 DEF Sound, Covered
    <3>3. /\ f.length + d <= r => d <= r - f.length
          /\ w + (f.length + d) + c1 <= r => w + d + c1 <= r - f.length
          /\ w + (f.length + d) + c1 = r => w + d + c1 = r - f.length
      BY <1>0, <3>1
    <3>4. /\ g2.s.sendWindow = w /\ e2.s.recvWindow = r - f.length
          /\ LengthOf(CreditOf(id, e2)) = c1 /\ g2.known = g.known /\ g2.up = g.up /\ e2.up = e.up
      BY <1>5, <1>6, <3>1 DEF HasTaken, Takes
    <3> QED
      BY <3>1, <3>2, <3>3, <3>4, Zenon DEF Covered
  <2>7. Accounted(g2)
    BY <1>0 DEF Sound, Accounted, Takes
  <2> QED
    BY <2>1, <2>2, <2>4, <2>5, <2>6, <2>7 DEF Sound
<1> QED
  BY <1>8, <1>9 DEF Pair

-----------------------------------------------------------------------------
(* Without a FIN under way, the data under way and what is pending are all *)
(* there is between what was got and what was given.                       *)
LEMMA CarriedWhole ==
    ASSUME NEW id \in Ids, NEW e, NEW q, NEW got, NEW given, NEW live, e.line \in Seq(StreamFrames(id)),
           ~Ended(e), CarriedBy(DataOf(id, e), q, got, given, live)
    PROVE  /\ Chain(DataOf(id, e), got)
           /\ live => /\ Chain(q, got + LengthOf(DataOf(id, e)))
                      /\ got + LengthOf(DataOf(id, e)) + LengthOf(q) = given
<1>1. PICK s \in Seq(Frames), r \in Seq(Frames) :
          /\ DataOf(id, e) = s \o r
          /\ r # << >> => r[1].flag # "none"
          /\ Chain(s, got)
          /\ r = << >> /\ live => /\ Chain(q, got + LengthOf(s))
                                  /\ got + LengthOf(s) + LengthOf(q) = given
  BY DEF CarriedBy
<1>2. r = << >>
  <2>1. SUFFICES ASSUME r # << >> PROVE FALSE
    OBVIOUS
  <2>2. r[1] \in Elems(s \o r)
    <3>1. r[1] \in Elems(r)
      BY <2>1 DEF Elems
    <3>2. Elems(s \o r) = Elems(s) \cup Elems(r)
      BY ElemsJoin
    <3> QED
      BY <3>1, <3>2
  <2>3. r[1] \in Elems(e.line) /\ r[1] \in StreamFrames(id)
    BY <1>1, <2>2, LineLengths, StreamLine
  <2>4. r[1].type = "Data"
    <3>1. PICK v \in Seq(Frames) : v = e.line
      BY StreamLine
    <3>2. Elems(Pick(v, OfType(id, "Data"))) = Elems(v) \cap OfType(id, "Data")
      BY <3>1, ElemsPick, Zenon
    <3>3. r[1] \in OfType(id, "Data")
      BY <1>1, <2>2, <3>1, <3>2 DEF DataOf
    <3> QED
      BY <3>3 DEF OfType
  <2>5. r[1].flag \in FinFlags
    <3>1. PICK f \in StreamFrames(id) : f = r[1]
      BY <2>3
    <3>2. f.type = "Data" /\ f.flag # "none"
      BY <1>1, <2>1, <2>4, <3>1
    <3> QED
      BY <3>1, <3>2, FrameKinds
  <2> QED
    BY <2>3, <2>5 DEF Ended
<1>3. DataOf(id, e) = s
  BY <1>1, <1>2
<1> QED
  BY <1>1, <1>2, <1>3

(* A direction that carries data, from e to g, and the counters of its     *)
(* flow.                                                                   *)
Runs(id, e, g) == /\ e.up /\ g.up /\ e.known /\ ~e.s.localClosed
                  /\ g.known \/ Opens(id, e)

SentBy(e) == e.accepted - LengthOf(e.s.pendingData)
Meter(e, g) == [given |-> e.accepted, sent |-> SentBy(e),
                learned |-> e.s.sendWindow + SentBy(e) - InitialWindow,
                delivered |-> g.delivered,
                credited |-> g.s.recvWindow + g.delivered - InitialWindow]
NoUnits == [given |-> 0, sent |-> 0, learned |-> 0, delivered |-> 0, credited |-> 0]

(* With c units of credit under way.                                       *)
Balanced(m, c) ==
    /\ m.given \in 0 .. MaxAccepted /\ m.delivered \in 0 .. MaxAccepted
    /\ m.sent \in Int /\ m.learned \in Int /\ m.credited \in Int /\ c \in Nat
    /\ m.sent = Flows!SentWith(m.given, m.learned)
    /\ m.credited = m.learned + c
    /\ m.delivered <= m.sent /\ m.credited <= m.delivered

LEMMA Balance ==
    ASSUME NEW p \in Peers, NEW id \in Ids, NEW e, NEW g, Pair(p, id, e, g), Runs(id, e, g)
    PROVE  Balanced(Meter(e, g), LengthOf(CreditOf(id, g)))
<1>0. /\ EndOK(id, e) /\ EndOK(id, g) /\ Sound(p, id, e, g) /\ Sound(Other(p), id, g, e)
      /\ e.known /\ e.up /\ g.up
  BY DEF Pair, Runs
<1>1. e.s.pendingData \in Seq(Ranges) /\ e.s.sendWindow \in Nat /\ g.s.recvWindow \in Nat
      /\ g.s.unackedRecvBytes \in Nat /\ g.s.remoteClosed \in BOOLEAN
  BY <1>0, StreamFields DEF EndOK
<1>2. PICK d \in Nat, c \in Nat : d = LengthOf(DataOf(id, e)) /\ c = LengthOf(CreditOf(id, g))
  BY <1>0, LineLengths DEF EndOK
<1>3. PICK l \in Nat : l = LengthOf(e.s.pendingData)
  BY <1>1, RangesArePieces, SumsAre
<1>4. l = 0 \/ e.s.pendingData # << >>
  BY <1>3, LengthOfFew
<1>5. ~Ended(e) /\ (g.known => ~g.s.remoteClosed)
  BY <1>0, <1>1 DEF Sound, Closes, Runs
<1>6. Awaited(id, e, g)
  BY <1>5 DEF Awaited, Runs
<1>7. e.accepted \in 0 .. MaxAccepted /\ g.delivered \in 0 .. MaxAccepted
  BY <1>0 DEF EndOK
<1>8. g.delivered + d + l = e.accepted
  <2>1. PICK live : live = (e.up /\ e.known)
    OBVIOUS
  <2>2. CarriedBy(DataOf(id, e), e.s.pendingData, g.delivered, e.accepted, live)
    BY <1>0, <1>6, <2>1 DEF Sound, Carried
  <2>3. live /\ e.line \in Seq(StreamFrames(id))
    BY <1>0, <2>1 DEF EndOK
  <2> QED
    BY <1>2, <1>3, <1>5, <2>2, <2>3, CarriedWhole
<1>9. e.s.sendWindow + d + c = g.s.recvWindow
  BY <1>0, <1>2, <1>6 DEF Sound, Covered
<1>10. g.s.recvWindow <= InitialWindow
  <2>1. CASE g.known
    <3>1. Accounted(g)
      BY <1>0 DEF Sound
    <3>2. (\A x \in g.owed : x.pc # "consumed")
            => g.s.recvWindow + g.s.unackedRecvBytes = InitialWindow
      BY <1>0, <2>1, <3>1 DEF Accounted
    <3>3. \A x \in g.owed : x.pc = "consumed" =>
              /\ g.s.recvWindow + g.s.unackedRecvBytes + x.length = InitialWindow
              /\ x.length \in Nat
      BY <1>0, <2>1, <3>1 DEF Accounted, EndOK
    <3> QED
      BY <1>1, <3>2, <3>3
  <2>2. CASE ~g.known
    BY <1>0, <2>2, NewStreamFields, WindowAssumption DEF EndOK
  <2> QED
    BY <2>1, <2>2
<1>11. l # 0 => e.s.sendWindow = 0
  BY <1>0, <1>4 DEF Sound, Accounted
<1>12. PICK m : m = Meter(e, g)
  OBVIOUS
<1>13. /\ m.given = e.accepted /\ m.sent = e.accepted - l
       /\ m.learned = e.s.sendWindow + (e.accepted - l) - InitialWindow
       /\ m.delivered = g.delivered /\ m.credited = g.s.recvWindow + g.delivered - InitialWindow
  BY <1>3, <1>12 DEF Meter, SentBy
<1>14. InitialWindow \in Nat /\ MaxAccepted \in Nat
  BY WindowAssumption, TunnelAssumption
<1>15. m.sent = Flows!SentWith(m.given, m.learned)
  BY <1>1, <1>7, <1>11, <1>13, <1>14, SMTT(30) DEF Flows!SentWith
<1>16. Balanced(m, c)
  <2>1. PICK w \in Nat, r \in Nat : w = e.s.sendWindow /\ r = g.s.recvWindow
    BY <1>1
  <2>2. PICK a \in Nat, b \in Nat : a = e.accepted /\ b = g.delivered
    BY <1>7, <1>14
  <2>3. /\ m.sent = a - l /\ m.learned = w + (a - l) - InitialWindow /\ m.delivered = b
        /\ m.credited = r + b - InitialWindow
    BY <1>13, <2>1, <2>2
  <2>4. b + d + l = a /\ w + d + c = r /\ r <= InitialWindow
    BY <1>8, <1>9, <1>10, <2>1, <2>2
  <2>5. m.credited = m.learned + c /\ m.delivered <= m.sent /\ m.credited <= m.delivered
    BY <1>14, <2>3, <2>4
  <2>6. m.sent \in Int /\ m.learned \in Int /\ m.credited \in Int
    BY <1>14, <2>3
  <2> QED
    BY <1>7, <1>13, <1>15, <2>5, <2>6 DEF Balanced
<1> QED
  BY <1>2, <1>12, <1>16

-----------------------------------------------------------------------------
(* What a step does to the flow of one direction.                          *)
Gives(m, m2, n) ==
    m2 = [m EXCEPT !.given = m.given + n, !.sent = Flows!SentWith(m.given + n, m.learned)]
Hands(m, m2, n) == n <= m.sent - m.delivered /\ m2 = [m EXCEPT !.delivered = m.delivered + n]
Repays(m, m2) == m.delivered - m.credited >= Threshold /\ m2 = [m EXCEPT !.credited = m.delivered]
Learns(m, m2, n) ==
    /\ n <= m.credited - m.learned
    /\ m2 = [m EXCEPT !.learned = m.learned + n, !.sent = Flows!SentWith(m.given, m.learned + n)]
FlowMoves(m, m2) ==
    Repays(m, m2) \/ \E n \in Nat : Gives(m, m2, n) \/ Hands(m, m2, n) \/ Learns(m, m2, n)

Held(id, e, g, e2, g2) == /\ Runs(id, e2, g2) <=> Runs(id, e, g)
                          /\ Runs(id, e, g) => Meter(e2, g2) = Meter(e, g)
Moves(id, e, g, e2, g2) == /\ Runs(id, e, g) /\ Runs(id, e2, g2)
                           /\ FlowMoves(Meter(e, g), Meter(e2, g2))
Steady(id, e, g, e2, g2) == Runs(id, e2, g2) =>
    Meter(e2, g2) = IF Runs(id, e, g) THEN Meter(e, g) ELSE NoUnits

StreamStep(id, e, g, e2, g2) ==
    \/ Steady(id, e, g, e2, g2) /\ Steady(id, g, e, g2, e2)
    \/ Moves(id, e, g, e2, g2) /\ Held(id, g, e, g2, e2)
    \/ Held(id, e, g, e2, g2) /\ Moves(id, g, e, g2, e2)

LEMMA HeldAsIs ==
    ASSUME NEW id, NEW e, NEW g, NEW e2, NEW g2,
           e2.up = e.up, g2.up = g.up, e2.known = e.known, e2.s.localClosed = e.s.localClosed,
           (g2.known \/ Opens(id, e2)) <=> (g.known \/ Opens(id, e)),
           e2.accepted = e.accepted, e2.s.sendWindow = e.s.sendWindow,
           e2.s.pendingData = e.s.pendingData,
           g2.delivered = g.delivered, g2.s.recvWindow = g.s.recvWindow
    PROVE  Held(id, e, g, e2, g2)
BY DEF Held, Runs, Meter, SentBy

LEMMA HeldIsSteady ==
    ASSUME NEW id, NEW e, NEW g, NEW e2, NEW g2, Held(id, e, g, e2, g2)
    PROVE  Steady(id, e, g, e2, g2)
BY DEF Held, Steady

LEMMA BeginsFlows ==
    ASSUME NEW p \in Peers, NEW id \in Ids, NEW e, NEW g, NEW e2, NEW g2,
           Pair(p, id, e, g), EndOK(id, e2), Begins(id, e, g, e2, g2)
    PROVE  StreamStep(id, e, g, e2, g2)
<1>1. ~Runs(id, e, g) /\ ~Runs(id, g2, e2)
  BY DEF Runs, Begins, Blank
<1>2. Meter(e2, g2) = NoUnits
  <2>1. g2.s = NewStream /\ g2.delivered = 0
    BY DEF Begins, Blank, Pair, EndOK
  <2>2. /\ e2.s.sendWindow = InitialWindow /\ e2.s.pendingData = << >> /\ e2.accepted = 0
        /\ g2.s.recvWindow = InitialWindow
    BY <2>1, NewStreamFields DEF Begins
  <2>3. InitialWindow \in Nat /\ LengthOf(<< >>) = 0
    BY WindowAssumption, LengthOfFew
  <2> QED
    BY <2>1, <2>2, <2>3 DEF Meter, SentBy, NoUnits
<1> QED
  BY <1>1, <1>2 DEF StreamStep, Steady

(* The direction of the end that is not the sender of data.                *)
LEMMA SendsHolds ==
    ASSUME NEW id, NEW e, NEW g, NEW e2, NEW g2, NEW fs, Sends(id, e, g, e2, g2, fs)
    PROVE  Held(id, g, e, g2, e2)
BY HeldAsIs DEF Sends

LEMMA SendsRuns ==
    ASSUME NEW p \in Peers, NEW id \in Ids, NEW e, NEW g, NEW e2, NEW g2, Pair(p, id, e, g),
           NEW fs \in Seq(PayloadFrames(id)), Sends(id, e, g, e2, g2, fs)
    PROVE  Runs(id, e2, g2) <=> Runs(id, e, g)
<1>1. CASE e.up
  <2>1. fs \in Seq(StreamFrames(id)) /\ e.line \in Seq(StreamFrames(id)) /\ e2.line = e.line \o fs
    <3>1. PayloadFrames(id) \subseteq StreamFrames(id)
      BY SentFrames
    <3>2. e2.line = e.line \o fs
      BY <1>1, Zenon DEF Sends
    <3>3. e.line \in Seq(StreamFrames(id))
      BY DEF Pair, EndOK
    <3> QED
      BY <3>1, <3>2, <3>3
  <2>2. Opens(id, e2) <=> Opens(id, e) \/ Syn(id) \in Elems(fs)
    BY <2>1, LineGrows DEF Grew
  <2>3. Elems(fs) \subseteq PayloadFrames(id)
    BY DEF Elems
  <2>4. Syn(id) \notin PayloadFrames(id)
    BY DEF Syn, Frame, PayloadFrames
  <2> QED
    BY <2>2, <2>3, <2>4 DEF Runs, Sends
<1>2. CASE ~e.up
  BY <1>2 DEF Runs, Sends
<1> QED
  BY <1>1, <1>2

(* sendToStream.                                                           *)
LEMMA GivesFlows ==
    ASSUME NEW p \in Peers, NEW id \in Ids, NEW e, NEW g, NEW e2, NEW g2, Pair(p, id, e, g),
           Pair(p, id, e2, g2), NEW fs \in Seq(PayloadFrames(id)), Sends(id, e, g, e2, g2, fs),
           g2 = g
    PROVE  StreamStep(id, e, g, e2, g2)
<1>1. Held(id, g, e, g2, e2) /\ (Runs(id, e2, g2) <=> Runs(id, e, g))
  BY SendsHolds, SendsRuns
<1>2. CASE ~Runs(id, e, g)
  BY <1>1, <1>2, HeldIsSteady DEF StreamStep, Steady
<1>3. CASE Runs(id, e, g)
  <2>1. PICK m, m2 : m = Meter(e, g) /\ m2 = Meter(e2, g2)
    OBVIOUS
  <2>2. PICK c : c = LengthOf(CreditOf(id, g))
    OBVIOUS
  <2>3. Balanced(m, c) /\ Balanced(m2, c)
    BY <1>1, <1>3, <2>1, <2>2, Balance
  <2>4. m2.credited = m.credited /\ m2.delivered = m.delivered /\ m.given <= m2.given
    BY <2>1 DEF Meter, Sends
  <2>5. PICK n \in Nat : m2.given = m.given + n
    <3>1. m2.given - m.given \in Nat /\ m2.given = m.given + (m2.given - m.given)
      BY <2>3, <2>4, TunnelAssumption, SMTT(30) DEF Balanced
    <3> QED
      BY <3>1
  <2>6. m2.learned = m.learned
    BY <2>3, <2>4, SMTT(30) DEF Balanced
  <2>7. m2.sent = Flows!SentWith(m.given + n, m.learned)
    BY <2>3, <2>5, <2>6 DEF Balanced
  <2>8. Gives(m, m2, n)
    BY <2>1, <2>4, <2>5, <2>6, <2>7, ZenonT(40) DEF Gives, Meter
  <2> QED
    BY <1>1, <1>3, <2>1, <2>8 DEF StreamStep, Moves, FlowMoves
<1> QED
  BY <1>2, <1>3

(* processPending.                                                         *)
LEMMA LearnsFlows ==
    ASSUME NEW p \in Peers, NEW id \in Ids, NEW e, NEW g, NEW e2, NEW g2, Pair(p, id, e, g),
           Pair(p, id, e2, g2), NEW fs \in Seq(PayloadFrames(id)), Sends(id, e, g, e2, g2, fs),
           e2.accepted = e.accepted, LengthOf(CreditOf(id, g2)) <= LengthOf(CreditOf(id, g))
    PROVE  StreamStep(id, e, g, e2, g2)
<1>1. Held(id, g, e, g2, e2) /\ (Runs(id, e2, g2) <=> Runs(id, e, g))
  BY SendsHolds, SendsRuns
<1>2. CASE ~Runs(id, e, g)
  BY <1>1, <1>2, HeldIsSteady DEF StreamStep, Steady
<1>3. CASE Runs(id, e, g)
  <2>1. PICK m, m2 : m = Meter(e, g) /\ m2 = Meter(e2, g2)
    OBVIOUS
  <2>2. PICK c, c2 : c = LengthOf(CreditOf(id, g)) /\ c2 = LengthOf(CreditOf(id, g2))
    OBVIOUS
  <2>3. Balanced(m, c) /\ Balanced(m2, c2) /\ c2 <= c
    BY <1>1, <1>3, <2>1, <2>2, Balance
  <2>4. m2.credited = m.credited /\ m2.delivered = m.delivered /\ m2.given = m.given
    BY <2>1 DEF Meter, Sends
  <2>5. PICK n \in Nat : c = c2 + n
    <3>1. c - c2 \in Nat /\ c = c2 + (c - c2)
      BY <2>3 DEF Balanced
    <3> QED
      BY <3>1
  <2>6. m2.learned = m.learned + n /\ n <= m.credited - m.learned
    <3>1. PICK l \in Int, l2 \in Int, k \in Nat : l = m.learned /\ l2 = m2.learned /\ k = c2
      BY <2>3 DEF Balanced
    <3>2. m.credited = l + c /\ m2.credited = l2 + c2
      BY <2>3, <3>1 DEF Balanced
    <3>3. l + (k + n) = l2 + k /\ m.credited = l + (k + n)
      BY <2>4, <2>5, <3>1, <3>2
    <3>4. l + (k + n) = l2 + k => l2 = l + n
      OBVIOUS
    <3>5. n <= (l + (k + n)) - l
      OBVIOUS
    <3> QED
      BY <3>1, <3>3, <3>4, <3>5
  <2>7. m2.sent = Flows!SentWith(m.given, m.learned + n)
    BY <2>3, <2>4, <2>6 DEF Balanced
  <2>8. Learns(m, m2, n)
    BY <2>1, <2>4, <2>6, <2>7 DEF Learns, Meter
  <2> QED
    BY <1>1, <1>3, <2>1, <2>8 DEF StreamStep, Moves, FlowMoves
<1> QED
  BY <1>2, <1>3

LEMMA ShutsFlows ==
    ASSUME NEW p \in Peers, NEW id \in Ids, NEW e, NEW g, NEW e2, NEW g2,
           Pair(p, id, e, g), NEW f, Shuts(e, g, e2, g2, f)
    PROVE  StreamStep(id, e, g, e2, g2)
<1>1. e.s \in Stream
  BY DEF Pair, EndOK
<1>2. ~Runs(id, e2, g2)
  BY <1>1, ClosedFields DEF Runs, Shuts
<1>3. Held(id, g, e, g2, e2)
  BY <1>1, ClosedFields, HeldAsIs DEF Shuts
<1> QED
  BY <1>2, <1>3, HeldIsSteady DEF StreamStep, Steady

LEMMA RepliesFlows ==
    ASSUME NEW p \in Peers, NEW id \in Ids, NEW e, NEW g, NEW e2, NEW g2,
           Pair(p, id, e, g), NEW f \in StreamFrames(id), Replies(e, g, e2, g2, f)
    PROVE  StreamStep(id, e, g, e2, g2)
<1>1. e.line \in Seq(StreamFrames(id))
  BY DEF Pair, EndOK
<1>2. Opens(id, e2) <=> Opens(id, e)
  <2>1. CASE e2.line = e.line
    BY <2>1 DEF Opens
  <2>2. CASE e2.line # e.line
    <3>1. SentOne(id, e, e2, f) /\ f.flag = "ACK"
      BY <1>1, <2>2, SendOne DEF Replies
    <3>2. f # Syn(id)
      BY <3>1 DEF Syn, Frame
    <3> QED
      BY <3>1, <3>2 DEF SentOne
  <2> QED
    BY <2>1, <2>2
<1>3. Held(id, e, g, e2, g2)
  BY <1>2, HeldAsIs DEF Replies
<1>4. Held(id, g, e, g2, e2)
  BY HeldAsIs DEF Replies
<1> QED
  BY <1>3, <1>4, HeldIsSteady DEF StreamStep

LEMMA ReturnsFlows ==
    ASSUME NEW p \in Peers, NEW id \in Ids, NEW e, NEW g, NEW e2, NEW g2, Pair(p, id, e, g),
           NEW f \in StreamFrames(id), NEW c, Returns(e, g, e2, g2, c, f), f.length >= Threshold
    PROVE  StreamStep(id, e, g, e2, g2)
<1>1. e.s \in Stream /\ e.line \in Seq(StreamFrames(id)) /\ f.length \in Nat
  BY FrameKinds DEF Pair, EndOK
<1>2. PICK n \in Nat : n = f.length
  BY <1>1
<1>3. HasReturned(e.s, e2.s, n)
  BY <1>1, <1>2, ReturnedFields DEF Returns
<1>4. Opens(id, e2) <=> Opens(id, e)
  <2>1. CASE ~e.up
    BY <2>1 DEF Opens, Returns
  <2>2. CASE e.up
    <3>1. SentOne(id, e, e2, f) /\ f.flag = "none"
      BY <1>1, <2>2, SendOne DEF Returns
    <3>2. f # Syn(id)
      BY <3>1 DEF Syn, Frame
    <3> QED
      BY <3>1, <3>2 DEF SentOne
  <2> QED
    BY <2>1, <2>2
<1>5. Held(id, e, g, e2, g2)
  BY <1>3, <1>4, HeldAsIs DEF Returns, HasReturned
<1>6. Runs(id, g2, e2) <=> Runs(id, g, e)
  BY DEF Runs, Returns
<1>7. CASE ~Runs(id, g, e)
  BY <1>5, <1>6, <1>7, HeldIsSteady DEF StreamStep, Steady
<1>8. CASE Runs(id, g, e)
  <2>1. PICK m, m2 : m = Meter(g, e) /\ m2 = Meter(g2, e2)
    OBVIOUS
  <2>2. PICK r \in Nat, d \in Nat : r = e.s.recvWindow /\ d = e.delivered
    <3>1. e.s.recvWindow \in Nat /\ e.delivered \in Nat
      BY <1>1, StreamFields, TunnelAssumption DEF Pair, EndOK
    <3> QED
      BY <3>1
  <2>3. r + n = InitialWindow
    <3>1. Accounted(e) /\ e.known /\ e.up /\ c \in e.owed /\ c.pc = "consumed" /\ c.length \in Nat
      BY <1>8 DEF Pair, Sound, EndOK, Returns, Runs
    <3>2. r + e.s.unackedRecvBytes + c.length = InitialWindow
      BY <2>2, <3>1 DEF Accounted
    <3>3. e.s.unackedRecvBytes \in Nat /\ n = e.s.unackedRecvBytes + c.length
      BY <1>1, <1>2, StreamFields DEF Returns
    <3> QED
      BY <3>1, <3>2, <3>3
  <2>4. InitialWindow \in Nat /\ Threshold \in Nat /\ n >= Threshold
    BY <1>2, WindowAssumption
  <2>5. m.delivered = d /\ m.credited = r + d - InitialWindow
    BY <2>1, <2>2 DEF Meter
  <2>6. m.delivered - m.credited >= Threshold
    BY <2>3, <2>4, <2>5
  <2>7. e2.s.recvWindow = r + n /\ e2.delivered = d /\ g2 = g
    BY <1>3, <2>2 DEF HasReturned, Returns
  <2>8. m2.credited = m.delivered
    BY <2>1, <2>3, <2>4, <2>5, <2>7 DEF Meter
  <2>9. m2 = [m EXCEPT !.credited = m.delivered]
    BY <2>1, <2>2, <2>7, <2>8 DEF Meter
  <2>10. Repays(m, m2)
    BY <2>6, <2>9 DEF Repays
  <2> QED
    BY <1>5, <1>6, <1>8, <2>1, <2>10 DEF StreamStep, Moves, FlowMoves
<1> QED
  BY <1>7, <1>8

LEMMA IgnoresFlows ==
    ASSUME NEW id \in Ids, NEW e, NEW g, NEW e2, NEW g2,
           EndOK(id, g2), NEW f \in StreamFrames(id), Ignores(e, g, e2, g2, f)
    PROVE  StreamStep(id, e, g, e2, g2)
<1>1. TookOne(id, g, g2, f)
  BY TakeOne DEF EndOK, Ignores
<1>2. e2.known \/ Opens(id, g2) <=> e.known \/ Opens(id, g)
  <2>1. CASE ~e.known
    <3>1. f # Syn(id)
      BY <2>1 DEF Ignores, Syn, Frame
    <3> QED
      BY <1>1, <2>1, <3>1 DEF TookOne, Ignores
  <2>2. CASE e.known
    BY <2>2 DEF Ignores
  <2> QED
    BY <2>1, <2>2
<1>3. Held(id, e, g, e2, g2)
  BY HeldAsIs DEF Ignores
<1>4. Held(id, g, e, g2, e2)
  BY <1>2, HeldAsIs DEF Ignores
<1> QED
  BY <1>3, <1>4, HeldIsSteady DEF StreamStep

LEMMA AcceptsFlows ==
    ASSUME NEW p \in Peers, NEW id \in Ids, NEW e, NEW g, NEW e2, NEW g2,
           Pair(p, id, e, g), EndOK(id, g2), Accepts(id, e, g, e2, g2)
    PROVE  StreamStep(id, e, g, e2, g2)
<1>1. Syn(id) \in StreamFrames(id)
  BY SentFrames
<1>2. TookOne(id, g, g2, Syn(id))
  BY <1>1, TakeOne DEF EndOK, Accepts
<1>3. AtSyn(Other(p), id, g, e) /\ Opens(id, g)
  BY <1>2 DEF Pair, Sound, TookOne
<1>4. e.s = NewStream
  BY DEF Pair, EndOK, Accepts
<1>5. e2.known \/ Opens(id, g2) <=> e.known \/ Opens(id, g)
  BY <1>3 DEF Accepts
<1>6. Held(id, g, e, g2, e2)
  <2>1. Runs(id, g2, e2) <=> Runs(id, g, e)
    BY <1>5 DEF Runs, Accepts
  <2>2. Meter(g2, e2) = Meter(g, e)
    BY <1>4 DEF Meter, SentBy, Accepts
  <2> QED
    BY <2>1, <2>2 DEF Held
<1>7. ~Runs(id, e, g)
  BY DEF Runs, Accepts
<1>8. Meter(e2, g2) = NoUnits
  <2>1. /\ e2.s = NewStream /\ e2.accepted = 0 /\ g2.delivered = 0
        /\ g2.s.recvWindow = InitialWindow
    BY <1>3 DEF AtSyn, Blank, Accepts
  <2>2. e2.s.sendWindow = InitialWindow /\ e2.s.pendingData = << >>
    BY <2>1, NewStreamFields
  <2>3. InitialWindow \in Nat /\ LengthOf(<< >>) = 0
    BY WindowAssumption, LengthOfFew
  <2> QED
    BY <2>1, <2>2, <2>3 DEF Meter, SentBy, NoUnits
<1> QED
  BY <1>6, <1>7, <1>8, HeldIsSteady DEF StreamStep, Steady

LEMMA HearsFlows ==
    ASSUME NEW p \in Peers, NEW id \in Ids, NEW e, NEW g, NEW e2, NEW g2, Pair(p, id, e, g),
           EndOK(id, g2), NEW f \in StreamFrames(id), Hears(e, g, e2, g2, f)
    PROVE  StreamStep(id, e, g, e2, g2)
<1>1. TookOne(id, g, g2, f)
  BY TakeOne DEF EndOK, Hears
<1>2. Ended(g)
  BY <1>1 DEF TookOne, Hears
<1>3. ~Runs(id, g2, e2)
  <2>1. Closes(id, g, e)
    BY DEF Pair, Sound
  <2> QED
    BY <1>2, <2>1 DEF Closes, Runs, Hears
<1>4. HasHeard(e.s, e2.s)
  BY HeardFields DEF Pair, EndOK, Hears
<1>5. Opens(id, e2) <=> Opens(id, e)
  BY DEF Opens, Hears
<1>6. Held(id, e, g, e2, g2)
  BY <1>4, <1>5, HeldAsIs DEF HasHeard, Hears
<1> QED
  BY <1>3, <1>6, HeldIsSteady DEF StreamStep, Steady

LEMMA TakesFlows ==
    ASSUME NEW p \in Peers, NEW id \in Ids, NEW e, NEW g, NEW e2, NEW g2, Pair(p, id, e, g),
           Pair(p, id, e2, g2), NEW f \in StreamFrames(id), NEW c, Takes(e, g, e2, g2, f, c)
    PROVE  StreamStep(id, e, g, e2, g2)
<1>0. Other(p) \in Peers /\ Other(Other(p)) = p
  BY Peering
<1>1. e.s \in Stream /\ f.length \in Nat /\ EndOK(id, g2) /\ EndOK(id, e)
  BY FrameKinds DEF Pair, EndOK
<1>2. PICK n \in Nat : n = f.length
  BY <1>1
<1>3. n <= e.s.recvWindow
  <2>1. /\ g2.line \in Seq(StreamFrames(id)) /\ g.line = <<f>> \o g2.line
        /\ f.type = "Data" /\ f.flag = "none" /\ e.known /\ ~e.s.remoteClosed
    BY <1>1 DEF EndOK, Takes
  <2>2. Fits(e, g, f)
    BY <2>1, DataFits
  <2> QED
    BY <1>2, <2>2 DEF Fits
<1>4. HasTaken(e.s, e2.s, n)
  BY <1>1, <1>2, <1>3, TakenFields DEF Takes
<1>5. Opens(id, e2) <=> Opens(id, e)
  BY DEF Opens, Takes
<1>6. Held(id, e, g, e2, g2)
  BY <1>4, <1>5, HeldAsIs DEF HasTaken, Takes
<1>7. Runs(id, g2, e2) <=> Runs(id, g, e)
  BY DEF Runs, Takes
<1>8. CASE ~Runs(id, g, e)
  BY <1>6, <1>7, <1>8, HeldIsSteady DEF StreamStep, Steady
<1>9. CASE Runs(id, g, e)
  <2>1. PICK m, m2 : m = Meter(g, e) /\ m2 = Meter(g2, e2)
    OBVIOUS
  <2>2. PICK r \in Nat, d \in Nat : r = e.s.recvWindow /\ d = e.delivered
    <3>1. e.s.recvWindow \in Nat /\ e.delivered \in Nat
      BY <1>1, StreamFields, TunnelAssumption DEF EndOK
    <3> QED
      BY <3>1
  <2>3. e2.s.recvWindow = r - n /\ e2.delivered = d + n
    BY <1>2, <1>4, <2>2 DEF HasTaken, Takes
  <2>4. InitialWindow \in Nat
    BY WindowAssumption
  <2>5. m2.credited = m.credited
    BY <2>1, <2>2, <2>3, <2>4 DEF Meter
  <2>6. m2 = [m EXCEPT !.delivered = m.delivered + n]
    BY <2>1, <2>2, <2>3, <2>5 DEF Meter, SentBy, Takes
  <2>7. n <= m.sent - m.delivered
    <3>1. PICK c2 : Balanced(m2, c2)
      <4>1. Pair(Other(p), id, g2, e2)
        BY <1>0 DEF Pair
      <4> QED
        BY <1>0, <1>7, <1>9, <2>1, <4>1, Balance
    <3>2. m2.delivered <= m2.sent /\ m2.sent \in Int
      BY <3>1 DEF Balanced
    <3>3. m2.sent = m.sent /\ m2.delivered = d + n /\ m.delivered = d
      BY <2>1, <2>2, <2>3 DEF Meter, SentBy, Takes
    <3> QED
      BY <3>2, <3>3
  <2>8. Hands(m, m2, n)
    BY <2>6, <2>7 DEF Hands
  <2> QED
    BY <1>6, <1>7, <1>9, <2>1, <2>8 DEF StreamStep, Moves, FlowMoves
<1> QED
  BY <1>8, <1>9

LEMMA LessFlows ==
    ASSUME NEW p, NEW id \in Ids, NEW e, NEW g, NEW e2, NEW g2, EndOK(id, g), EndOK(id, g2),
           Less(e, e2), Less(g, g2), AtSyn(p, id, e, g)
    PROVE  Steady(id, e, g, e2, g2)
<1>1. SUFFICES ASSUME Runs(id, e2, g2) PROVE Runs(id, e, g) /\ Meter(e2, g2) = Meter(e, g)
  BY DEF Steady
<1>2. Opens(id, e2) <=> Opens(id, e)
  BY DEF Opens, Less
<1>3. g.known \/ Opens(id, e)
  BY <1>1, <1>2 DEF Runs, Less
<1>4. Runs(id, e, g) /\ e2.s = e.s
  BY <1>1, <1>3 DEF Runs, Less
<1>5. g2.s = g.s
  BY <1>1, <1>2 DEF Runs, Less, AtSyn, Blank, EndOK
<1> QED
  BY <1>4, <1>5 DEF Meter, SentBy, Less

-----------------------------------------------------------------------------
(* The call stack.  Only its last call parses, no more frames than are     *)
(* there; the ACK or the credit that is owed comes right before that, or   *)
(* last.                                                                   *)
Owing == {"ack", "consumed"}

StackFine(st, n) ==
    \A i \in 1 .. Len(st) :
        /\ st[i].pc = "parse" => i = Len(st) /\ st[i].left <= n
        /\ st[i].pc \in Owing => i = Len(st) \/ (i + 1 = Len(st) /\ st[i + 1].pc = "parse")

PlainCalls == {c \in Calls : c.pc \in Callbacks \cup {"erase", "closeAll", "closeTCP"}}

LEMMA CallKinds ==
    ASSUME NEW c \in Calls
    PROVE  /\ c.pc \in Owing \/ c.pc = "parse" \/ c \in PlainCalls
           /\ c.pc \in Callbacks \cup {"erase"} \cup Owing => c.id \in Ids
           /\ c.pc = "parse" => c.left \in Nat \ {0} /\ c.pc \notin Owing
           /\ c.pc = "consumed" => c.length \in Nat
           /\ c.pc = "closeAll" => c.ids \subseteq Ids
           /\ c \in PlainCalls => c.pc \notin Owing /\ c.pc # "parse"
BY DEF Calls, PlainCalls, Owing, Callbacks

LEMMA OwedFew ==
    ASSUME NEW id
    PROVE  /\ Owed(<< >>, id) = {}
           /\ \A c : Owed(<<c>>, id) = IF c.pc \in Owing /\ c.id = id THEN {c} ELSE {}
BY ElemsFew DEF Owed, Owing

LEMMA OwedJoin ==
    ASSUME NEW id, NEW s \in Seq(Calls), NEW t \in Seq(Calls)
    PROVE  Owed(s \o t, id) = Owed(s, id) \cup Owed(t, id)
<1>1. Elems(s \o t) = Elems(s) \cup Elems(t)
  BY ElemsJoin
<1> QED
  BY <1>1 DEF Owed

LEMMA OwedType ==
    ASSUME NEW id, NEW s \in Seq(Calls)
    PROVE  \A c \in Owed(s, id) : c \in Calls /\ c.pc \in Owing /\ c.id = id
<1>1. Elems(s) \subseteq Calls
  BY ElemsType
<1> QED
  BY <1>1 DEF Owed, Owing

(* The application, or the end of the session, calls.                      *)
Pushed(st, x, n) == /\ x \o st \in Seq(Calls) /\ StackFine(x \o st, n)
                    /\ \A id : Owed(x \o st, id) = Owed(st, id)

LEMMA Push ==
    ASSUME NEW n \in Nat, NEW st \in Seq(Calls), StackFine(st, n), NEW x \in Seq(PlainCalls)
    PROVE  Pushed(st, x, n)
<1>1. PlainCalls \subseteq Calls /\ \A c \in PlainCalls : c.pc \notin Owing /\ c.pc # "parse"
  BY CallKinds DEF PlainCalls
<1>2. x \in Seq(Calls)
  BY <1>1
<1>3. PICK a : a = x \o st
  OBVIOUS
<1>4. /\ a \in Seq(Calls) /\ Len(a) = Len(x) + Len(st) /\ Len(x) \in Nat /\ Len(st) \in Nat
      /\ \A i \in 1 .. Len(x) : a[i] = x[i]
      /\ \A i \in 1 .. Len(a) : i > Len(x) => i - Len(x) \in 1 .. Len(st) /\ a[i] = st[i - Len(x)]
  BY <1>2, <1>3
<1>5. \A i \in 1 .. Len(x) : x[i] \in PlainCalls
  OBVIOUS
<1>6. StackFine(a, n)
  <2>1. SUFFICES ASSUME NEW i \in 1 .. Len(a)
                 PROVE  /\ a[i].pc = "parse" => i = Len(a) /\ a[i].left <= n
                        /\ a[i].pc \in Owing => \/ i = Len(a)
                                                \/ i + 1 = Len(a) /\ a[i + 1].pc = "parse"
    BY DEF StackFine
  <2>2. CASE i <= Len(x)
    <3>1. a[i] \in PlainCalls
      BY <1>4, <1>5, <2>2
    <3> QED
      BY <1>1, <3>1
  <2>3. CASE i > Len(x)
    <3>1. PICK j \in 1 .. Len(st) : j = i - Len(x) /\ a[i] = st[j]
      BY <1>4, <2>3
    <3>2. /\ st[j].pc = "parse" => j = Len(st) /\ st[j].left <= n
          /\ st[j].pc \in Owing => j = Len(st) \/ (j + 1 = Len(st) /\ st[j + 1].pc = "parse")
      BY DEF StackFine
    <3>3. j = Len(st) => i = Len(a)
      BY <1>4, <3>1
    <3>4. ASSUME j + 1 = Len(st) PROVE i + 1 = Len(a) /\ a[i + 1] = st[j + 1]
      <4>1. i + 1 = Len(a) /\ i + 1 \in 1 .. Len(a) /\ i + 1 > Len(x) /\ (i + 1) - Len(x) = j + 1
        BY <1>4, <3>1, <3>4
      <4> QED
        BY <1>4, <4>1
    <3> QED
      BY <3>1, <3>2, <3>3, <3>4
  <2> QED
    BY <1>4, <2>2, <2>3
<1>7. ASSUME NEW id PROVE Owed(a, id) = Owed(st, id)
  <2>1. Owed(a, id) = Owed(x, id) \cup Owed(st, id)
    BY <1>2, <1>3, OwedJoin, Zenon
  <2>2. Elems(x) \subseteq PlainCalls
    BY ElemsType
  <2>3. Owed(x, id) = {}
    BY <1>1, <2>2 DEF Owed, Owing
  <2> QED
    BY <2>1, <2>3
<1> QED
  BY <1>3, <1>4, <1>6, <1>7 DEF Pushed

(* A call returns.                                                         *)
Popped(st, n) ==
    /\ Head(st) \in Calls /\ Tail(st) \in Seq(Calls) /\ StackFine(Tail(st), n)
    /\ Head(st) \in PlainCalls => \A id : Owed(Tail(st), id) = Owed(st, id)
    /\ Head(st).pc \in Owing => \A id : /\ Owed(Tail(st), id) = {}
                                        /\ Owed(st, id) = IF Head(st).id = id THEN {Head(st)} ELSE {}
    /\ Head(st).pc = "parse" => /\ Tail(st) = << >> /\ Head(st).left \in 1 .. n
                                /\ \A id : Owed(st, id) = {}

LEMMA Pop ==
    ASSUME NEW n \in Nat, NEW st \in Seq(Calls), StackFine(st, n), st # << >>
    PROVE  Popped(st, n)
<1>1. PICK h \in Calls, t \in Seq(Calls) : h = Head(st) /\ t = Tail(st)
  BY Zenon, HeadTailProperties
<1>2. /\ Len(st) = Len(t) + 1 /\ Len(t) \in Nat /\ st[1] = h
      /\ \A i \in 1 .. Len(t) : t[i] = st[i + 1] /\ i + 1 \in 1 .. Len(st)
  BY <1>1
<1>3. StackFine(t, n)
  <2>1. SUFFICES ASSUME NEW i \in 1 .. Len(t)
                 PROVE  /\ t[i].pc = "parse" => i = Len(t) /\ t[i].left <= n
                        /\ t[i].pc \in Owing => \/ i = Len(t)
                                                \/ i + 1 = Len(t) /\ t[i + 1].pc = "parse"
    BY DEF StackFine
  <2>2. PICK j \in 1 .. Len(st) : j = i + 1 /\ t[i] = st[j]
    BY <1>2
  <2>3. /\ st[j].pc = "parse" => j = Len(st) /\ st[j].left <= n
        /\ st[j].pc \in Owing => j = Len(st) \/ (j + 1 = Len(st) /\ st[j + 1].pc = "parse")
    BY DEF StackFine
  <2>4. j = Len(st) => i = Len(t)
    BY <1>2, <2>2
  <2>5. ASSUME j + 1 = Len(st) PROVE i + 1 = Len(t) /\ t[i + 1] = st[j + 1]
    BY <1>2, <2>2, <2>5
  <2> QED
    BY <2>2, <2>3, <2>4, <2>5
<1>4. ASSUME NEW id PROVE Owed(st, id) = Owed(<<h>>, id) \cup Owed(t, id)
  <2>1. PICK u \in Seq(Calls) : u = <<h>>
    <3>1. <<h>> \in Seq(Calls)
      OBVIOUS
    <3> QED
      BY <3>1, Zenon
  <2>2. st = u \o t
    BY <1>1, <2>1
  <2> QED
    BY <2>1, <2>2, OwedJoin, Zenon
<1>5. \A id : Owed(<<h>>, id) = IF h.pc \in Owing /\ h.id = id THEN {h} ELSE {}
  BY OwedFew, Zenon
<1>6. h \in PlainCalls => h.pc \notin Owing
  BY CallKinds
<1>7. 1 \in 1 .. Len(st)
  BY <1>2
<1>8. ASSUME h.pc \in Owing, NEW id PROVE Owed(t, id) = {}
  <2>1. 1 = Len(st) \/ (1 + 1 = Len(st) /\ st[1 + 1].pc = "parse")
    BY <1>2, <1>7, <1>8 DEF StackFine
  <2>2. \A i \in 1 .. Len(t) : t[i].pc = "parse"
    BY <1>2, <2>1
  <2>3. "parse" \notin Owing
    BY DEF Owing
  <2> QED
    BY <2>2, <2>3 DEF Owed, Elems, Owing
<1>9. ASSUME h.pc = "parse" PROVE t = << >> /\ h.left \in 1 .. n /\ h.pc \notin Owing
  <2>1. 1 = Len(st) /\ h.left <= n
    BY <1>2, <1>7, <1>9 DEF StackFine
  <2>2. h.left \in Nat \ {0} /\ h.pc \notin Owing
    BY <1>9, CallKinds
  <2>3. Len(t) = 0
    BY <1>2, <2>1
  <2>4. t = << >>
    BY <2>3
  <2> QED
    BY <2>1, <2>2, <2>4
<1>10. ASSUME h \in PlainCalls, NEW id PROVE Owed(t, id) = Owed(st, id)
  BY <1>4, <1>5, <1>6, <1>10
<1>11. ASSUME h.pc \in Owing, NEW id PROVE Owed(st, id) = IF h.id = id THEN {h} ELSE {}
  BY <1>4, <1>5, <1>8, <1>11
<1>12. ASSUME h.pc = "parse", NEW id PROVE Owed(st, id) = {}
  BY <1>4, <1>5, <1>9, <1>12, OwedFew
<1> QED
  BY <1>1, <1>3, <1>8, <1>9, <1>10, <1>11, <1>12 DEF Popped

(* The frame that was first is handled, and the next one is parsed, if the *)
(* recv brought one.                                                       *)
Onward(left) == IF left > 1 THEN <<[pc |-> "parse", left |-> left - 1]>> ELSE << >>

LEMMA OnwardIsFine ==
    ASSUME NEW n \in Nat, NEW left \in 1 .. n
    PROVE  /\ Onward(left) \in Seq(Calls) /\ StackFine(Onward(left), n - 1)
           /\ \A id : Owed(Onward(left), id) = {}
<1>1. CASE left > 1
  <2>1. PICK c : c = [pc |-> "parse", left |-> left - 1]
    OBVIOUS
  <2>2. c \in Calls /\ c.pc = "parse" /\ c.left = left - 1 /\ c.pc \notin Owing
    BY <1>1, <2>1 DEF Calls, Owing
  <2>3. Onward(left) = <<c>>
    BY <1>1, <2>1 DEF Onward
  <2>4. PICK u : u = <<c>>
    OBVIOUS
  <2>5. u \in Seq(Calls) /\ Len(u) = 1 /\ u[1] = c
    BY <2>2, <2>4
  <2>6. StackFine(u, n - 1)
    BY <2>2, <2>5 DEF StackFine
  <2>7. \A id : Owed(u, id) = {}
    BY <2>2, <2>4, OwedFew
  <2> QED
    BY <2>3, <2>4, <2>5, <2>6, <2>7
<1>2. CASE ~(left > 1)
  <2>1. Onward(left) = << >> /\ << >> \in Seq(Calls) /\ Len(<< >>) = 0
    BY <1>2 DEF Onward
  <2> QED
    BY <2>1, OwedFew DEF StackFine
<1> QED
  BY <1>1, <1>2

LEMMA OwingIsFine ==
    ASSUME NEW n \in Nat, NEW left \in 1 .. n, NEW c \in Calls, c.pc \in Owing
    PROVE  /\ <<c>> \o Onward(left) \in Seq(Calls) /\ StackFine(<<c>> \o Onward(left), n - 1)
           /\ \A id : Owed(<<c>> \o Onward(left), id) = IF c.id = id THEN {c} ELSE {}
<1>1. PICK u \in Seq(Calls), v \in Seq(Calls) : u = <<c>> /\ v = Onward(left)
  <2>1. <<c>> \in Seq(Calls)
    OBVIOUS
  <2> QED
    BY <2>1, OnwardIsFine, Zenon
<1>2. PICK a \in Seq(Calls) : a = u \o v
  <2>1. u \o v \in Seq(Calls)
    OBVIOUS
  <2> QED
    BY <2>1, Zenon
<1>3. c.pc # "parse" /\ "parse" \notin Owing
  BY DEF Owing
<1>4. v = << >> \/ \E d : v = <<d>> /\ d.pc = "parse" /\ d.left = left - 1
  BY <1>1 DEF Onward
<1>5. StackFine(a, n - 1)
  <2>1. CASE v = << >>
    <3>1. Len(a) = 1 /\ a[1] = c
      BY <1>1, <1>2, <2>1
    <3> QED
      BY <1>3, <3>1 DEF StackFine
  <2>2. ASSUME NEW d, v = <<d>>, d.pc = "parse", d.left = left - 1 PROVE StackFine(a, n - 1)
    <3>1. Len(a) = 2 /\ a[1] = c /\ a[2] = d
      BY <1>1, <1>2, <2>2
    <3>2. left - 1 <= n - 1
      OBVIOUS
    <3> QED
      BY <1>3, <2>2, <3>1, <3>2 DEF StackFine
  <2> QED
    BY <1>4, <2>1, <2>2
<1>6. ASSUME NEW id PROVE Owed(a, id) = IF c.id = id THEN {c} ELSE {}
  <2>1. Owed(a, id) = Owed(u, id) \cup Owed(v, id)
    BY <1>2, OwedJoin, Zenon
  <2>2. Owed(v, id) = {}
    BY <1>1, OnwardIsFine, Zenon
  <2>3. Owed(u, id) = IF c.pc \in Owing /\ c.id = id THEN {c} ELSE {}
    BY <1>1, OwedFew, Zenon
  <2> QED
    BY <2>1, <2>2, <2>3
<1> QED
  BY <1>1, <1>2, <1>5, <1>6

LEMMA ParsingIsFine ==
    ASSUME NEW n \in Nat, NEW left \in 1 .. n
    PROVE  LET st == <<[pc |-> "parse", left |-> left]>>
           IN  st \in Seq(Calls) /\ StackFine(st, n) /\ \A id : Owed(st, id) = {}
<1>1. n + 1 \in Nat /\ left + 1 \in 1 .. (n + 1) /\ (left + 1) - 1 = left /\ (n + 1) - 1 = n
      /\ left + 1 > 1
  OBVIOUS
<1>2. Onward(left + 1) = <<[pc |-> "parse", left |-> left]>>
  BY <1>1 DEF Onward
<1>3. /\ Onward(left + 1) \in Seq(Calls) /\ StackFine(Onward(left + 1), (n + 1) - 1)
      /\ \A id : Owed(Onward(left + 1), id) = {}
  BY <1>1, OnwardIsFine
<1> QED
  BY <1>1, <1>2, <1>3

LEMMA FineWithMore ==
    ASSUME NEW n \in Nat, NEW m \in Nat, n <= m, NEW st \in Seq(Calls), StackFine(st, n)
    PROVE  StackFine(st, m)
<1>1. \A i \in 1 .. Len(st) : st[i] \in Calls
  OBVIOUS
<1>2. \A i \in 1 .. Len(st) : st[i].pc = "parse" => st[i].left \in Nat
  BY <1>1, CallKinds
<1> QED
  BY <1>2 DEF StackFine

-----------------------------------------------------------------------------
(* The invariant of the tunnel.                                            *)
Typed == TypeOK /\ DOMAIN streams = Peers /\ wire \in [Peers -> Seq(GoodFrames)]
Parity == \A p \in Peers : Owner(m_nextStreamId[p]) = p
StacksFine == \A p \in Peers : StackFine(stack[p], Len(wire[Other(p)]))
Streams == \A p \in Peers, id \in Ids : Sound(p, id, End(p, id), End(Other(p), id))

TunnelInv == Typed /\ Parity /\ StacksFine /\ Streams

LEMMA EndTyped ==
    Typed => \A p \in Peers, id \in Ids : EndOK(id, End(p, id))
<1> SUFFICES ASSUME Typed, NEW p \in Peers, NEW id \in Ids PROVE EndOK(id, End(p, id))
  OBVIOUS
<1>1. PICK w \in Seq(Frames) : w = wire[p]
  BY DEF Typed, TypeOK
<1>2. Pick(w, OfId(id)) \in Seq(StreamFrames(id))
  <2>1. Elems(w) \subseteq GoodFrames
    <3>1. w \in Seq(GoodFrames)
      BY <1>1 DEF Typed
    <3> QED
      BY <3>1, ElemsType
  <2>2. PICK a \in Seq(Frames) : a = Pick(w, OfId(id))
    BY PickIsSeq
  <2>3. Elems(a) = Elems(w) \cap OfId(id)
    BY <2>2, ElemsPick, Zenon
  <2>4. Elems(a) \subseteq StreamFrames(id)
    BY <2>1, <2>3 DEF StreamFrames
  <2>5. a \in Seq(StreamFrames(id))
    BY <2>4, ElemsType
  <2> QED
    BY <2>2, <2>5
<1>3. \A c \in Owed(stack[p], id) : /\ c.pc \in {"ack", "consumed"}
                                    /\ c.pc = "consumed" => c.length \in Nat
  <2>1. stack[p] \in Seq(Calls)
    BY DEF Typed, TypeOK
  <2>2. \A c \in Owed(stack[p], id) : c \in Calls /\ c.pc \in Owing
    BY <2>1, OwedType
  <2> QED
    BY <2>2, CallKinds DEF Owing
<1>4. IF Knows(p, id) THEN streams[p][id] \in Stream ELSE TRUE
  BY DEF Typed, TypeOK, Knows
<1>5. NewStream \in Stream
  BY NewStreamFields
<1>6. accepted[p][id] \in 0 .. MaxAccepted /\ delivered[p][id] \in 0 .. MaxAccepted
      /\ m_nextStreamId[p] \in Nat /\ connected[p] \in BOOLEAN
  BY DEF Typed, TypeOK
<1>7. Knows(p, id) \in BOOLEAN
  BY DEF Knows
<1> QED
  BY <1>1, <1>2, <1>3, <1>4, <1>5, <1>6, <1>7 DEF EndOK, End

LEMMA EndTypedNext ==
    Typed' => \A p \in Peers, id \in Ids : EndOK(id, End(p, id)')
<1>1. (Typed => \A p \in Peers, id \in Ids : EndOK(id, End(p, id)))'
  BY EndTyped, PTL
<1> QED
  BY <1>1

(* What the ends are, in the fields of the records.                        *)
LEMMA EndIs ==
    \A p \in Peers, id \in Ids :
        LET e == End(p, id)
        IN  /\ e.line = Pick(wire[p], OfId(id)) /\ e.owed = Owed(stack[p], id)
            /\ e.known = Knows(p, id) /\ e.up = connected[p]
            /\ Knows(p, id) => e.s = streams[p][id]
            /\ ~Knows(p, id) => e.s = NewStream
            /\ e.accepted = accepted[p][id] /\ e.delivered = delivered[p][id]
            /\ e.next = m_nextStreamId[p]
BY DEF End

LEMMA EndIsNext ==
    \A p \in Peers, id \in Ids :
        LET e == End(p, id)'
        IN  /\ e.line = Pick(wire'[p], OfId(id)) /\ e.owed = Owed(stack'[p], id)
            /\ e.known = Knows(p, id)' /\ e.up = connected'[p]
            /\ Knows(p, id)' => e.s = streams'[p][id]
            /\ ~Knows(p, id)' => e.s = NewStream
            /\ e.accepted = accepted'[p][id] /\ e.delivered = delivered'[p][id]
            /\ e.next = m_nextStreamId'[p]
BY DEF End

(* An end of a stream that a step does not send on, nor handle a frame of. *)
Quiet(q, id) ==
    /\ Pick(wire'[q], OfId(id)) = Pick(wire[q], OfId(id))
    /\ Owed(stack'[q], id) \subseteq Owed(stack[q], id)
    /\ Knows(q, id)' => Knows(q, id) /\ streams'[q][id] = streams[q][id]
    /\ Knows(q, id)' /\ connected'[q] => Owed(stack'[q], id) = Owed(stack[q], id)
    /\ connected'[q] => connected[q]
    /\ accepted'[q][id] = accepted[q][id] /\ delivered'[q][id] = delivered[q][id]
    /\ m_nextStreamId[q] <= m_nextStreamId'[q]

LEMMA QuietIsLess ==
    ASSUME NEW q \in Peers, NEW id \in Ids, Quiet(q, id)
    PROVE  Less(End(q, id), End(q, id)')
<1>1. PICK e : e = End(q, id)
  OBVIOUS
<1>2. PICK e2 : e2 = End(q, id)'
  OBVIOUS
<1>3. /\ e.line = Pick(wire[q], OfId(id)) /\ e.owed = Owed(stack[q], id)
      /\ e.known = Knows(q, id) /\ e.up = connected[q]
      /\ Knows(q, id) => e.s = streams[q][id]
      /\ e.accepted = accepted[q][id] /\ e.delivered = delivered[q][id]
      /\ e.next = m_nextStreamId[q]
  BY <1>1, EndIs
<1>4. /\ e2.line = Pick(wire'[q], OfId(id)) /\ e2.owed = Owed(stack'[q], id)
      /\ e2.known = Knows(q, id)' /\ e2.up = connected'[q]
      /\ Knows(q, id)' => e2.s = streams'[q][id]
      /\ e2.accepted = accepted'[q][id] /\ e2.delivered = delivered'[q][id]
      /\ e2.next = m_nextStreamId'[q]
  BY <1>2, EndIsNext
<1>5. Less(e, e2)
  BY <1>3, <1>4 DEF Less, Quiet
<1> QED
  BY <1>1, <1>2, <1>5

LEMMA QuietStaysSound ==
    ASSUME NEW id \in Ids, Typed, Typed', Streams, \A q \in Peers : Quiet(q, id), NEW p \in Peers
    PROVE  Sound(p, id, End(p, id)', End(Other(p), id)')
<1>1. Other(p) \in Peers /\ id \in Nat
  BY Peering, TunnelAssumption
<1>2. PICK e : e = End(p, id)
  OBVIOUS
<1>3. PICK g : g = End(Other(p), id)
  OBVIOUS
<1>4. PICK e2 : e2 = End(p, id)'
  OBVIOUS
<1>5. PICK g2 : g2 = End(Other(p), id)'
  OBVIOUS
<1>6. EndOK(id, e) /\ EndOK(id, g) /\ EndOK(id, e2) /\ EndOK(id, g2)
  BY <1>1, <1>2, <1>3, <1>4, <1>5, EndTyped, EndTypedNext
<1>7. Less(e, e2) /\ Less(g, g2)
  BY <1>1, <1>2, <1>3, <1>4, <1>5, QuietIsLess
<1>8. Sound(p, id, e, g)
  BY <1>2, <1>3 DEF Streams
<1> QED
  BY <1>1, <1>4, <1>5, <1>6, <1>7, <1>8, LessIsSound

(* A step of p that is about one stream leaves the others alone.           *)
Local(p, id0) ==
    /\ \A q \in Peers, id \in Ids : q # p \/ id # id0 =>
           /\ Knows(q, id)' <=> Knows(q, id)
           /\ Knows(q, id) => streams'[q][id] = streams[q][id]
           /\ Owed(stack'[q], id) = Owed(stack[q], id)
           /\ accepted'[q][id] = accepted[q][id] /\ delivered'[q][id] = delivered[q][id]
    /\ \A q \in Peers, id \in Ids : id # id0 =>
           Pick(wire'[q], OfId(id)) = Pick(wire[q], OfId(id))
    /\ connected' = connected
    /\ \A q \in Peers : m_nextStreamId[q] <= m_nextStreamId'[q]

LEMMA LocalKeeps ==
    ASSUME NEW p \in Peers, NEW id0 \in Ids, Typed, Typed', Streams, Local(p, id0),
           Pair(p, id0, End(p, id0)', End(Other(p), id0)')
    PROVE  Streams'
<1>1. SUFFICES ASSUME NEW q \in Peers, NEW id \in Ids
               PROVE  Sound(q, id, End(q, id)', End(Other(q), id)')
  BY DEF Streams
<1>2. Other(p) \in Peers /\ Other(Other(p)) = p /\ (q = p \/ q = Other(p))
  BY Peering
<1>3. CASE id = id0
  <2>1. Sound(p, id, End(p, id)', End(Other(p), id)')
        /\ Sound(Other(p), id, End(Other(p), id)', End(p, id)')
    BY <1>3 DEF Pair
  <2> QED
    BY <1>2, <2>1
<1>4. CASE id # id0
  <2>1. \A o \in Peers : Quiet(o, id)
    BY <1>4 DEF Local, Quiet
  <2> QED
    BY <2>1, QuietStaysSound
<1> QED
  BY <1>3, <1>4

LEMMA PairNow ==
    ASSUME NEW p \in Peers, NEW id \in Ids, Typed, Streams
    PROVE  Pair(p, id, End(p, id), End(Other(p), id))
<1>1. Other(p) \in Peers /\ Other(Other(p)) = p
  BY Peering
<1>2. EndOK(id, End(p, id)) /\ EndOK(id, End(Other(p), id))
  BY <1>1, EndTyped
<1>3. Sound(p, id, End(p, id), End(Other(p), id))
      /\ Sound(Other(p), id, End(Other(p), id), End(p, id))
  BY <1>1 DEF Streams
<1> QED
  BY <1>2, <1>3 DEF Pair

(* The peer's end, in a step of p about a stream: only its line may change.*)
LEMMA PeerEnd ==
    ASSUME NEW p \in Peers, NEW id \in Ids, Local(p, id), Typed, Typed',
           m_nextStreamId'[Other(p)] = m_nextStreamId[Other(p)]
    PROVE  LET g == End(Other(p), id)
               g2 == End(Other(p), id)'
           IN  /\ g2.owed = g.owed /\ g2.known = g.known /\ g2.up = g.up /\ g2.s = g.s
               /\ g2.accepted = g.accepted /\ g2.delivered = g.delivered /\ g2.next = g.next
               /\ wire'[Other(p)] = wire[Other(p)] => g2 = g
<1>1. Other(p) \in Peers /\ Other(p) # p
  BY Peering
<1>2. PICK g : g = End(Other(p), id)
  OBVIOUS
<1>3. PICK g2 : g2 = End(Other(p), id)'
  OBVIOUS
<1>4. /\ Knows(Other(p), id)' <=> Knows(Other(p), id)
      /\ Knows(Other(p), id) => streams'[Other(p)][id] = streams[Other(p)][id]
      /\ Owed(stack'[Other(p)], id) = Owed(stack[Other(p)], id)
      /\ accepted'[Other(p)][id] = accepted[Other(p)][id]
      /\ delivered'[Other(p)][id] = delivered[Other(p)][id]
      /\ connected'[Other(p)] = connected[Other(p)]
  BY <1>1 DEF Local
<1>5. Knows(Other(p), id)' = Knows(Other(p), id)
  BY <1>4 DEF Knows
<1>6. /\ g2.owed = g.owed /\ g2.known = g.known /\ g2.up = g.up /\ g2.s = g.s
      /\ g2.accepted = g.accepted /\ g2.delivered = g.delivered /\ g2.next = g.next
  BY <1>1, <1>2, <1>3, <1>4, <1>5 DEF End
<1>7. wire'[Other(p)] = wire[Other(p)] => g2 = g
  BY <1>1, <1>2, <1>3, <1>4, <1>5 DEF End
<1> QED
  BY <1>2, <1>3, <1>6, <1>7

-----------------------------------------------------------------------------
(* What a step does to the flows of all the streams.                       *)
FlowSteady(p, id) == Steady(id, End(p, id), End(Other(p), id), End(p, id)', End(Other(p), id)')
FlowHeld(p, id) == Held(id, End(p, id), End(Other(p), id), End(p, id)', End(Other(p), id)')
FlowMoved(p, id) == Moves(id, End(p, id), End(Other(p), id), End(p, id)', End(Other(p), id)')
FlowsStep == \/ \A p \in Peers, id \in Ids : FlowSteady(p, id)
             \/ \E p \in Peers, id \in Ids :
                    /\ FlowMoved(p, id)
                    /\ \A q \in Peers, i \in Ids : q # p \/ i # id => FlowHeld(q, i)

(* A step keeps the invariant, and is one of the flows or none.            *)
Onwards == TunnelInv' /\ FlowsStep

LEMMA QuietFlows ==
    ASSUME NEW id \in Ids, Typed, Typed', Streams, \A q \in Peers : Quiet(q, id), NEW p \in Peers
    PROVE  FlowSteady(p, id)
<1>1. Other(p) \in Peers
  BY Peering
<1>2. PICK e : e = End(p, id)
  OBVIOUS
<1>3. PICK g : g = End(Other(p), id)
  OBVIOUS
<1>4. PICK e2 : e2 = End(p, id)'
  OBVIOUS
<1>5. PICK g2 : g2 = End(Other(p), id)'
  OBVIOUS
<1>6. EndOK(id, g) /\ EndOK(id, g2)
  BY <1>1, <1>3, <1>5, EndTyped, EndTypedNext
<1>7. Less(e, e2) /\ Less(g, g2)
  BY <1>1, <1>2, <1>3, <1>4, <1>5, QuietIsLess
<1>8. AtSyn(p, id, e, g)
  BY <1>2, <1>3 DEF Streams, Sound
<1>9. Steady(id, e, g, e2, g2)
  BY <1>6, <1>7, <1>8, LessFlows
<1> QED
  BY <1>2, <1>3, <1>4, <1>5, <1>9 DEF FlowSteady

LEMMA LocalHolds ==
    ASSUME NEW p \in Peers, NEW id0 \in Ids, Local(p, id0),
           NEW q \in Peers, NEW id \in Ids, id # id0
    PROVE  FlowHeld(q, id)
<1>1. ASSUME NEW o \in Peers
      PROVE  LET e == End(o, id)
                 e2 == End(o, id)'
             IN  /\ e2.line = e.line /\ e2.known = e.known /\ e2.up = e.up /\ e2.s = e.s
                 /\ e2.accepted = e.accepted /\ e2.delivered = e.delivered
  <2>1. PICK e : e = End(o, id)
    OBVIOUS
  <2>2. PICK e2 : e2 = End(o, id)'
    OBVIOUS
  <2>3. /\ Knows(o, id)' = Knows(o, id)
        /\ Knows(o, id) => streams'[o][id] = streams[o][id]
        /\ accepted'[o][id] = accepted[o][id] /\ delivered'[o][id] = delivered[o][id]
        /\ connected' = connected /\ Pick(wire'[o], OfId(id)) = Pick(wire[o], OfId(id))
    BY DEF Local, Knows
  <2>4. /\ e2.line = e.line /\ e2.known = e.known /\ e2.up = e.up /\ e2.s = e.s
        /\ e2.accepted = e.accepted /\ e2.delivered = e.delivered
    BY <2>1, <2>2, <2>3 DEF End
  <2> QED
    BY <2>1, <2>2, <2>4
<1>2. PICK e : e = End(q, id)
  OBVIOUS
<1>3. PICK g : g = End(Other(q), id)
  OBVIOUS
<1>4. PICK e2 : e2 = End(q, id)'
  OBVIOUS
<1>5. PICK g2 : g2 = End(Other(q), id)'
  OBVIOUS
<1>6. /\ e2.line = e.line /\ e2.known = e.known /\ e2.up = e.up /\ e2.s = e.s
      /\ e2.accepted = e.accepted
      /\ g2.known = g.known /\ g2.up = g.up /\ g2.s = g.s /\ g2.delivered = g.delivered
  BY <1>1, <1>2, <1>3, <1>4, <1>5, Peering
<1>7. Opens(id, e2) <=> Opens(id, e)
  BY <1>6 DEF Opens
<1>8. Held(id, e, g, e2, g2)
  BY <1>6, <1>7, HeldAsIs
<1> QED
  BY <1>2, <1>3, <1>4, <1>5, <1>8 DEF FlowHeld

LEMMA LocalFlows ==
    ASSUME NEW p \in Peers, NEW id0 \in Ids, Local(p, id0),
           StreamStep(id0, End(p, id0), End(Other(p), id0), End(p, id0)', End(Other(p), id0)')
    PROVE  FlowsStep
<1>1. Other(p) \in Peers /\ Other(p) # p /\ Other(Other(p)) = p
      /\ \A q \in Peers : q = p \/ q = Other(p)
  BY Peering
<1>2. \A q \in Peers, id \in Ids : id # id0 => FlowHeld(q, id)
  BY LocalHolds
<1>3. \A q \in Peers, id \in Ids : FlowHeld(q, id) => FlowSteady(q, id)
  BY HeldIsSteady DEF FlowHeld, FlowSteady
<1>4. \/ FlowSteady(p, id0) /\ FlowSteady(Other(p), id0)
      \/ FlowMoved(p, id0) /\ FlowHeld(Other(p), id0)
      \/ FlowHeld(p, id0) /\ FlowMoved(Other(p), id0)
  BY <1>1, Zenon DEF StreamStep, FlowSteady, FlowMoved, FlowHeld
<1>5. CASE FlowSteady(p, id0) /\ FlowSteady(Other(p), id0)
  <2>1. ASSUME NEW q \in Peers, NEW id \in Ids PROVE FlowSteady(q, id)
    BY <1>1, <1>2, <1>3, <1>5
  <2> QED
    BY <2>1 DEF FlowsStep
<1>6. ASSUME NEW o \in Peers, FlowMoved(o, id0), FlowHeld(Other(o), id0) PROVE FlowsStep
  <2>1. ASSUME NEW q \in Peers, NEW id \in Ids, q # o \/ id # id0 PROVE FlowHeld(q, id)
    <3>1. q = o \/ q = Other(o)
      BY Peering
    <3> QED
      BY <1>2, <1>6, <2>1, <3>1
  <2> QED
    BY <1>6, <2>1 DEF FlowsStep
<1> QED
  BY <1>1, <1>4, <1>5, <1>6

-----------------------------------------------------------------------------
(* What the parts of an action do.                                         *)
StreamsTyped == /\ DOMAIN streams = Peers
                /\ \A p \in Peers : /\ DOMAIN streams[p] \subseteq Ids
                                    /\ \A id \in DOMAIN streams[p] : streams[p][id] \in Stream

LEMMA TypedParts ==
    Typed <=> /\ StreamsTyped /\ wire \in [Peers -> Seq(GoodFrames)]
              /\ stack \in [Peers -> Seq(Calls)] /\ m_nextStreamId \in [Peers -> Nat]
              /\ connected \in [Peers -> BOOLEAN]
              /\ accepted \in [Peers -> [Ids -> 0 .. MaxAccepted]]
              /\ delivered \in [Peers -> [Ids -> 0 .. MaxAccepted]]
<1>1. GoodFrames \subseteq Frames
  BY DEF GoodFrames
<1>2. Seq(GoodFrames) \subseteq Seq(Frames)
  BY <1>1
<1>3. wire \in [Peers -> Seq(GoodFrames)] => wire \in [Peers -> Seq(Frames)]
  BY <1>2
<1> QED
  BY <1>3 DEF Typed, TypeOK, StreamsTyped

LEMMA TypedPartsNext ==
    Typed' <=> /\ StreamsTyped' /\ wire' \in [Peers -> Seq(GoodFrames)]
               /\ stack' \in [Peers -> Seq(Calls)] /\ m_nextStreamId' \in [Peers -> Nat]
               /\ connected' \in [Peers -> BOOLEAN]
               /\ accepted' \in [Peers -> [Ids -> 0 .. MaxAccepted]]
               /\ delivered' \in [Peers -> [Ids -> 0 .. MaxAccepted]]
<1>1. (Typed <=> /\ StreamsTyped /\ wire \in [Peers -> Seq(GoodFrames)]
                 /\ stack \in [Peers -> Seq(Calls)] /\ m_nextStreamId \in [Peers -> Nat]
                 /\ connected \in [Peers -> BOOLEAN]
                 /\ accepted \in [Peers -> [Ids -> 0 .. MaxAccepted]]
                 /\ delivered \in [Peers -> [Ids -> 0 .. MaxAccepted]])'
  BY TypedParts, PTL
<1> QED
  BY <1>1

(* A stream's record is stored.                                            *)
Stored(p, id0, r) ==
    /\ StreamsTyped'
    /\ Knows(p, id0)' /\ streams'[p][id0] = r
    /\ \A q \in Peers, id \in Ids : q # p \/ id # id0 =>
           /\ Knows(q, id)' <=> Knows(q, id)
           /\ Knows(q, id) => streams'[q][id] = streams[q][id]

LEMMA StoreStores ==
    ASSUME NEW p \in Peers, NEW id0 \in Ids, NEW r \in Stream, StreamsTyped, Store(p, id0, r)
    PROVE  Stored(p, id0, r)
<1>1. DOMAIN streams' = Peers /\ streams'[p] = With(streams[p], id0, r)
      /\ \A q \in Peers : q # p => streams'[q] = streams[q]
  BY DEF Store, StreamsTyped
<1>2. /\ DOMAIN streams'[p] = DOMAIN streams[p] \cup {id0}
      /\ \A id \in DOMAIN streams[p] \cup {id0} :
             streams'[p][id] = IF id = id0 THEN r ELSE streams[p][id]
  BY <1>1 DEF With
<1>3. StreamsTyped'
  <2>1. ASSUME NEW q \in Peers
        PROVE  /\ DOMAIN streams'[q] \subseteq Ids
               /\ \A id \in DOMAIN streams'[q] : streams'[q][id] \in Stream
    <3>1. CASE q = p
      BY <1>2, <3>1 DEF StreamsTyped
    <3>2. CASE q # p
      BY <1>1, <3>2 DEF StreamsTyped
    <3> QED
      BY <3>1, <3>2
  <2> QED
    BY <1>1, <2>1 DEF StreamsTyped
<1>4. Knows(p, id0)' /\ streams'[p][id0] = r
  BY <1>2 DEF Knows
<1>5. ASSUME NEW q \in Peers, NEW id \in Ids, q # p \/ id # id0
      PROVE  /\ Knows(q, id)' <=> Knows(q, id)
             /\ Knows(q, id) => streams'[q][id] = streams[q][id]
  <2>1. CASE q = p
    BY <1>2, <1>5, <2>1 DEF Knows
  <2>2. CASE q # p
    BY <1>1, <2>2 DEF Knows
  <2> QED
    BY <2>1, <2>2
<1> QED
  BY <1>3, <1>4, <1>5 DEF Stored

(* p sends frames; rest is what is left of its peer's.                     *)
WireMoved(p, fs, rest) ==
    /\ wire' \in [Peers -> Seq(GoodFrames)] /\ wire'[Other(p)] = rest
    /\ wire'[p] = IF connected[p] THEN wire[p] \o fs ELSE wire[p]
    /\ Len(wire[p]) \in Nat /\ Len(wire'[p]) \in Nat /\ Len(wire[p]) <= Len(wire'[p])

LEMMA Sends2 ==
    ASSUME NEW p \in Peers, NEW fs \in Seq(GoodFrames), NEW w \in [Peers -> Seq(GoodFrames)],
           w[p] = wire[p], wire \in [Peers -> Seq(GoodFrames)], wire' = Sending(w, p, fs)
    PROVE  WireMoved(p, fs, w[Other(p)])
<1>1. Other(p) \in Peers /\ Other(p) # p
  BY Peering
<1>2. PICK v \in Seq(GoodFrames) : v = wire[p]
  OBVIOUS
<1>3. v \o fs \in Seq(GoodFrames) /\ Len(v \o fs) \in Nat /\ Len(v) \in Nat /\ Len(v) <= Len(v \o fs)
  BY <1>2
<1>4. CASE connected[p]
  <2>1. wire' = [w EXCEPT ![p] = v \o fs]
    BY <1>2, <1>4 DEF Sending
  <2>2. wire'[p] = v \o fs /\ wire'[Other(p)] = w[Other(p)] /\ wire' \in [Peers -> Seq(GoodFrames)]
    BY <1>1, <1>3, <2>1
  <2> QED
    BY <1>2, <1>3, <1>4, <2>2 DEF WireMoved
<1>5. CASE ~connected[p]
  <2>1. wire' = w
    BY <1>5 DEF Sending
  <2>2. Len(v) <= Len(v)
    BY <1>3
  <2> QED
    BY <1>2, <1>3, <1>5, <2>1, <2>2 DEF WireMoved
<1> QED
  BY <1>4, <1>5

LEMMA WireSends ==
    ASSUME NEW p \in Peers, NEW fs \in Seq(GoodFrames), Typed, SendFrames(p, fs)
    PROVE  WireMoved(p, fs, wire[Other(p)])
<1>1. wire \in [Peers -> Seq(GoodFrames)] /\ wire[p] = wire[p] /\ wire' = Sending(wire, p, fs)
  BY DEF Typed, SendFrames
<1> QED
  BY <1>1, Sends2

LEMMA WireAnswers ==
    ASSUME NEW p \in Peers, NEW fs \in Seq(GoodFrames), Typed, Answer(p, fs),
           wire[Other(p)] # << >>
    PROVE  WireMoved(p, fs, Tail(wire[Other(p)]))
<1>1. Other(p) \in Peers /\ Other(p) # p /\ wire \in [Peers -> Seq(GoodFrames)]
  BY Peering DEF Typed
<1>2. PICK w : w = [wire EXCEPT ![Other(p)] = Tail(@)]
  OBVIOUS
<1>3. Tail(wire[Other(p)]) \in Seq(GoodFrames)
  BY <1>1
<1>4. w \in [Peers -> Seq(GoodFrames)] /\ w[p] = wire[p] /\ w[Other(p)] = Tail(wire[Other(p)])
  BY <1>1, <1>2, <1>3
<1>5. wire' = Sending(w, p, fs)
  BY <1>2 DEF Answer
<1>6. WireMoved(p, fs, w[Other(p)])
  BY <1>1, <1>4, <1>5, Sends2
<1> QED
  BY <1>4, <1>6

(* And what that does to the lines of the streams.                         *)
LinesMoved(p, id0, fs) ==
    /\ \A q \in Peers, id \in Ids : id # id0 =>
           Pick(wire'[q], OfId(id)) = Pick(wire[q], OfId(id))
    /\ Pick(wire'[p], OfId(id0)) = IF connected[p] THEN Pick(wire[p], OfId(id0)) \o fs
                                                   ELSE Pick(wire[p], OfId(id0))

LEMMA PickedMore ==
    ASSUME NEW id0 \in Ids, NEW fs \in Seq(StreamFrames(id0)), NEW w \in Seq(GoodFrames)
    PROVE  /\ Pick(w \o fs, OfId(id0)) = Pick(w, OfId(id0)) \o fs
           /\ \A id \in Ids : id # id0 => Pick(w \o fs, OfId(id)) = Pick(w, OfId(id))
<1>1. w \in Seq(Frames) /\ StreamFrames(id0) \subseteq Frames
      /\ fs \in Seq(Frames)
  <2>1. GoodFrames \subseteq Frames /\ StreamFrames(id0) \subseteq Frames
    BY DEF GoodFrames, StreamFrames
  <2> QED
    BY <2>1
<1>2. \A S : Pick(w \o fs, S) = Pick(w, S) \o Pick(fs, S)
  BY <1>1, PickJoin, Zenon
<1>3. Pick(fs, OfId(id0)) = fs
  <2>1. StreamFrames(id0) \subseteq OfId(id0)
    BY DEF StreamFrames
  <2> QED
    BY <1>1, <2>1, PickAll
<1>4. ASSUME NEW id \in Ids, id # id0 PROVE Pick(w \o fs, OfId(id)) = Pick(w, OfId(id))
  <2>1. StreamFrames(id0) \cap OfId(id) = {}
    BY <1>4 DEF StreamFrames, OfId
  <2>2. Pick(fs, OfId(id)) = << >>
    BY <1>1, <2>1, PickAll
  <2>3. PICK a \in Seq(Frames) : a = Pick(w, OfId(id))
    BY <1>1, PickIsSeq
  <2>4. a \o << >> = a
    OBVIOUS
  <2> QED
    BY <1>2, <2>2, <2>3, <2>4, Zenon
<1> QED
  BY <1>2, <1>3, <1>4, Zenon

(* The first frame is f.                                                   *)
LEMMA PickedFirst ==
    ASSUME NEW w \in Seq(GoodFrames), w # << >>
    PROVE  /\ Head(w) \in GoodFrames /\ Len(Tail(w)) = Len(w) - 1 /\ Len(w) \in Nat
           /\ \A id : Pick(w, OfId(id)) = IF Head(w).id = id
                                          THEN <<Head(w)>> \o Pick(Tail(w), OfId(id))
                                          ELSE Pick(Tail(w), OfId(id))
<1>1. w \in Seq(Frames) /\ GoodFrames \subseteq Frames
  <2>1. GoodFrames \subseteq Frames
    BY DEF GoodFrames
  <2> QED
    BY <2>1
<1>2. Head(w) \in GoodFrames /\ Len(Tail(w)) = Len(w) - 1 /\ Len(w) \in Nat
  OBVIOUS
<1>3. PICK f \in Frames, t \in Seq(Frames) : f = Head(w) /\ t = Tail(w)
  BY <1>1, <1>2, PickHead
<1>4. ASSUME NEW id PROVE Pick(w, OfId(id)) = IF f.id = id THEN <<f>> \o Pick(t, OfId(id))
                                                          ELSE Pick(t, OfId(id))
  <2>1. Pick(w, OfId(id)) = Pick(<<f>>, OfId(id)) \o Pick(t, OfId(id))
    BY <1>1, <1>3, PickHead, Zenon
  <2>2. Pick(<<f>>, OfId(id)) = IF f \in OfId(id) THEN <<f>> ELSE << >>
    BY PickOne, Zenon
  <2>3. f \in OfId(id) <=> f.id = id
    BY DEF OfId
  <2>4. PICK a \in Seq(Frames) : a = Pick(t, OfId(id))
    BY PickIsSeq
  <2>5. << >> \o a = a
    OBVIOUS
  <2> QED
    BY <2>1, <2>2, <2>3, <2>4, <2>5, Zenon
<1> QED
  BY <1>2, <1>3, <1>4

LEMMA LinesSent ==
    ASSUME NEW p \in Peers, NEW id0 \in Ids, NEW fs \in Seq(StreamFrames(id0)),
           wire \in [Peers -> Seq(GoodFrames)], WireMoved(p, fs, wire[Other(p)])
    PROVE  LinesMoved(p, id0, fs)
<1>1. wire'[p] = wire[p] \o fs \/ wire'[p] = wire[p]
  BY DEF WireMoved
<1>2. wire[p] \in Seq(GoodFrames)
  OBVIOUS
<1>3. \A q \in Peers : q = p \/ q = Other(p)
  BY Peering
<1>13. PICK v \in Seq(GoodFrames) : v = wire[p]
  BY <1>2
<1>14. /\ Pick(v \o fs, OfId(id0)) = Pick(v, OfId(id0)) \o fs
       /\ \A id \in Ids : id # id0 => Pick(v \o fs, OfId(id)) = Pick(v, OfId(id))
  BY PickedMore, Zenon
<1>4. \A id \in Ids : id # id0 => Pick(wire'[p], OfId(id)) = Pick(wire[p], OfId(id))
  BY <1>1, <1>13, <1>14, Zenon
<1>5. Pick(wire'[p], OfId(id0)) = IF connected[p] THEN Pick(wire[p], OfId(id0)) \o fs
                                                  ELSE Pick(wire[p], OfId(id0))
  BY <1>13, <1>14, Zenon DEF WireMoved
<1>6. wire'[Other(p)] = wire[Other(p)]
  BY DEF WireMoved
<1> QED
  BY <1>3, <1>4, <1>5, <1>6 DEF LinesMoved

LEMMA LinesAnswered ==
    ASSUME NEW p \in Peers, NEW id0 \in Ids, NEW fs \in Seq(StreamFrames(id0)),
           wire \in [Peers -> Seq(GoodFrames)], wire[Other(p)] # << >>, NextFrame(p).id = id0,
           WireMoved(p, fs, Tail(wire[Other(p)]))
    PROVE  /\ LinesMoved(p, id0, fs) /\ NextFrame(p) \in StreamFrames(id0)
           /\ Pick(wire[Other(p)], OfId(id0))
                  = <<NextFrame(p)>> \o Pick(wire'[Other(p)], OfId(id0))
<1>1. wire'[p] = wire[p] \o fs \/ wire'[p] = wire[p]
  BY DEF WireMoved
<1>2. wire[p] \in Seq(GoodFrames) /\ Other(p) \in Peers
  BY Peering
<1>3. \A q \in Peers : q = p \/ q = Other(p)
  BY Peering
<1>13. PICK v \in Seq(GoodFrames) : v = wire[p]
  BY <1>2
<1>14. /\ Pick(v \o fs, OfId(id0)) = Pick(v, OfId(id0)) \o fs
       /\ \A id \in Ids : id # id0 => Pick(v \o fs, OfId(id)) = Pick(v, OfId(id))
  BY PickedMore, Zenon
<1>4. \A id \in Ids : id # id0 => Pick(wire'[p], OfId(id)) = Pick(wire[p], OfId(id))
  BY <1>1, <1>13, <1>14, Zenon
<1>5. Pick(wire'[p], OfId(id0)) = IF connected[p] THEN Pick(wire[p], OfId(id0)) \o fs
                                                  ELSE Pick(wire[p], OfId(id0))
  BY <1>13, <1>14, Zenon DEF WireMoved
<1>6. PICK w \in Seq(GoodFrames) : w = wire[Other(p)] /\ w # << >>
  BY <1>2
<1>7. wire'[Other(p)] = Tail(w) /\ NextFrame(p) = Head(w)
  BY <1>6 DEF WireMoved, NextFrame
<1>8. /\ Head(w) \in GoodFrames
      /\ \A id : Pick(w, OfId(id)) = IF Head(w).id = id
                                     THEN <<Head(w)>> \o Pick(Tail(w), OfId(id))
                                     ELSE Pick(Tail(w), OfId(id))
  BY <1>6, PickedFirst
<1>9. \A id \in Ids : id # id0 => Pick(wire'[Other(p)], OfId(id)) = Pick(wire[Other(p)], OfId(id))
  BY <1>6, <1>7, <1>8
<1>10. LinesMoved(p, id0, fs)
  BY <1>3, <1>4, <1>5, <1>9 DEF LinesMoved
<1>11. NextFrame(p) \in StreamFrames(id0)
  BY <1>7, <1>8 DEF StreamFrames, OfId, GoodFrames
<1>12. Pick(wire[Other(p)], OfId(id0)) = <<NextFrame(p)>> \o Pick(wire'[Other(p)], OfId(id0))
  BY <1>6, <1>7, <1>8, Zenon
<1> QED
  BY <1>10, <1>11, <1>12

-----------------------------------------------------------------------------
(* An action of p about stream id0: it sends fs, leaves rest of its peer's *)
(* frames, and goes on with the calls st.                                  *)
Elsewhere(p, id0) ==
    \A q \in Peers, id \in Ids : q # p \/ id # id0 =>
        /\ Knows(q, id)' <=> Knows(q, id)
        /\ Knows(q, id) => streams'[q][id] = streams[q][id]
        /\ accepted'[q][id] = accepted[q][id] /\ delivered'[q][id] = delivered[q][id]

Shape(p, id0, fs, rest, st) ==
    /\ StreamsTyped' /\ Elsewhere(p, id0)
    /\ accepted' \in [Peers -> [Ids -> 0 .. MaxAccepted]]
    /\ delivered' \in [Peers -> [Ids -> 0 .. MaxAccepted]]
    /\ fs \in Seq(StreamFrames(id0)) /\ WireMoved(p, fs, rest) /\ LinesMoved(p, id0, fs)
    /\ stack' = [stack EXCEPT ![p] = st] /\ st \in Seq(Calls) /\ StackFine(st, Len(rest))
    /\ \A id \in Ids : id # id0 => Owed(st, id) = Owed(stack[p], id)
    /\ connected' = connected
    /\ m_nextStreamId' \in [Peers -> Nat] /\ Parity'
    /\ m_nextStreamId'[Other(p)] = m_nextStreamId[Other(p)]
    /\ m_nextStreamId[p] <= m_nextStreamId'[p]

Kept(p, id0, st) == /\ Typed' /\ Parity' /\ StacksFine' /\ Local(p, id0) /\ stack'[p] = st

LEMMA ShapeKeeps ==
    ASSUME NEW p \in Peers, NEW id0 \in Ids, NEW fs, NEW rest, NEW st, TunnelInv,
           Shape(p, id0, fs, rest, st)
    PROVE  Kept(p, id0, st)
<1>1. /\ Other(p) \in Peers /\ Other(p) # p /\ Other(Other(p)) = p
      /\ \A q \in Peers : q = p \/ q = Other(p)
  BY Peering
<1>2. /\ wire \in [Peers -> Seq(GoodFrames)] /\ stack \in [Peers -> Seq(Calls)]
      /\ connected \in [Peers -> BOOLEAN] /\ m_nextStreamId \in [Peers -> Nat]
  BY TypedParts DEF TunnelInv
<1>3. /\ stack'[p] = st /\ stack'[Other(p)] = stack[Other(p)]
      /\ stack' \in [Peers -> Seq(Calls)]
  BY <1>1, <1>2 DEF Shape
<1>4. Typed'
  BY <1>2, <1>3, TypedPartsNext DEF Shape, WireMoved
<1>5. StacksFine'
  <2>1. StackFine(stack'[p], Len(wire'[Other(p)]))
    BY <1>3 DEF Shape, WireMoved
  <2>2. StackFine(stack'[Other(p)], Len(wire'[p]))
    <3>1. StackFine(stack[Other(p)], Len(wire[p]))
      BY <1>1 DEF TunnelInv, StacksFine
    <3>2. Len(wire[p]) \in Nat /\ Len(wire'[p]) \in Nat /\ Len(wire[p]) <= Len(wire'[p])
      BY DEF Shape, WireMoved
    <3> QED
      BY <1>1, <1>2, <1>3, <3>1, <3>2, FineWithMore
  <2>3. ASSUME NEW q \in Peers PROVE StackFine(stack'[q], Len(wire'[Other(q)]))
    BY <1>1, <2>1, <2>2
  <2> QED
    BY <2>3 DEF StacksFine
<1>6. Local(p, id0)
  <2>1. ASSUME NEW q \in Peers, NEW id \in Ids, q # p \/ id # id0
        PROVE  Owed(stack'[q], id) = Owed(stack[q], id)
    BY <1>1, <1>3, <2>1 DEF Shape
  <2>2. ASSUME NEW q \in Peers PROVE m_nextStreamId[q] <= m_nextStreamId'[q]
    <3>1. CASE q = p
      BY <3>1 DEF Shape
    <3>2. CASE q # p
      <4>1. m_nextStreamId'[q] = m_nextStreamId[q] /\ m_nextStreamId[q] \in Nat
        BY <1>1, <1>2, <3>2 DEF Shape
      <4> QED
        BY <4>1
    <3> QED
      BY <3>1, <3>2
  <2> QED
    BY <2>1, <2>2 DEF Local, Shape, Elsewhere, LinesMoved
<1> QED
  BY <1>3, <1>4, <1>5, <1>6 DEF Kept, Shape

(* The ends of stream id0, before and after.                               *)
Ends(p, id0, fs, rest, st, e, g, e2, g2) ==
    /\ Pair(p, id0, e, g) /\ EndOK(id0, e2) /\ EndOK(id0, g2)
    /\ e = End(p, id0) /\ g = End(Other(p), id0)
    /\ e2 = End(p, id0)' /\ g2 = End(Other(p), id0)'
    /\ e2.line = IF e.up THEN e.line \o fs ELSE e.line
    /\ fs = << >> => e2.line = e.line
    /\ e2.owed = Owed(st, id0) /\ e2.up = e.up
    /\ g2.owed = g.owed /\ g2.known = g.known /\ g2.up = g.up /\ g2.s = g.s
    /\ g2.accepted = g.accepted /\ g2.delivered = g.delivered /\ g2.next = g.next
    /\ rest = wire[Other(p)] => g2 = g
    /\ e.line \in Seq(StreamFrames(id0))

LEMMA ShapeEnds ==
    ASSUME NEW p \in Peers, NEW id0 \in Ids, NEW fs, NEW rest, NEW st, TunnelInv,
           Shape(p, id0, fs, rest, st)
    PROVE  Ends(p, id0, fs, rest, st, End(p, id0), End(Other(p), id0),
                End(p, id0)', End(Other(p), id0)')
<1>1. Kept(p, id0, st) /\ Other(p) \in Peers
  BY ShapeKeeps, Peering
<1>2. PICK e : e = End(p, id0)
  OBVIOUS
<1>3. PICK g : g = End(Other(p), id0)
  OBVIOUS
<1>4. PICK e2 : e2 = End(p, id0)'
  OBVIOUS
<1>5. PICK g2 : g2 = End(Other(p), id0)'
  OBVIOUS
<1>6. Pair(p, id0, e, g)
  BY <1>2, <1>3, PairNow DEF TunnelInv
<1>7. EndOK(id0, e2) /\ EndOK(id0, g2)
  BY <1>1, <1>4, <1>5, EndTypedNext DEF Kept
<1>8. /\ e.line = Pick(wire[p], OfId(id0)) /\ e.up = connected[p]
  BY <1>2, EndIs
<1>9. e2.line = Pick(wire'[p], OfId(id0)) /\ e2.up = connected'[p] /\ e2.owed = Owed(stack'[p], id0)
  BY <1>4, EndIsNext
<1>10. e2.line = (IF e.up THEN e.line \o fs ELSE e.line) /\ e2.up = e.up /\ e2.owed = Owed(st, id0)
  BY <1>1, <1>8, <1>9 DEF Shape, LinesMoved, Kept
<1>11. e.line \in Seq(StreamFrames(id0))
  BY <1>6 DEF Pair, EndOK
<1>12. fs = << >> => e2.line = e.line
  BY <1>10, <1>11
<1>13. /\ g2.owed = g.owed /\ g2.known = g.known /\ g2.up = g.up /\ g2.s = g.s
       /\ g2.accepted = g.accepted /\ g2.delivered = g.delivered /\ g2.next = g.next
       /\ wire'[Other(p)] = wire[Other(p)] => g2 = g
  BY <1>1, <1>3, <1>5, PeerEnd DEF Shape, Kept, TunnelInv
<1>14. rest = wire[Other(p)] => g2 = g
  BY <1>13 DEF Shape, WireMoved
<1> QED
  BY <1>2, <1>3, <1>4, <1>5, <1>6, <1>7, <1>10, <1>11, <1>12, <1>13, <1>14 DEF Ends

(* So it is enough that the ends stay sound, and the flows step as they may.*)
LEMMA ShapeSound ==
    ASSUME NEW p \in Peers, NEW id0 \in Ids, NEW fs, NEW rest, NEW st, TunnelInv,
           Shape(p, id0, fs, rest, st), Pair(p, id0, End(p, id0)', End(Other(p), id0)'),
           StreamStep(id0, End(p, id0), End(Other(p), id0), End(p, id0)', End(Other(p), id0)')
    PROVE  Onwards
<1>1. Kept(p, id0, st)
  BY ShapeKeeps
<1>2. Streams'
  BY <1>1, LocalKeeps DEF Kept, TunnelInv
<1>3. FlowsStep
  BY <1>1, LocalFlows DEF Kept
<1> QED
  BY <1>1, <1>2, <1>3 DEF Kept, TunnelInv, Onwards

LEMMA OneFrame ==
    ASSUME NEW id \in Ids, NEW f \in StreamFrames(id)
    PROVE  <<f>> \in Seq(StreamFrames(id)) /\ <<f>> \in Seq(GoodFrames)
           /\ << >> \in Seq(StreamFrames(id)) /\ << >> \in Seq(GoodFrames)
<1>1. f \in GoodFrames
  BY SentFrames
<1> QED
  BY <1>1

(* Where a call of the application, or of a handler, starts from.          *)
Start(p) == /\ Typed /\ StreamsTyped
            /\ Other(p) \in Peers /\ Other(p) # p
            /\ wire \in [Peers -> Seq(GoodFrames)] /\ stack \in [Peers -> Seq(Calls)]
            /\ accepted \in [Peers -> [Ids -> 0 .. MaxAccepted]]
            /\ delivered \in [Peers -> [Ids -> 0 .. MaxAccepted]]
            /\ m_nextStreamId \in [Peers -> Nat] /\ Parity /\ connected \in [Peers -> BOOLEAN]
            /\ stack = [stack EXCEPT ![p] = stack[p]] /\ stack[p] \in Seq(Calls)
            /\ Len(wire[Other(p)]) \in Nat /\ StackFine(stack[p], Len(wire[Other(p)]))

LEMMA Starting ==
    ASSUME NEW p \in Peers, TunnelInv
    PROVE  Start(p)
<1>1. Other(p) \in Peers /\ Other(p) # p
  BY Peering
<1>2. /\ StreamsTyped
      /\ wire \in [Peers -> Seq(GoodFrames)] /\ stack \in [Peers -> Seq(Calls)]
      /\ accepted \in [Peers -> [Ids -> 0 .. MaxAccepted]]
      /\ delivered \in [Peers -> [Ids -> 0 .. MaxAccepted]]
      /\ m_nextStreamId \in [Peers -> Nat] /\ connected \in [Peers -> BOOLEAN]
  BY TypedParts DEF TunnelInv
<1>3. stack = [stack EXCEPT ![p] = stack[p]] /\ stack[p] \in Seq(Calls)
      /\ Len(wire[Other(p)]) \in Nat
  BY <1>1, <1>2
<1>4. Typed /\ Parity /\ StackFine(stack[p], Len(wire[Other(p)]))
  BY DEF TunnelInv, StacksFine
<1> QED
  BY <1>1, <1>2, <1>3, <1>4 DEF Start

LEMMA OpenStreamKeeps ==
    ASSUME NEW p \in Peers, TunnelInv, OpenStream(p)
    PROVE  Onwards
<1>0. Start(p)
  BY Starting
<1>1. PICK id \in Ids : id = m_nextStreamId[p]
  BY DEF OpenStream
<1>2. /\ Store(p, id, NewStream) /\ SendFrames(p, <<Syn(id)>>)
      /\ m_nextStreamId' = [m_nextStreamId EXCEPT ![p] = @ + 2]
      /\ UNCHANGED <<connected, stack, accepted, delivered>>
  BY <1>1 DEF OpenStream
<1>3. PICK fs : fs = <<Syn(id)>>
  OBVIOUS
<1>4. fs \in Seq(StreamFrames(id)) /\ fs \in Seq(GoodFrames)
  BY <1>3, SentFrames, OneFrame
<1>5. Stored(p, id, NewStream)
  <2>1. StreamsTyped /\ NewStream \in Stream /\ Store(p, id, NewStream)
    BY <1>0, <1>2, NewStreamFields DEF Start
  <2> QED
    BY <2>1, StoreStores
<1>6. WireMoved(p, fs, wire[Other(p)])
  <2>1. Typed /\ SendFrames(p, fs)
    BY <1>0, <1>2, <1>3 DEF Start
  <2> QED
    BY <1>4, <2>1, WireSends
<1>7. LinesMoved(p, id, fs)
  BY <1>0, <1>4, <1>6, LinesSent DEF Start
<1>8. /\ m_nextStreamId' \in [Peers -> Nat] /\ m_nextStreamId'[p] = id + 2
      /\ m_nextStreamId'[Other(p)] = m_nextStreamId[Other(p)]
      /\ \A q \in Peers : q # p => m_nextStreamId'[q] = m_nextStreamId[q]
      /\ m_nextStreamId[p] <= m_nextStreamId'[p] /\ id \in Nat
  BY <1>0, <1>1, <1>2 DEF Start
<1>9. Parity'
  <2>1. (id + 2) % 2 = id % 2
    BY <1>8
  <2>2. Owner(id + 2) = Owner(id)
    BY <2>1 DEF Owner
  <2>3. ASSUME NEW q \in Peers PROVE Owner(m_nextStreamId'[q]) = q
    BY <1>0, <1>1, <1>8, <2>2 DEF Start, Parity
  <2> QED
    BY <2>3 DEF Parity
<1>10. Shape(p, id, fs, wire[Other(p)], stack[p])
  BY <1>0, <1>2, <1>4, <1>5, <1>6, <1>7, <1>8, <1>9 DEF Shape, Start, Stored, Elsewhere
<1>11. PICK e, g, e2, g2 : Ends(p, id, fs, wire[Other(p)], stack[p], e, g, e2, g2)
  BY <1>10, ShapeEnds
<1>12. e.next = id /\ Owner(id) = p
  <2>1. e.next = m_nextStreamId[p]
    BY <1>11, EndIs DEF Ends
  <2> QED
    BY <1>0, <1>1, <2>1 DEF Start, Parity
<1>13. Blank(e) /\ Blank(g)
  <2>1. id >= e.next
    BY <1>8, <1>12
  <2> QED
    BY <1>11, <1>12, <2>1 DEF Ends, Pair, Sound, Unopened
<1>14. Begins(id, e, g, e2, g2)
  <2>1. /\ e2.known /\ e2.s = NewStream /\ e2.accepted = accepted[p][id]
        /\ e2.delivered = delivered[p][id] /\ e2.next = id + 2
    BY <1>2, <1>5, <1>8, <1>11, EndIsNext DEF Ends, Stored
  <2>2. e.accepted = accepted[p][id] /\ e.delivered = delivered[p][id] /\ e.owed = Owed(stack[p], id)
    BY <1>11, EndIs DEF Ends
  <2>3. e2.line = IF e.up THEN <<Syn(id)>> ELSE << >>
    <3>1. e.line = << >> /\ << >> \o fs = fs
      BY <1>4, <1>13 DEF Blank
    <3> QED
      BY <1>3, <1>11, <3>1 DEF Ends
  <2> QED
    BY <1>11, <1>13, <2>1, <2>2, <2>3 DEF Begins, Ends, Blank
<1>15. Pair(p, id, e2, g2)
  BY <1>11, <1>12, <1>14, BeginsSound DEF Ends
<1>16. StreamStep(id, e, g, e2, g2)
  BY <1>11, <1>14, BeginsFlows DEF Ends
<1> QED
  BY <1>10, <1>11, <1>15, <1>16, ShapeSound DEF Ends

(* sendToStream: what the window suffices for goes out, the rest waits.    *)
Queued(s, w, q) == [s EXCEPT !.sendWindow = w, !.pendingData = q]

HasQueued(s, r, w, q) ==
    /\ r \in Stream /\ r.sendWindow = w /\ r.pendingData = q
    /\ r.recvWindow = s.recvWindow /\ r.unackedRecvBytes = s.unackedRecvBytes
    /\ r.localClosed = s.localClosed /\ r.remoteClosed = s.remoteClosed

LEMMA QueuedFields ==
    ASSUME NEW s \in Stream, NEW w \in Nat, NEW q \in Seq(Ranges)
    PROVE  HasQueued(s, Queued(s, w, q), w, q)
<1>1. PICK t : t = [s EXCEPT !.sendWindow = w]
  OBVIOUS
<1>2. /\ t \in Stream /\ t.sendWindow = w /\ t.recvWindow = s.recvWindow
      /\ t.unackedRecvBytes = s.unackedRecvBytes
      /\ t.localClosed = s.localClosed /\ t.remoteClosed = s.remoteClosed
  BY <1>1 DEF Stream
<1>3. PICK r : r = [t EXCEPT !.pendingData = q]
  OBVIOUS
<1>4. /\ r \in Stream /\ r.sendWindow = w /\ r.recvWindow = t.recvWindow
      /\ r.pendingData = q /\ r.unackedRecvBytes = t.unackedRecvBytes
      /\ r.localClosed = t.localClosed /\ r.remoteClosed = t.remoteClosed
  BY <1>2, <1>3 DEF Stream
<1>5. r = Queued(s, w, q)
  BY <1>1, <1>3 DEF Stream, Queued
<1> QED
  BY <1>2, <1>4, <1>5 DEF HasQueued

LEMMA QueuedOnly ==
    ASSUME NEW s \in Stream, NEW q
    PROVE  [s EXCEPT !.pendingData = q] = Queued(s, s.sendWindow, q)
BY DEF Stream, Queued

Waits(q, given, n, r) == Append(q, r) \in Seq(Ranges)
                         /\ Splits(q, given, << >>, Append(q, r), given + n)

LEMMA UnitsWait ==
    ASSUME NEW q \in Seq(Ranges), NEW given \in Nat, NEW n \in Nat \ {0}
    PROVE  Waits(q, given, n, [first |-> given + 1, length |-> n])
<1>1. PICK r \in Ranges : r = [first |-> given + 1, length |-> n] /\ r.first = given + 1 /\ r.length = n
  <2>1. given + 1 \in Nat \ {0}
    OBVIOUS
  <2> QED
    BY <2>1, RangeFields
<1>2. PICK q2 \in Seq(Ranges) : q2 = Append(q, r) /\ q2 = q \o <<r>>
  <2>1. Append(q, r) \in Seq(Ranges) /\ Append(q, r) = q \o <<r>>
    OBVIOUS
  <2> QED
    BY <2>1, Zenon
<1>3. q \in Seq(Pieces) /\ r \in Pieces /\ LengthOf(q) \in Nat
  BY RangesArePieces, SumsAre DEF Pieces
<1>4. ASSUME NEW a \in Nat, Chain(q, a), a + LengthOf(q) = given
      PROVE  /\ Chain(<< >>, a) /\ Chain(q2, a + LengthOf(<< >>))
             /\ a + LengthOf(<< >>) + LengthOf(q2) = given + n
  <2>1. LengthOf(<< >>) = 0 /\ a + 0 = a
    BY LengthOfFew
  <2>2. Chain(<< >>, a)
    BY ChainFew
  <2>3. /\ LengthOf(q \o <<r>>) = LengthOf(q) + r.length
        /\ Chain(q \o <<r>>, a) <=> Chain(q, a) /\ r.first = a + LengthOf(q) + 1
    BY <1>3, OneAfter, Zenon
  <2>4. Chain(q2, a)
    BY <1>1, <1>2, <1>4, <2>3
  <2>5. a + 0 + (LengthOf(q) + n) = given + n
    BY <1>3, <1>4
  <2>6. LengthOf(q2) = LengthOf(q) + n
    BY <1>1, <1>2, <2>3
  <2> QED
    BY <2>1, <2>2, <2>4, <2>5, <2>6
<1>5. Splits(q, given, << >>, q2, given + n)
  BY <1>4 DEF Splits
<1> QED
  BY <1>1, <1>2, <1>5 DEF Waits

GoesOut(id, given, n, k, r) ==
    LET q2 == IF k < n THEN Append(<< >>, Rest(r, k)) ELSE << >>
    IN  /\ Data(id, Cut(r, k)) \in PayloadFrames(id) /\ q2 \in Seq(Ranges)
        /\ LengthOf(<<Data(id, Cut(r, k))>>) = k
        /\ Splits(<< >>, given, <<Data(id, Cut(r, k))>>, q2, given + n)

LEMMA UnitsGoOut ==
    ASSUME NEW id \in Ids, NEW given \in Nat, NEW n \in Nat \ {0}, NEW k \in 1 .. n
    PROVE  GoesOut(id, given, n, k, [first |-> given + 1, length |-> n])
<1>1. PICK r \in Ranges : r = [first |-> given + 1, length |-> n] /\ r.first = given + 1 /\ r.length = n
  <2>1. given + 1 \in Nat \ {0}
    OBVIOUS
  <2> QED
    BY <2>1, RangeFields
<1>2. PICK c \in Ranges : c = Cut(r, k) /\ c.first = given + 1 /\ c.length = k
  <2>1. given + 1 \in Nat \ {0} /\ k \in Nat \ {0}
    OBVIOUS
  <2> QED
    BY <1>1, <2>1, RangeFields, ZenonT(40) DEF Cut
<1>3. PICK f \in PayloadFrames(id) : f = Data(id, c) /\ f.first = given + 1 /\ f.length = k
  BY <1>2, SentFrames
<1>4. f \in Pieces
  BY <1>3 DEF Pieces, PayloadFrames, StreamFrames, OfId
<1>5. PICK q2 : q2 = IF k < n THEN Append(<< >>, Rest(r, k)) ELSE << >>
  OBVIOUS
<1>6. /\ q2 \in Seq(Ranges) /\ LengthOf(q2) = n - k /\ Chain(q2, given + k)
  <2>1. CASE k < n
    <3>1. given + 1 + k \in Nat \ {0} /\ n - k \in Nat \ {0} /\ given + k \in Nat
      BY <2>1
    <3>2. PICK x \in Ranges : x = Rest(r, k) /\ x.first = given + 1 + k /\ x.length = n - k
      <4>1. PICK u \in Nat \ {0}, m \in Nat \ {0} : u = given + 1 + k /\ m = n - k
        BY <3>1
      <4>2. Rest(r, k) = [first |-> u, length |-> m]
        BY <1>1, <4>1 DEF Rest
      <4>3. PICK x \in Ranges : x = [first |-> u, length |-> m] /\ x.first = u /\ x.length = m
        BY RangeFields
      <4> QED
        BY <4>1, <4>2, <4>3
    <3>3. q2 = <<x>> /\ q2 \in Seq(Ranges)
      BY <1>5, <2>1, <3>2
    <3>4. x \in Pieces
      BY DEF Pieces
    <3>5. LengthOf(<<x>>) = n - k /\ (Chain(<<x>>, given + k) <=> x.first = given + k + 1)
      BY <3>1, <3>2, <3>4, LengthOfFew, ChainFew
    <3>6. given + 1 + k = given + k + 1
      OBVIOUS
    <3> QED
      BY <3>2, <3>3, <3>5, <3>6
  <2>2. CASE ~(k < n)
    <3>1. q2 = << >> /\ << >> \in Seq(Ranges) /\ n - k = 0 /\ given + k \in Nat
      BY <1>5, <2>2
    <3> QED
      BY <3>1, LengthOfFew, ChainFew
  <2> QED
    BY <2>1, <2>2
<1>7. LengthOf(<<f>>) = k
  BY <1>3, <1>4, LengthOfFew
<1>8. ASSUME NEW a \in Nat, a + LengthOf(<< >>) = given
      PROVE  /\ Chain(<<f>>, a) /\ Chain(q2, a + LengthOf(<<f>>))
             /\ a + LengthOf(<<f>>) + LengthOf(q2) = given + n
  <2>1. a = given
    BY <1>8, LengthOfFew
  <2>2. Chain(<<f>>, a)
    BY <1>3, <1>4, <2>1, ChainFew
  <2>3. given + k + (n - k) = given + n
    OBVIOUS
  <2> QED
    BY <1>6, <1>7, <2>1, <2>2, <2>3
<1>9. Splits(<< >>, given, <<f>>, q2, given + n)
  BY <1>8 DEF Splits
<1> QED
  BY <1>1, <1>2, <1>3, <1>5, <1>6, <1>7, <1>9 DEF GoesOut

(* processPending: the frames carry the units of the buffers that go out.  *)
GoodFlush(id, s, r, given) ==
    LET fs == DataFrames(id, SentFrom(s.pendingData, s.sendWindow))
    IN  /\ fs \in Seq(PayloadFrames(id)) /\ r \in Stream
        /\ r.sendWindow + LengthOf(fs) = s.sendWindow
        /\ r.recvWindow = s.recvWindow /\ r.unackedRecvBytes = s.unackedRecvBytes
        /\ r.localClosed = s.localClosed /\ r.remoteClosed = s.remoteClosed
        /\ Splits(s.pendingData, given, fs, r.pendingData, given)
        /\ r.pendingData # << >> => r.sendWindow = 0

LEMMA FramesOfQueue ==
    ASSUME NEW id \in Ids, NEW q \in Seq(Ranges)
    PROVE  /\ DataFrames(id, q) \in Seq(PayloadFrames(id))
           /\ LengthOf(DataFrames(id, q)) = LengthOf(q)
           /\ \A a \in Nat : Chain(DataFrames(id, q), a) <=> Chain(q, a)
<1>1. \A i \in 1 .. Len(q) : /\ Data(id, q[i]) \in PayloadFrames(id)
                             /\ Data(id, q[i]).first = q[i].first
                             /\ Data(id, q[i]).length = q[i].length
  BY SentFrames
<1>2. PICK fs : fs = [i \in 1 .. Len(q) |-> Data(id, q[i])]
  OBVIOUS
<1>3. fs = DataFrames(id, q)
  BY <1>2 DEF DataFrames
<1>4. Len(q) \in Nat
  OBVIOUS
<1>5. fs \in Seq(PayloadFrames(id)) /\ Len(fs) = Len(q)
  BY <1>1, <1>2, <1>4
<1>6. fs \in Seq(Pieces) /\ q \in Seq(Pieces)
  <2>1. PayloadFrames(id) \subseteq Pieces
    BY DEF Pieces, PayloadFrames, StreamFrames, OfId
  <2> QED
    BY <1>5, <2>1, RangesArePieces
<1>7. \A i \in 1 .. Len(fs) : fs[i].first = q[i].first /\ fs[i].length = q[i].length
  BY <1>1, <1>2, <1>5
<1>8. 0 \in Nat
  OBVIOUS
<1>9. \A a \in Nat : (Chain(fs, a) <=> Chain(q, a)) /\ LengthOf(fs) = LengthOf(q)
  BY <1>5, <1>6, <1>7, SameUnits
<1> QED
  BY <1>3, <1>5, <1>8, <1>9

LEMMA FlushIsGood ==
    ASSUME NEW id \in Ids, NEW s \in Stream, NEW given \in Nat
    PROVE  GoodFlush(id, s, Flushed(s, s.pendingData), given)
<1>1. PICK q \in Seq(Ranges), w \in Nat : q = s.pendingData /\ w = s.sendWindow
  BY StreamFields
<1>2. PICK a \in Seq(Ranges), t \in Seq(Ranges) : a = SentFrom(q, w) /\ t = KeptFrom(q, w)
  BY 0 \in Nat, QueueSplit, Zenon
<1>3. \A b \in Nat : /\ LengthOf(a) \in Nat /\ LengthOf(t) \in Nat /\ LengthOf(a) <= w
                     /\ LengthOf(a) + LengthOf(t) = LengthOf(q)
                     /\ t # << >> => LengthOf(a) = w
                     /\ Chain(q, b) => Chain(a, b) /\ Chain(t, b + LengthOf(a))
  BY <1>2, QueueSplit, Zenon
<1>4. PICK fs : fs = DataFrames(id, a)
  OBVIOUS
<1>5. /\ fs \in Seq(PayloadFrames(id)) /\ LengthOf(fs) = LengthOf(a)
      /\ \A b \in Nat : Chain(fs, b) <=> Chain(a, b)
  BY <1>4, FramesOfQueue
<1>6. PICK m \in Nat, n \in Nat : m = LengthOf(a) /\ n = w - LengthOf(a) /\ n + m = w
                                  /\ (t # << >> => n = 0)
  <2>1. 0 \in Nat
    OBVIOUS
  <2>2. LengthOf(a) \in Nat /\ LengthOf(a) <= w /\ (t # << >> => LengthOf(a) = w)
    BY <1>3, <2>1
  <2>3. w - LengthOf(a) \in Nat /\ w - LengthOf(a) + LengthOf(a) = w
        /\ (t # << >> => w - LengthOf(a) = 0)
    BY <2>2
  <2> QED
    BY <2>2, <2>3
<1>7. Flushed(s, q) = Queued(s, n, t)
  BY <1>1, <1>2, <1>6 DEF Flushed, Queued, Stream
<1>8. PICK r : r = Queued(s, n, t)
  OBVIOUS
<1>9. HasQueued(s, r, n, t)
  BY <1>8, QueuedFields
<1>10. Splits(q, given, fs, t, given)
  <2>1. ASSUME NEW b \in Nat, Chain(q, b), b + LengthOf(q) = given
        PROVE  Chain(fs, b) /\ Chain(t, b + LengthOf(fs)) /\ b + LengthOf(fs) + LengthOf(t) = given
    <3>1. /\ LengthOf(a) \in Nat /\ LengthOf(t) \in Nat
          /\ LengthOf(a) + LengthOf(t) = LengthOf(q)
          /\ Chain(a, b) /\ Chain(t, b + LengthOf(a))
      BY <1>3, <2>1
    <3>2. b + LengthOf(a) + LengthOf(t) = given
      BY <2>1, <3>1
    <3> QED
      BY <1>5, <3>1, <3>2
  <2> QED
    BY <2>1 DEF Splits
<1>11. /\ fs = DataFrames(id, SentFrom(s.pendingData, s.sendWindow))
       /\ r = Flushed(s, s.pendingData)
  BY <1>1, <1>2, <1>4, <1>7, <1>8
<1>12. r.sendWindow + LengthOf(fs) = s.sendWindow
  BY <1>1, <1>5, <1>6, <1>9 DEF HasQueued
<1> QED
  BY <1>1, <1>5, <1>6, <1>9, <1>10, <1>11, <1>12 DEF GoodFlush, HasQueued

LEMMA WireStays ==
    ASSUME NEW p \in Peers, Typed, wire' = wire
    PROVE  WireMoved(p, << >>, wire[Other(p)])
<1>1. Other(p) \in Peers /\ wire \in [Peers -> Seq(GoodFrames)]
  BY Peering DEF Typed
<1>2. wire[p] \in Seq(GoodFrames) /\ wire[Other(p)] \in Seq(GoodFrames)
  BY <1>1
<1>3. wire[p] \o << >> = wire[p] /\ Len(wire[p]) \in Nat /\ Len(wire[p]) <= Len(wire[p])
  BY <1>2
<1> QED
  BY <1>1, <1>2, <1>3 DEF WireMoved

SameNumbers(p) == /\ connected' = connected
                  /\ m_nextStreamId' \in [Peers -> Nat] /\ Parity'
                  /\ m_nextStreamId'[Other(p)] = m_nextStreamId[Other(p)]
                  /\ m_nextStreamId[p] <= m_nextStreamId'[p]

LEMMA Numbering ==
    ASSUME NEW p \in Peers, Start(p), UNCHANGED <<m_nextStreamId, connected>>
    PROVE  SameNumbers(p)
<1>1. m_nextStreamId[p] \in Nat /\ m_nextStreamId' = m_nextStreamId
  BY DEF Start
<1>2. m_nextStreamId[p] <= m_nextStreamId[p]
  BY <1>1
<1>3. Parity'
  BY <1>1 DEF Start, Parity
<1> QED
  BY <1>1, <1>2, <1>3 DEF SameNumbers, Start

(* An end that has the stream is not waited for by a SYN.                  *)
LEMMA NotOpening ==
    ASSUME NEW p \in Peers, NEW id \in Ids, NEW e, NEW g, Pair(p, id, e, g), e.known
    PROVE  ~Opens(id, g)
BY DEF Pair, Sound, AtSyn, Blank

(* sendToStream, in the terms of the stream's ends.                        *)
Written(p, id, s, given, n, fs, r) ==
    /\ fs \in Seq(PayloadFrames(id)) /\ r \in Stream
    /\ Store(p, id, r) /\ SendFrames(p, fs)
    /\ r.sendWindow + LengthOf(fs) = s.sendWindow
    /\ r.recvWindow = s.recvWindow /\ r.unackedRecvBytes = s.unackedRecvBytes
    /\ r.localClosed = s.localClosed /\ r.remoteClosed = s.remoteClosed
    /\ (s.pendingData # << >> => s.sendWindow = 0) =>
           /\ Splits(s.pendingData, given, fs, r.pendingData, given + n)
           /\ r.pendingData # << >> => r.sendWindow = 0

SendingOut(p, id, s, given, n) ==
    LET r == [first |-> given + 1, length |-> n]
    IN  IF s.sendWindow = 0
        THEN /\ Store(p, id, [s EXCEPT !.pendingData = Append(@, r)])
             /\ UNCHANGED wire
        ELSE LET k == IF n < s.sendWindow THEN n ELSE s.sendWindow
             IN  /\ SendFrames(p, <<Data(id, Cut(r, k))>>)
                 /\ Store(p, id, [s EXCEPT
                         !.sendWindow = @ - k,
                         !.pendingData = IF k < n THEN Append(@, Rest(r, k)) ELSE @])

LEMMA NoFrames ==
    ASSUME NEW p \in Peers, wire \in [Peers -> Seq(GoodFrames)], UNCHANGED wire
    PROVE  SendFrames(p, << >>)
<1>1. PICK v \in Seq(GoodFrames) : v = wire[p]
  OBVIOUS
<1>2. v \o << >> = v
  OBVIOUS
<1>3. [wire EXCEPT ![p] = @ \o << >>] = wire
  BY <1>1, <1>2
<1> QED
  BY <1>3 DEF SendFrames, Sending

LEMMA SendingIsWriting ==
    ASSUME NEW p \in Peers, NEW id \in Ids, NEW s \in Stream, NEW given \in Nat,
           NEW n \in Nat \ {0}, wire \in [Peers -> Seq(GoodFrames)], SendingOut(p, id, s, given, n)
    PROVE  \E fs, r : Written(p, id, s, given, n, fs, r)
<1>1. PICK q \in Seq(Ranges), w \in Nat : q = s.pendingData /\ w = s.sendWindow
  BY StreamFields
<1>2. PICK x : x = [first |-> given + 1, length |-> n]
  OBVIOUS
<1>3. CASE w = 0
  <2>1. PICK q2 \in Seq(Ranges) : q2 = Append(q, x) /\ Splits(q, given, << >>, q2, given + n)
    BY <1>2, UnitsWait DEF Waits
  <2>2. PICK r : r = Queued(s, w, q2)
    OBVIOUS
  <2>3. HasQueued(s, r, w, q2)
    BY <2>2, QueuedFields
  <2>4. [s EXCEPT !.pendingData = Append(@, x)] = r
    BY <1>1, <2>1, <2>2, QueuedOnly
  <2>5. Store(p, id, r) /\ SendFrames(p, << >>)
    BY <1>1, <1>2, <1>3, <2>4, NoFrames DEF SendingOut
  <2>6. << >> \in Seq(PayloadFrames(id)) /\ LengthOf(<< >>) = 0 /\ w + 0 = w
    BY LengthOfFew
  <2>7. Written(p, id, s, given, n, << >>, r)
    BY <1>1, <1>3, <2>1, <2>3, <2>5, <2>6 DEF Written, HasQueued
  <2> QED
    BY <2>7
<1>4. CASE w # 0
  <2>1. PICK k \in 1 .. n : k = (IF n < w THEN n ELSE w) /\ k <= w /\ (k < n => k = w)
    BY <1>4
  <2>2. GoesOut(id, given, n, k, x)
    BY <1>2, UnitsGoOut
  <2>3. PICK f : f = Data(id, Cut(x, k))
    OBVIOUS
  <2>4. PICK fs : fs = <<f>>
    OBVIOUS
  <2>5. fs \in Seq(PayloadFrames(id)) /\ LengthOf(fs) = k
    BY <2>2, <2>3, <2>4 DEF GoesOut
  <2>6. PICK y : y = Rest(x, k)
    OBVIOUS
  <2>7. PICK q2 : q2 = IF k < n THEN Append(q, y) ELSE q
    OBVIOUS
  <2>8. q2 \in Seq(Ranges)
    <3>1. CASE k < n
      <4>1. Append(<< >>, y) \in Seq(Ranges)
        BY <2>2, <2>6, <3>1 DEF GoesOut
      <4>2. Append(<< >>, y) = <<y>> /\ Len(<<y>>) = 1 /\ <<y>>[1] = y
        OBVIOUS
      <4>3. y \in Ranges
        BY <4>1, <4>2
      <4> QED
        BY <2>7, <3>1, <4>3
    <3> QED
      BY <2>7, <3>1
  <2>9. w - k \in Nat /\ w - k + k = w /\ (k < n => w - k = 0)
    BY <2>1
  <2>10. PICK m \in Nat : m = w - k
    BY <2>9
  <2>11. PICK r : r = Queued(s, m, q2)
    OBVIOUS
  <2>12. HasQueued(s, r, m, q2)
    BY <2>8, <2>11, QueuedFields
  <2>13. [s EXCEPT !.sendWindow = @ - k,
                   !.pendingData = IF k < n THEN Append(@, Rest(x, k)) ELSE @] = r
    BY <1>1, <2>6, <2>7, <2>10, <2>11 DEF Queued, Stream
  <2>14. Store(p, id, r) /\ SendFrames(p, fs)
    BY <1>1, <1>2, <1>4, <2>1, <2>3, <2>4, <2>13 DEF SendingOut
  <2>15. ASSUME q # << >> => w = 0
         PROVE  Splits(q, given, fs, q2, given + n) /\ (q2 # << >> => m = 0)
    <3>1. q = << >>
      BY <1>4, <2>15
    <3>2. q2 = IF k < n THEN Append(<< >>, y) ELSE << >>
      BY <2>7, <3>1
    <3>3. Splits(<< >>, given, fs, q2, given + n)
      BY <2>2, <2>3, <2>4, <2>6, <3>2 DEF GoesOut
    <3> QED
      BY <2>9, <2>10, <3>1, <3>2, <3>3
  <2>16. Written(p, id, s, given, n, fs, r)
    BY <1>1, <2>5, <2>9, <2>10, <2>12, <2>14, <2>15 DEF Written, HasQueued
  <2> QED
    BY <2>16
<1> QED
  BY <1>3, <1>4

LEMMA SendToStreamKeeps ==
    ASSUME NEW p \in Peers, NEW id \in Ids, NEW n \in SendSizes, TunnelInv, SendToStream(p, id, n)
    PROVE  Onwards
<1>0. Start(p) /\ n \in Nat \ {0}
  BY Starting, TunnelAssumption
<1>1. PICK s \in Stream, given \in Nat : s = streams[p][id] /\ given = accepted[p][id]
  BY <1>0 DEF Start, StreamsTyped, SendToStream, Knows
<1>2. /\ Knows(p, id) /\ ~s.localClosed /\ given + n <= MaxAccepted
      /\ accepted' = [accepted EXCEPT ![p][id] = @ + n]
      /\ SendingOut(p, id, s, given, n)
      /\ UNCHANGED <<m_nextStreamId, connected, stack, delivered>>
  BY <1>1 DEF SendToStream, SendingOut
<1>3. PICK fs, r : Written(p, id, s, given, n, fs, r)
  <2>1. wire \in [Peers -> Seq(GoodFrames)]
    BY <1>0 DEF Start
  <2> QED
    BY <1>0, <1>2, <2>1, SendingIsWriting
<1>4. fs \in Seq(StreamFrames(id)) /\ fs \in Seq(GoodFrames) /\ fs \in Seq(PayloadFrames(id))
      /\ r \in Stream
  <2>1. fs \in Seq(PayloadFrames(id)) /\ r \in Stream
    BY <1>3 DEF Written
  <2>2. PayloadFrames(id) \subseteq StreamFrames(id) /\ StreamFrames(id) \subseteq GoodFrames
    BY SentFrames
  <2> QED
    BY <2>1, <2>2
<1>5. Stored(p, id, r)
  <2>1. StreamsTyped /\ Store(p, id, r)
    BY <1>0, <1>3 DEF Start, Written
  <2> QED
    BY <1>4, <2>1, StoreStores
<1>6. WireMoved(p, fs, wire[Other(p)])
  <2>1. Typed /\ SendFrames(p, fs)
    BY <1>0, <1>3 DEF Start, Written
  <2> QED
    BY <1>4, <2>1, WireSends
<1>7. LinesMoved(p, id, fs)
  BY <1>0, <1>4, <1>6, LinesSent DEF Start
<1>8. SameNumbers(p)
  BY <1>0, <1>2, Numbering
<1>9. /\ accepted' \in [Peers -> [Ids -> 0 .. MaxAccepted]] /\ accepted'[p][id] = given + n
      /\ \A q \in Peers, i \in Ids : q # p \/ i # id => accepted'[q][i] = accepted[q][i]
  <2>1. PICK v \in 0 .. MaxAccepted : v = given + n
    BY <1>0, <1>2, TunnelAssumption
  <2>2. accepted \in [Peers -> [Ids -> 0 .. MaxAccepted]]
    BY <1>0 DEF Start
  <2>3. accepted' = [accepted EXCEPT ![p][id] = v]
    BY <1>1, <1>2, <2>1, <2>2
  <2> QED
    BY <2>1, <2>2, <2>3
<1>10. Shape(p, id, fs, wire[Other(p)], stack[p])
  BY <1>0, <1>2, <1>4, <1>5, <1>6, <1>7, <1>8, <1>9
     DEF Shape, Start, Stored, Elsewhere, SameNumbers
<1>11. PICK e, g, e2, g2 : Ends(p, id, fs, wire[Other(p)], stack[p], e, g, e2, g2)
  BY <1>10, ShapeEnds
<1>12. /\ e.known /\ e.s = s /\ e.accepted = given /\ e.delivered = delivered[p][id]
       /\ e.owed = Owed(stack[p], id) /\ e.next = m_nextStreamId[p]
  BY <1>1, <1>2, <1>11, EndIs DEF Ends
<1>13. /\ e2.known /\ e2.s = r /\ e2.accepted = given + n /\ e2.delivered = delivered[p][id]
       /\ e2.owed = Owed(stack[p], id) /\ e2.next = m_nextStreamId[p]
  BY <1>2, <1>5, <1>9, <1>11, EndIsNext DEF Ends, Stored
<1>14. Sends(id, e, g, e2, g2, fs)
  <2>1. /\ e2.up = e.up /\ g2 = g /\ ~Opens(id, g)
        /\ e2.line = e.line \o IF e.up THEN fs ELSE << >>
    <3>1. Pair(p, id, e, g) /\ e.line \o << >> = e.line
      BY <1>11 DEF Ends
    <3>2. ~Opens(id, g)
      BY <1>12, <3>1, NotOpening
    <3> QED
      BY <1>11, <3>1, <3>2 DEF Ends
  <2>2. e.up => (s.pendingData # << >> => s.sendWindow = 0)
    <3>1. Accounted(e)
      BY <1>11 DEF Ends, Pair, Sound
    <3> QED
      BY <1>12, <3>1 DEF Accounted
  <2>3. /\ r.sendWindow + LengthOf(fs) = s.sendWindow
        /\ r.recvWindow = s.recvWindow /\ r.unackedRecvBytes = s.unackedRecvBytes
        /\ r.localClosed = s.localClosed /\ r.remoteClosed = s.remoteClosed
        /\ e.up => /\ Splits(s.pendingData, given, fs, r.pendingData, given + n)
                   /\ r.pendingData # << >> => r.sendWindow = 0
    BY <1>3, <2>2 DEF Written
  <2>4. given <= given + n
    BY <1>0
  <2> QED
    BY <1>12, <1>13, <2>1, <2>3, <2>4 DEF Sends
<1>15. Pair(p, id, e2, g2)
  <2>1. Pair(p, id, e, g) /\ EndOK(id, e2) /\ EndOK(id, g2)
    BY <1>11 DEF Ends
  <2> QED
    BY <1>4, <1>14, <2>1, SendsSound
<1>16. StreamStep(id, e, g, e2, g2)
  <2>1. Pair(p, id, e, g) /\ g2 = g
    BY <1>11 DEF Ends
  <2> QED
    BY <1>4, <1>14, <1>15, <2>1, GivesFlows
<1> QED
  BY <1>10, <1>11, <1>15, <1>16, ShapeSound DEF Ends

LEMMA AfterCloseCalls ==
    ASSUME NEW s \in Stream, NEW id \in Ids
    PROVE  AfterClose(s, id) \in Seq(PlainCalls)
<1>1. [pc |-> "onClose", id |-> id] \in PlainCalls /\ [pc |-> "erase", id |-> id] \in PlainCalls
  BY DEF PlainCalls, Calls, Callbacks
<1> QED
  BY <1>1 DEF AfterClose

LEMMA CloseStreamKeeps ==
    ASSUME NEW p \in Peers, NEW id \in Ids, NEW rst \in BOOLEAN, TunnelInv, CloseStream(p, id, rst)
    PROVE  Onwards
<1>0. Start(p)
  BY Starting
<1>1. PICK s \in Stream : s = streams[p][id]
  BY <1>0 DEF Start, StreamsTyped, CloseStream, Knows
<1>2. /\ Knows(p, id) /\ ~s.localClosed
      /\ Store(p, id, Closed(s)) /\ SendFrames(p, <<Fin(id, rst)>>)
      /\ Call(p, AfterClose(s, id))
      /\ UNCHANGED <<m_nextStreamId, connected, accepted, delivered>>
  BY <1>1 DEF CloseStream
<1>3. PICK f \in StreamFrames(id) : /\ f = Fin(id, rst) /\ f.type = "Data"
                                    /\ f.flag \in FinFlags /\ f.length = 0
  BY SentFrames
<1>4. PICK fs : fs = <<f>> /\ fs \in Seq(StreamFrames(id)) /\ fs \in Seq(GoodFrames)
  BY OneFrame
<1>5. Stored(p, id, Closed(s))
  <2>1. StreamsTyped /\ Closed(s) \in Stream
    BY <1>0, ClosedFields DEF Start
  <2> QED
    BY <1>2, <2>1, StoreStores
<1>6. WireMoved(p, fs, wire[Other(p)])
  <2>1. Typed /\ SendFrames(p, fs)
    BY <1>0, <1>2, <1>3, <1>4 DEF Start
  <2> QED
    BY <1>4, <2>1, WireSends
<1>7. LinesMoved(p, id, fs)
  BY <1>0, <1>4, <1>6, LinesSent DEF Start
<1>8. SameNumbers(p)
  BY <1>0, <1>2, Numbering
<1>9. PICK st : st = AfterClose(s, id) \o stack[p]
  OBVIOUS
<1>10. /\ stack' = [stack EXCEPT ![p] = st] /\ st \in Seq(Calls)
       /\ StackFine(st, Len(wire[Other(p)])) /\ \A i : Owed(st, i) = Owed(stack[p], i)
  <2>1. stack' = [stack EXCEPT ![p] = st]
    BY <1>2, <1>9 DEF Call
  <2>2. /\ Len(wire[Other(p)]) \in Nat /\ stack[p] \in Seq(Calls)
        /\ StackFine(stack[p], Len(wire[Other(p)])) /\ AfterClose(s, id) \in Seq(PlainCalls)
    BY <1>0, AfterCloseCalls DEF Start
  <2>3. Pushed(stack[p], AfterClose(s, id), Len(wire[Other(p)]))
    BY <2>2, Push
  <2> QED
    BY <1>9, <2>1, <2>3 DEF Pushed
<1>11. Shape(p, id, fs, wire[Other(p)], st)
  BY <1>0, <1>2, <1>4, <1>5, <1>6, <1>7, <1>8, <1>10
     DEF Shape, Start, Stored, Elsewhere, SameNumbers
<1>12. PICK e, g, e2, g2 : Ends(p, id, fs, wire[Other(p)], st, e, g, e2, g2)
  BY <1>11, ShapeEnds
<1>13. /\ e.known /\ e.s = s /\ e.accepted = accepted[p][id] /\ e.delivered = delivered[p][id]
       /\ e.owed = Owed(stack[p], id) /\ e.next = m_nextStreamId[p]
  BY <1>1, <1>2, <1>12, EndIs DEF Ends
<1>14. /\ e2.known /\ e2.s = Closed(s) /\ e2.accepted = accepted[p][id]
       /\ e2.delivered = delivered[p][id] /\ e2.owed = Owed(stack[p], id)
       /\ e2.next = m_nextStreamId[p]
  BY <1>2, <1>5, <1>10, <1>12, EndIsNext DEF Ends, Stored
<1>15. Shuts(e, g, e2, g2, f)
  BY <1>2, <1>3, <1>4, <1>12, <1>13, <1>14 DEF Shuts, Ends
<1>16. Pair(p, id, e2, g2)
  <2>1. Pair(p, id, e, g) /\ EndOK(id, e2) /\ g2 = g
    BY <1>12 DEF Ends
  <2> QED
    BY <1>15, <2>1, ShutsSound
<1>17. StreamStep(id, e, g, e2, g2)
  BY <1>12, <1>15, ShutsFlows DEF Ends
<1> QED
  BY <1>11, <1>12, <1>16, <1>17, ShapeSound DEF Ends

(* A handler returns to the ACK that onNewStream precedes.                 *)
LEMMA SendAckKeeps ==
    ASSUME NEW p \in Peers, TunnelInv, SendAck(p)
    PROVE  Onwards
<1>0. Start(p)
  BY Starting
<1>1. Popped(stack[p], Len(wire[Other(p)]))
  <2>1. /\ Len(wire[Other(p)]) \in Nat /\ stack[p] \in Seq(Calls) /\ stack[p] # << >>
        /\ StackFine(stack[p], Len(wire[Other(p)]))
    BY <1>0 DEF Start, SendAck, Running
  <2> QED
    BY <2>1, Pop
<1>2. PICK c \in Calls : c = Head(stack[p]) /\ c.pc = "ack" /\ c.id \in Ids
  BY <1>1, CallKinds DEF Popped, SendAck, Running, Owing
<1>3. PICK id \in Ids, st \in Seq(Calls) : id = c.id /\ st = Tail(stack[p])
  BY <1>1, <1>2 DEF Popped
<1>4. /\ SendFrames(p, <<Ack(id)>>) /\ Continue(p, << >>)
      /\ UNCHANGED <<streams, m_nextStreamId, connected, accepted, delivered>>
  BY <1>2, <1>3 DEF SendAck
<1>5. PICK f \in StreamFrames(id) : /\ f = Ack(id) /\ f.type = "WindowUpdate"
                                    /\ f.flag = "ACK" /\ f.length = 0
  BY SentFrames
<1>6. PICK fs : fs = <<f>> /\ fs \in Seq(StreamFrames(id)) /\ fs \in Seq(GoodFrames)
  BY OneFrame
<1>7. WireMoved(p, fs, wire[Other(p)])
  <2>1. Typed /\ SendFrames(p, fs)
    BY <1>0, <1>4, <1>5, <1>6 DEF Start
  <2> QED
    BY <1>6, <2>1, WireSends
<1>8. LinesMoved(p, id, fs)
  BY <1>0, <1>6, <1>7, LinesSent DEF Start
<1>9. SameNumbers(p)
  BY <1>0, <1>4, Numbering
<1>10. /\ stack' = [stack EXCEPT ![p] = st] /\ StackFine(st, Len(wire[Other(p)]))
       /\ \A i : Owed(st, i) = {}
       /\ \A i : Owed(stack[p], i) = IF i = id THEN {c} ELSE {}
  <2>1. << >> \o st = st
    OBVIOUS
  <2>2. stack' = [stack EXCEPT ![p] = st]
    BY <1>3, <1>4, <2>1 DEF Continue
  <2>3. c.pc \in Owing
    BY <1>2 DEF Owing
  <2> QED
    BY <1>1, <1>2, <1>3, <2>2, <2>3 DEF Popped
<1>11. Elsewhere(p, id) /\ StreamsTyped'
  BY <1>0, <1>4 DEF Elsewhere, Knows, Start, StreamsTyped
<1>12. Shape(p, id, fs, wire[Other(p)], st)
  BY <1>0, <1>3, <1>4, <1>6, <1>7, <1>8, <1>9, <1>10, <1>11 DEF Shape, Start, SameNumbers
<1>13. PICK e, g, e2, g2 : Ends(p, id, fs, wire[Other(p)], st, e, g, e2, g2)
  BY <1>12, ShapeEnds
<1>14. /\ e.known = Knows(p, id) /\ e.s = IF Knows(p, id) THEN streams[p][id] ELSE NewStream
       /\ e.accepted = accepted[p][id] /\ e.delivered = delivered[p][id]
       /\ e.owed = {c} /\ e.next = m_nextStreamId[p]
  BY <1>10, <1>13, EndIs DEF Ends
<1>15. /\ e2.known = Knows(p, id)
       /\ e2.s = IF Knows(p, id) THEN streams[p][id] ELSE NewStream
       /\ e2.accepted = accepted[p][id] /\ e2.delivered = delivered[p][id]
       /\ e2.owed = {} /\ e2.next = m_nextStreamId[p]
  <2>1. Knows(p, id)' = Knows(p, id) /\ streams' = streams
    BY <1>4 DEF Knows
  <2> QED
    BY <1>4, <1>10, <1>13, <2>1, EndIsNext DEF Ends
<1>16. Accounted(e) => Accounted(e2)
  BY <1>2, <1>13, <1>14, <1>15 DEF Accounted, Ends
<1>17. Replies(e, g, e2, g2, f)
  BY <1>5, <1>6, <1>13, <1>14, <1>15, <1>16 DEF Replies, Ends
<1>18. Pair(p, id, e2, g2)
  <2>1. Pair(p, id, e, g) /\ EndOK(id, e2)
    BY <1>13 DEF Ends
  <2> QED
    BY <1>17, <2>1, RepliesSound
<1>19. StreamStep(id, e, g, e2, g2)
  BY <1>13, <1>17, RepliesFlows DEF Ends
<1> QED
  BY <1>12, <1>13, <1>18, <1>19, ShapeSound DEF Ends

(* A step that no stream hears of.                                         *)
LEMMA QuietKeeps ==
    ASSUME TunnelInv, Typed', Parity', StacksFine', \A q \in Peers, id \in Ids : Quiet(q, id)
    PROVE  Onwards
<1>1. ASSUME NEW p \in Peers, NEW id \in Ids
      PROVE  Sound(p, id, End(p, id)', End(Other(p), id)')
  <2>1. \A q \in Peers : Quiet(q, id)
    OBVIOUS
  <2>2. Typed /\ Streams
    BY DEF TunnelInv
  <2> QED
    BY <2>1, <2>2, QuietStaysSound
<1>2. Streams'
  BY <1>1 DEF Streams
<1>3. ASSUME NEW p \in Peers, NEW id \in Ids PROVE FlowSteady(p, id)
  BY QuietFlows DEF TunnelInv
<1> QED
  BY <1>2, <1>3 DEF TunnelInv, FlowsStep, Onwards

(* trySendWindowUpdate: the credit of what was consumed is counted, or     *)
(* sent.                                                                   *)
Counted(s, n) == [s EXCEPT !.unackedRecvBytes = n]

LEMMA CountedFields ==
    ASSUME NEW s \in Stream, NEW n \in Nat
    PROVE  /\ Counted(s, n) \in Stream /\ Counted(s, n).unackedRecvBytes = n
           /\ Counted(s, n).sendWindow = s.sendWindow /\ Counted(s, n).recvWindow = s.recvWindow
           /\ Counted(s, n).localClosed = s.localClosed
           /\ Counted(s, n).remoteClosed = s.remoteClosed
           /\ Counted(s, n).pendingData = s.pendingData
BY DEF Counted, Stream

(* The call that is innermost owes its stream something, and is done.      *)
Settles(p, c, id, st) ==
    /\ c = Head(stack[p]) /\ id = c.id /\ id \in Ids
    /\ stack' = [stack EXCEPT ![p] = st] /\ st \in Seq(Calls)
    /\ StackFine(st, Len(wire[Other(p)]))
    /\ \A i : Owed(st, i) = {}
    /\ \A i : Owed(stack[p], i) = IF i = id THEN {c} ELSE {}

LEMMA Settling ==
    ASSUME NEW p \in Peers, Start(p), stack[p] # << >>, Head(stack[p]).pc \in Owing,
           Continue(p, << >>)
    PROVE  Settles(p, Head(stack[p]), Head(stack[p]).id, Tail(stack[p]))
<1>1. Popped(stack[p], Len(wire[Other(p)]))
  <2>1. /\ Len(wire[Other(p)]) \in Nat /\ stack[p] \in Seq(Calls) /\ stack[p] # << >>
        /\ StackFine(stack[p], Len(wire[Other(p)]))
    BY DEF Start
  <2> QED
    BY <2>1, Pop
<1>2. PICK c \in Calls : c = Head(stack[p]) /\ c.pc \in Owing /\ c.id \in Ids
  BY <1>1, CallKinds DEF Popped
<1>3. PICK st \in Seq(Calls) : st = Tail(stack[p])
  BY <1>1 DEF Popped
<1>4. << >> \o st = st
  OBVIOUS
<1>5. stack' = [stack EXCEPT ![p] = st]
  BY <1>3, <1>4 DEF Continue
<1>6. \A i : Owed(stack[p], i) = IF i = c.id THEN {c} ELSE {}
  BY <1>1, <1>2 DEF Popped
<1> QED
  BY <1>1, <1>2, <1>3, <1>5, <1>6 DEF Popped, Settles

LEMMA CountsKeeps ==
    ASSUME NEW p \in Peers, NEW c, NEW id, NEW st, TunnelInv, Settles(p, c, id, st),
           c.pc = "consumed", c.length \in Nat, Knows(p, id),
           streams[p][id].unackedRecvBytes + c.length < Threshold,
           Store(p, id, Counted(streams[p][id], streams[p][id].unackedRecvBytes + c.length)),
           UNCHANGED <<wire, m_nextStreamId, connected, accepted, delivered>>
    PROVE  Onwards
<1>0. Start(p) /\ id \in Ids
  BY Starting DEF Settles
<1>1. PICK s \in Stream : s = streams[p][id]
  BY <1>0 DEF Start, StreamsTyped, Knows
<1>2. PICK n \in Nat : n = s.unackedRecvBytes + c.length /\ n < Threshold
  BY <1>1, StreamFields
<1>3. PICK r \in Stream : /\ r = Counted(s, n) /\ r.unackedRecvBytes = n
                          /\ r.sendWindow = s.sendWindow /\ r.recvWindow = s.recvWindow
                          /\ r.localClosed = s.localClosed /\ r.remoteClosed = s.remoteClosed
                          /\ r.pendingData = s.pendingData
  BY CountedFields
<1>4. PICK fs : fs = << >> /\ fs \in Seq(StreamFrames(id)) /\ fs \in Seq(GoodFrames)
  <2>1. << >> \in Seq(StreamFrames(id)) /\ << >> \in Seq(GoodFrames)
    OBVIOUS
  <2> QED
    BY <2>1, Zenon
<1>5. Stored(p, id, r)
  <2>1. StreamsTyped /\ Store(p, id, r)
    BY <1>0, <1>1, <1>2, <1>3 DEF Start
  <2> QED
    BY <1>0, <2>1, StoreStores
<1>6. WireMoved(p, fs, wire[Other(p)])
  BY <1>0, <1>4, WireStays DEF Start
<1>7. LinesMoved(p, id, fs)
  BY <1>0, <1>4, <1>6, LinesSent DEF Start
<1>8. SameNumbers(p)
  BY <1>0, Numbering
<1>9. Shape(p, id, fs, wire[Other(p)], st)
  BY <1>0, <1>4, <1>5, <1>6, <1>7, <1>8 DEF Shape, Start, Stored, Elsewhere, SameNumbers, Settles
<1>10. PICK e, g, e2, g2 : Ends(p, id, fs, wire[Other(p)], st, e, g, e2, g2)
  BY <1>0, <1>9, ShapeEnds
<1>11. /\ e.known /\ e.s = s /\ e.accepted = accepted[p][id] /\ e.delivered = delivered[p][id]
       /\ e.owed = {c} /\ e.next = m_nextStreamId[p]
  <2>1. Owed(stack[p], id) = {c}
    BY <1>0 DEF Settles
  <2>2. e = End(p, id)
    BY <1>10 DEF Ends
  <2> QED
    BY <1>0, <1>1, <2>1, <2>2, EndIs
<1>12. /\ e2.known /\ e2.s = r /\ e2.accepted = accepted[p][id] /\ e2.delivered = delivered[p][id]
       /\ e2.owed = {} /\ e2.next = m_nextStreamId[p]
  <2>1. Owed(st, id) = {}
    BY DEF Settles
  <2>2. e2 = End(p, id)' /\ e2.owed = Owed(st, id)
    BY <1>10 DEF Ends
  <2>3. Knows(p, id)' /\ streams'[p][id] = r
    BY <1>5 DEF Stored
  <2> QED
    BY <1>0, <2>1, <2>2, <2>3, EndIsNext
<1>13. Accounted(e) => Accounted(e2)
  <2>1. s.recvWindow \in Nat /\ s.unackedRecvBytes \in Nat
    BY StreamFields
  <2>2. s.recvWindow + s.unackedRecvBytes + c.length = InitialWindow
        => s.recvWindow + n = InitialWindow
    BY <1>2, <2>1
  <2> QED
    BY <1>2, <1>3, <1>10, <1>11, <1>12, <2>2 DEF Accounted, Ends
<1>14. PICK f \in StreamFrames(id) : f = Ack(id)
  BY <1>0, SentFrames
<1>15. Replies(e, g, e2, g2, f)
  BY <1>3, <1>4, <1>10, <1>11, <1>12, <1>13 DEF Replies, Ends
<1>16. Pair(p, id, e2, g2)
  <2>1. Pair(p, id, e, g) /\ EndOK(id, e2)
    BY <1>10 DEF Ends
  <2> QED
    BY <1>0, <1>15, <2>1, RepliesSound
<1>17. StreamStep(id, e, g, e2, g2)
  BY <1>0, <1>10, <1>15, RepliesFlows DEF Ends
<1> QED
  BY <1>0, <1>9, <1>10, <1>16, <1>17, ShapeSound DEF Ends

LEMMA CreditsKeeps ==
    ASSUME NEW p \in Peers, NEW c, NEW id, NEW st, TunnelInv, Settles(p, c, id, st),
           c.pc = "consumed", c.length \in Nat, Knows(p, id), NEW n \in Nat \ {0}, n >= Threshold,
           n = streams[p][id].unackedRecvBytes + c.length,
           Store(p, id, Returned(streams[p][id], n)), SendFrames(p, <<Update(id, n)>>),
           UNCHANGED <<m_nextStreamId, connected, accepted, delivered>>
    PROVE  Onwards
<1>0. Start(p) /\ id \in Ids
  BY Starting DEF Settles
<1>1. PICK s \in Stream : s = streams[p][id]
  BY <1>0 DEF Start, StreamsTyped, Knows
<1>2. PICK f \in StreamFrames(id) : /\ f = Update(id, n) /\ f.type = "WindowUpdate"
                                    /\ f.flag = "none" /\ f.length = n
  BY <1>0, SentFrames
<1>3. PICK r \in Stream : r = Returned(s, n)
  BY ReturnedFields DEF HasReturned
<1>4. PICK fs : fs = <<f>> /\ fs \in Seq(StreamFrames(id)) /\ fs \in Seq(GoodFrames)
  BY <1>0, OneFrame
<1>5. Stored(p, id, r)
  <2>1. StreamsTyped /\ Store(p, id, r)
    BY <1>0, <1>1, <1>3 DEF Start
  <2> QED
    BY <1>0, <2>1, StoreStores
<1>6. WireMoved(p, fs, wire[Other(p)])
  <2>1. Typed /\ SendFrames(p, fs)
    BY <1>0, <1>2, <1>4 DEF Start
  <2> QED
    BY <1>4, <2>1, WireSends
<1>7. LinesMoved(p, id, fs)
  BY <1>0, <1>4, <1>6, LinesSent DEF Start
<1>8. SameNumbers(p)
  BY <1>0, Numbering
<1>9. Shape(p, id, fs, wire[Other(p)], st)
  BY <1>0, <1>4, <1>5, <1>6, <1>7, <1>8 DEF Shape, Start, Stored, Elsewhere, SameNumbers, Settles
<1>10. PICK e, g, e2, g2 : Ends(p, id, fs, wire[Other(p)], st, e, g, e2, g2)
  BY <1>0, <1>9, ShapeEnds
<1>11. /\ e.known /\ e.s = s /\ e.accepted = accepted[p][id] /\ e.delivered = delivered[p][id]
       /\ e.owed = {c} /\ e.next = m_nextStreamId[p]
  <2>1. Owed(stack[p], id) = {c}
    BY <1>0 DEF Settles
  <2>2. e = End(p, id)
    BY <1>10 DEF Ends
  <2> QED
    BY <1>0, <1>1, <2>1, <2>2, EndIs
<1>12. /\ e2.known /\ e2.s = r /\ e2.accepted = accepted[p][id] /\ e2.delivered = delivered[p][id]
       /\ e2.owed = {} /\ e2.next = m_nextStreamId[p]
  <2>1. Owed(st, id) = {}
    BY DEF Settles
  <2>2. e2 = End(p, id)' /\ e2.owed = Owed(st, id)
    BY <1>10 DEF Ends
  <2>3. Knows(p, id)' /\ streams'[p][id] = r
    BY <1>5 DEF Stored
  <2> QED
    BY <1>0, <2>1, <2>2, <2>3, EndIsNext
<1>13. Returns(e, g, e2, g2, c, f)
  BY <1>1, <1>2, <1>3, <1>4, <1>10, <1>11, <1>12 DEF Returns, Ends
<1>14. Pair(p, id, e2, g2)
  <2>1. Pair(p, id, e, g) /\ EndOK(id, e2)
    BY <1>10 DEF Ends
  <2> QED
    BY <1>0, <1>13, <2>1, ReturnsSound
<1>15. StreamStep(id, e, g, e2, g2)
  BY <1>0, <1>2, <1>10, <1>13, ReturnsFlows DEF Ends
<1> QED
  BY <1>0, <1>9, <1>10, <1>14, <1>15, ShapeSound DEF Ends

(* A handler has returned to the loop over the frames of a recv.           *)
Parsed(p, left) ==
    /\ left = Head(stack[p]).left /\ left \in 1 .. Len(wire[Other(p)]) /\ Tail(stack[p]) = << >>
    /\ \A i : Owed(stack[p], i) = {}
    /\ wire[Other(p)] # << >> /\ NextFrame(p) \in GoodFrames /\ wire[Other(p)] \in Seq(GoodFrames)
    /\ Len(wire[Other(p)]) \in Nat /\ Len(Tail(wire[Other(p)])) = Len(wire[Other(p)]) - 1

LEMMA Parsing ==
    ASSUME NEW p \in Peers, Start(p), Running(p, "parse")
    PROVE  \E left : Parsed(p, left)
<1>1. Popped(stack[p], Len(wire[Other(p)]))
  <2>1. /\ Len(wire[Other(p)]) \in Nat /\ stack[p] \in Seq(Calls) /\ stack[p] # << >>
        /\ StackFine(stack[p], Len(wire[Other(p)]))
    BY DEF Start, Running
  <2> QED
    BY <2>1, Pop
<1>2. PICK w \in Seq(GoodFrames) : w = wire[Other(p)]
  BY DEF Start
<1>3. /\ Tail(stack[p]) = << >> /\ Head(stack[p]).left \in 1 .. Len(w)
      /\ \A i : Owed(stack[p], i) = {}
  BY <1>1, <1>2 DEF Popped, Running
<1>4. w # << >>
  BY <1>3
<1>5. Head(w) \in GoodFrames /\ Len(w) \in Nat /\ Len(Tail(w)) = Len(w) - 1
  BY <1>4
<1>6. Parsed(p, Head(stack[p]).left)
  BY <1>2, <1>3, <1>4, <1>5 DEF Parsed, NextFrame
<1> QED
  BY <1>6

(* What a handler of frame f does with the calls and the wire.             *)
Handles(p, id, f, fs, left, st) ==
    /\ Parsed(p, left) /\ f = NextFrame(p) /\ f.id = id /\ Answer(p, fs)
    /\ stack' = [stack EXCEPT ![p] = st] /\ st \in Seq(Calls)
    /\ StackFine(st, Len(wire[Other(p)]) - 1)
    /\ \A i : i # id => Owed(st, i) = {}
    /\ StreamsTyped' /\ Elsewhere(p, id)
    /\ accepted' \in [Peers -> [Ids -> 0 .. MaxAccepted]]
    /\ delivered' \in [Peers -> [Ids -> 0 .. MaxAccepted]]
    /\ UNCHANGED <<m_nextStreamId, connected>>

Handling(p, id, f, fs, st, e, g, e2, g2) ==
    /\ Shape(p, id, fs, Tail(wire[Other(p)]), st)
    /\ Ends(p, id, fs, Tail(wire[Other(p)]), st, e, g, e2, g2)
    /\ f \in StreamFrames(id) /\ g.line = <<f>> \o g2.line /\ e.owed = {}

LEMMA HandlesEnds ==
    ASSUME NEW p \in Peers, NEW id \in Ids, NEW f, NEW fs \in Seq(StreamFrames(id)), NEW left,
           NEW st, TunnelInv, Handles(p, id, f, fs, left, st)
    PROVE  \E e, g, e2, g2 : Handling(p, id, f, fs, st, e, g, e2, g2)
<1>0. Start(p)
  BY Starting
<1>1. fs \in Seq(GoodFrames)
  <2>1. StreamFrames(id) \subseteq GoodFrames
    BY SentFrames
  <2> QED
    BY <2>1
<1>2. WireMoved(p, fs, Tail(wire[Other(p)]))
  BY <1>0, <1>1, WireAnswers DEF Handles, Parsed, Start
<1>3. /\ LinesMoved(p, id, fs) /\ f \in StreamFrames(id)
      /\ Pick(wire[Other(p)], OfId(id)) = <<f>> \o Pick(wire'[Other(p)], OfId(id))
  <2>1. /\ wire \in [Peers -> Seq(GoodFrames)] /\ wire[Other(p)] # << >> /\ NextFrame(p).id = id
        /\ f = NextFrame(p)
    BY <1>0 DEF Start, Handles, Parsed
  <2> QED
    BY <1>2, <2>1, LinesAnswered
<1>4. SameNumbers(p)
  BY <1>0, Numbering DEF Handles
<1>5. StackFine(st, Len(Tail(wire[Other(p)]))) /\ \A i : i # id => Owed(st, i) = Owed(stack[p], i)
  BY DEF Handles, Parsed
<1>6. Shape(p, id, fs, Tail(wire[Other(p)]), st)
  BY <1>2, <1>3, <1>4, <1>5 DEF Shape, SameNumbers, Handles
<1>7. PICK e, g, e2, g2 : Ends(p, id, fs, Tail(wire[Other(p)]), st, e, g, e2, g2)
  BY <1>6, ShapeEnds
<1>8. g.line = Pick(wire[Other(p)], OfId(id)) /\ e.owed = Owed(stack[p], id)
  BY <1>0, <1>7, EndIs DEF Ends, Start
<1>9. g2.line = Pick(wire'[Other(p)], OfId(id))
  BY <1>0, <1>7, EndIsNext DEF Ends, Start
<1>10. Owed(stack[p], id) = {}
  BY DEF Handles, Parsed
<1>11. Handling(p, id, f, fs, st, e, g, e2, g2)
  BY <1>3, <1>6, <1>7, <1>8, <1>9, <1>10 DEF Handling
<1> QED
  BY <1>11

LEMMA HandlingKeeps ==
    ASSUME NEW p \in Peers, NEW id \in Ids, NEW f, NEW fs, NEW st, NEW e, NEW g, NEW e2, NEW g2,
           TunnelInv, Handling(p, id, f, fs, st, e, g, e2, g2), Pair(p, id, e2, g2),
           StreamStep(id, e, g, e2, g2)
    PROVE  Onwards
<1>1. /\ e = End(p, id) /\ g = End(Other(p), id)
      /\ e2 = End(p, id)' /\ g2 = End(Other(p), id)'
  BY DEF Handling, Ends
<1>2. /\ Pair(p, id, End(p, id)', End(Other(p), id)')
      /\ StreamStep(id, End(p, id), End(Other(p), id), End(p, id)', End(Other(p), id)')
  BY <1>1
<1> QED
  BY <1>2, ShapeSound DEF Handling

LEMMA HandledStack ==
    ASSUME NEW p \in Peers, NEW left, NEW calls, Parsed(p, left), Handled(p, calls),
           NEW st \in Seq(Calls), st = calls \o Onward(left)
    PROVE  stack' = [stack EXCEPT ![p] = st]
<1>1. st \o << >> = st
  OBVIOUS
<1>2. stack' = [stack EXCEPT ![p] = (calls \o Onward(left)) \o Tail(@)]
  BY DEF Handled, Continue, Parsed, Onward
<1>3. stack' = [stack EXCEPT ![p] = st \o << >>]
  BY <1>2 DEF Parsed
<1> QED
  BY <1>1, <1>3

(* The calls of a handler that owes its stream nothing.                    *)
LEMMA PlainStack ==
    ASSUME NEW p \in Peers, NEW left, NEW calls \in Seq(PlainCalls), Parsed(p, left),
           Handled(p, calls)
    PROVE  \E st \in Seq(Calls) : /\ stack' = [stack EXCEPT ![p] = st]
                                  /\ StackFine(st, Len(wire[Other(p)]) - 1)
                                  /\ \A i : Owed(st, i) = {}
<1>1. PICK n \in Nat : n = Len(wire[Other(p)]) - 1 /\ left \in 1 .. (n + 1)
  <2>1. PICK m \in Nat : m = Len(wire[Other(p)]) /\ left \in 1 .. m
    BY DEF Parsed
  <2>2. m - 1 \in Nat /\ (m - 1) + 1 = m
    BY <2>1
  <2> QED
    BY <2>1, <2>2
<1>2. n + 1 \in Nat /\ (n + 1) - 1 = n
  OBVIOUS
<1>3. PICK u \in Seq(Calls) : u = Onward(left) /\ StackFine(u, n) /\ \A i : Owed(u, i) = {}
  <2>1. /\ Onward(left) \in Seq(Calls) /\ StackFine(Onward(left), (n + 1) - 1)
        /\ \A i : Owed(Onward(left), i) = {}
    BY <1>1, <1>2, OnwardIsFine
  <2> QED
    BY <1>2, <2>1
<1>4. Pushed(u, calls, n)
  BY <1>3, Push
<1>5. PICK st \in Seq(Calls) : st = calls \o u /\ StackFine(st, n) /\ \A i : Owed(st, i) = Owed(u, i)
  BY <1>4 DEF Pushed
<1>6. stack' = [stack EXCEPT ![p] = st]
  BY <1>3, <1>5, HandledStack
<1> QED
  BY <1>1, <1>3, <1>5, <1>6

OneByOne(a, c, v) == <<a>> \o (<<c>> \o v) = <<a, c>> \o v

LEMMA TwoFirst ==
    ASSUME NEW T, NEW a \in T, NEW c \in T, NEW v \in Seq(T)
    PROVE  OneByOne(a, c, v)
<1>1. PICK s \in Seq(T), t \in Seq(T), u \in Seq(T) : s = <<a>> /\ t = <<c>> /\ u = <<a, c>>
  <2>1. <<a>> \in Seq(T)
    OBVIOUS
  <2>2. <<c>> \in Seq(T)
    OBVIOUS
  <2>3. <<a, c>> \in Seq(T)
    OBVIOUS
  <2> QED
    BY <2>1, <2>2, <2>3, Zenon
<1>2. s \o t = u
  <2>1. PICK w \in Seq(T) : w = s \o t
    <3>1. s \o t \in Seq(T)
      BY <1>1
    <3> QED
      BY <3>1, Zenon
  <2>2. Len(w) = 2 /\ w[1] = a /\ w[2] = c
    BY <1>1, <2>1
  <2>3. Len(u) = 2 /\ u[1] = a /\ u[2] = c
    BY <1>1
  <2>4. w = u
    <3>1. \A i \in 1 .. 2 : w[i] = u[i]
      <4>1. \A i \in 1 .. 2 : i = 1 \/ i = 2
        OBVIOUS
      <4> QED
        BY <2>2, <2>3, <4>1, Zenon
    <3> QED
      BY <1>1, <2>1, <2>2, <2>3, <3>1, SeqEqual, Zenon
  <2> QED
    BY <2>1, <2>4
<1>3. (s \o t) \o v = s \o (t \o v)
  BY <1>1
<1>4. <<a>> \o (<<c>> \o v) = <<a, c>> \o v
  BY <1>1, <1>2, <1>3, Zenon
<1> QED
  BY <1>4 DEF OneByOne

(* And of one that owes an ACK, or credit.                                 *)
LEMMA OwingStack ==
    ASSUME NEW p \in Peers, NEW left, NEW a \in PlainCalls, NEW c \in Calls, c.pc \in Owing,
           Parsed(p, left), Handled(p, <<a, c>>)
    PROVE  \E st \in Seq(Calls) : /\ stack' = [stack EXCEPT ![p] = st]
                                  /\ StackFine(st, Len(wire[Other(p)]) - 1)
                                  /\ \A i : Owed(st, i) = IF c.id = i THEN {c} ELSE {}
<1>1. PICK n \in Nat : n = Len(wire[Other(p)]) - 1 /\ left \in 1 .. (n + 1)
  <2>1. PICK m \in Nat : m = Len(wire[Other(p)]) /\ left \in 1 .. m
    BY DEF Parsed
  <2>2. m - 1 \in Nat /\ (m - 1) + 1 = m
    BY <2>1
  <2> QED
    BY <2>1, <2>2
<1>2. n + 1 \in Nat /\ (n + 1) - 1 = n
  OBVIOUS
<1>3. PICK u \in Seq(Calls) : /\ u = <<c>> \o Onward(left) /\ StackFine(u, n)
                              /\ \A i : Owed(u, i) = IF c.id = i THEN {c} ELSE {}
  <2>1. /\ <<c>> \o Onward(left) \in Seq(Calls) /\ StackFine(<<c>> \o Onward(left), (n + 1) - 1)
        /\ \A i : Owed(<<c>> \o Onward(left), i) = IF c.id = i THEN {c} ELSE {}
    BY <1>1, <1>2, OwingIsFine
  <2> QED
    BY <1>2, <2>1
<1>4. PICK x \in Seq(PlainCalls) : x = <<a>>
  <2>1. <<a>> \in Seq(PlainCalls)
    OBVIOUS
  <2> QED
    BY <2>1, Zenon
<1>5. Pushed(u, x, n)
  BY <1>3, Push
<1>6. PICK st \in Seq(Calls) : st = x \o u /\ StackFine(st, n) /\ \A i : Owed(st, i) = Owed(u, i)
  BY <1>5 DEF Pushed
<1>7. st = <<a, c>> \o Onward(left)
  <2>1. PICK v \in Seq(Calls) : v = Onward(left)
    BY <1>1, <1>2, OnwardIsFine
  <2>2. a \in Calls
    BY DEF PlainCalls
  <2>3. OneByOne(a, c, v)
    BY <2>1, <2>2, TwoFirst
  <2> QED
    BY <1>3, <1>4, <1>6, <2>1, <2>3 DEF OneByOne
<1>8. stack' = [stack EXCEPT ![p] = st]
  BY <1>6, <1>7, HandledStack
<1> QED
  BY <1>1, <1>3, <1>6, <1>8

LEMMA HandleSynKeeps ==
    ASSUME NEW p \in Peers, TunnelInv, HandleSyn(p)
    PROVE  Onwards
<1>0. Start(p)
  BY Starting
<1>1. PICK left : Parsed(p, left)
  BY <1>0, Parsing DEF HandleSyn
<1>2. PICK f \in GoodFrames : f = NextFrame(p)
  BY <1>1 DEF Parsed
<1>3. PICK id \in Ids : id = f.id
  BY <1>2 DEF HandleSyn, GoodFrames
<1>4. /\ f.type = "WindowUpdate" /\ f.flag = "SYN" /\ ~Knows(p, id)
      /\ Store(p, id, NewStream) /\ Answer(p, << >>)
      /\ Handled(p, <<[pc |-> "onNewStream", id |-> id], [pc |-> "ack", id |-> id]>>)
      /\ UNCHANGED <<m_nextStreamId, connected, accepted, delivered>>
  BY <1>2, <1>3 DEF HandleSyn
<1>5. PICK a \in PlainCalls : a = [pc |-> "onNewStream", id |-> id]
  <2>1. [pc |-> "onNewStream", id |-> id] \in PlainCalls
    BY DEF PlainCalls, Calls, Callbacks
  <2> QED
    BY <2>1, Zenon
<1>6. PICK c \in Calls : c = [pc |-> "ack", id |-> id] /\ c.pc = "ack" /\ c.id = id /\ c.pc \in Owing
  <2>1. [pc |-> "ack", id |-> id] \in Calls
    BY DEF Calls
  <2> QED
    BY <2>1 DEF Owing
<1>7. PICK st \in Seq(Calls) : /\ stack' = [stack EXCEPT ![p] = st]
                               /\ StackFine(st, Len(wire[Other(p)]) - 1)
                               /\ \A i : Owed(st, i) = IF c.id = i THEN {c} ELSE {}
  <2>1. Handled(p, <<a, c>>) /\ c.pc \in Owing
    BY <1>4, <1>5, <1>6
  <2> QED
    BY <1>1, <2>1, OwingStack
<1>8. Stored(p, id, NewStream)
  BY <1>0, <1>4, StoreStores, NewStreamFields DEF Start
<1>9. PICK fs : fs = << >> /\ fs \in Seq(StreamFrames(id))
  <2>1. << >> \in Seq(StreamFrames(id))
    OBVIOUS
  <2> QED
    BY <2>1, Zenon
<1>10. Handles(p, id, f, fs, left, st)
  BY <1>0, <1>1, <1>2, <1>3, <1>4, <1>6, <1>7, <1>8, <1>9 DEF Handles, Stored, Elsewhere, Start
<1>11. PICK e, g, e2, g2 : Handling(p, id, f, fs, st, e, g, e2, g2)
  BY <1>9, <1>10, HandlesEnds
<1>12. /\ ~e.known /\ e.accepted = accepted[p][id] /\ e.delivered = delivered[p][id]
       /\ e.next = m_nextStreamId[p]
  <2>1. e = End(p, id)
    BY <1>11 DEF Handling, Ends
  <2> QED
    BY <1>4, <2>1, EndIs
<1>13. /\ e2.known /\ e2.s = NewStream /\ e2.accepted = accepted[p][id]
       /\ e2.delivered = delivered[p][id] /\ e2.next = m_nextStreamId[p] /\ e2.owed = {c}
  <2>1. Owed(st, id) = {c}
    BY <1>6, <1>7
  <2>2. e2 = End(p, id)' /\ e2.owed = Owed(st, id)
    BY <1>11 DEF Handling, Ends
  <2>3. Knows(p, id)' /\ streams'[p][id] = NewStream
    BY <1>8 DEF Stored
  <2> QED
    BY <1>4, <2>1, <2>2, <2>3, EndIsNext
<1>14. f = Syn(id)
  <2>1. f \in StreamFrames(id)
    BY <1>11 DEF Handling
  <2> QED
    BY <1>4, <2>1, FrameKinds
<1>15. Accepts(id, e, g, e2, g2)
  BY <1>6, <1>9, <1>11, <1>12, <1>13, <1>14 DEF Accepts, Handling, Ends
<1>16. Pair(p, id, e2, g2)
  <2>1. Pair(p, id, e, g) /\ EndOK(id, e2) /\ EndOK(id, g2)
    BY <1>11 DEF Handling, Ends
  <2> QED
    BY <1>15, <2>1, AcceptsSound
<1>17. StreamStep(id, e, g, e2, g2)
  BY <1>11, <1>15, AcceptsFlows DEF Handling, Ends
<1> QED
  BY <1>11, <1>16, <1>17, HandlingKeeps

LEMMA HandleFinKeeps ==
    ASSUME NEW p \in Peers, TunnelInv, HandleFin(p)
    PROVE  Onwards
<1>0. Start(p)
  BY Starting
<1>1. PICK left : Parsed(p, left)
  BY <1>0, Parsing DEF HandleFin
<1>2. PICK f \in GoodFrames : f = NextFrame(p)
  BY <1>1 DEF Parsed
<1>3. PICK id \in Ids : id = f.id
  BY <1>2 DEF HandleFin, GoodFrames
<1>4. PICK s \in Stream : s = streams[p][id]
  BY <1>0, <1>2, <1>3 DEF Start, StreamsTyped, Knows, HandleFin
<1>5. PICK calls : calls = IF s.localClosed THEN << >> ELSE <<[pc |-> "onClose", id |-> id]>>
  OBVIOUS
<1>6. /\ f.type = "Data" /\ f.flag \in FinFlags /\ Knows(p, id) /\ ~s.remoteClosed
      /\ Store(p, id, Heard(s)) /\ Answer(p, << >>) /\ Handled(p, calls)
      /\ UNCHANGED <<m_nextStreamId, connected, accepted, delivered>>
  BY <1>2, <1>3, <1>4, <1>5 DEF HandleFin, FinFlags, Heard
<1>7. calls \in Seq(PlainCalls)
  <2>1. [pc |-> "onClose", id |-> id] \in PlainCalls
    BY DEF PlainCalls, Calls, Callbacks
  <2> QED
    BY <1>5, <2>1
<1>8. PICK st \in Seq(Calls) : /\ stack' = [stack EXCEPT ![p] = st]
                               /\ StackFine(st, Len(wire[Other(p)]) - 1)
                               /\ \A i : Owed(st, i) = {}
  BY <1>1, <1>6, <1>7, PlainStack
<1>9. PICK r \in Stream : r = Heard(s)
  BY HeardFields DEF HasHeard
<1>10. Stored(p, id, r)
  BY <1>0, <1>6, <1>9, StoreStores DEF Start
<1>11. PICK fs : fs = << >> /\ fs \in Seq(StreamFrames(id))
  <2>1. << >> \in Seq(StreamFrames(id))
    OBVIOUS
  <2> QED
    BY <2>1, Zenon
<1>12. Handles(p, id, f, fs, left, st)
  BY <1>0, <1>1, <1>2, <1>3, <1>6, <1>8, <1>10, <1>11 DEF Handles, Stored, Elsewhere, Start
<1>13. PICK e, g, e2, g2 : Handling(p, id, f, fs, st, e, g, e2, g2)
  BY <1>11, <1>12, HandlesEnds
<1>14. /\ e.known /\ e.s = s /\ e.accepted = accepted[p][id] /\ e.delivered = delivered[p][id]
       /\ e.next = m_nextStreamId[p]
  <2>1. e = End(p, id)
    BY <1>13 DEF Handling, Ends
  <2> QED
    BY <1>4, <1>6, <2>1, EndIs
<1>15. /\ e2.known /\ e2.s = r /\ e2.accepted = accepted[p][id]
       /\ e2.delivered = delivered[p][id] /\ e2.next = m_nextStreamId[p] /\ e2.owed = {}
  <2>1. Owed(st, id) = {}
    BY <1>8
  <2>2. e2 = End(p, id)' /\ e2.owed = Owed(st, id)
    BY <1>13 DEF Handling, Ends
  <2>3. Knows(p, id)' /\ streams'[p][id] = r
    BY <1>10 DEF Stored
  <2> QED
    BY <1>6, <2>1, <2>2, <2>3, EndIsNext
<1>16. Hears(e, g, e2, g2, f)
  BY <1>6, <1>9, <1>11, <1>13, <1>14, <1>15 DEF Hears, Handling, Ends
<1>17. Pair(p, id, e2, g2)
  <2>1. Pair(p, id, e, g) /\ EndOK(id, e2) /\ EndOK(id, g2) /\ f \in StreamFrames(id)
    BY <1>13 DEF Handling, Ends
  <2> QED
    BY <1>16, <2>1, HearsSound
<1>18. StreamStep(id, e, g, e2, g2)
  BY <1>13, <1>16, HearsFlows DEF Handling, Ends
<1> QED
  BY <1>13, <1>17, <1>18, HandlingKeeps

LEMMA HandleIgnoredKeeps ==
    ASSUME NEW p \in Peers, TunnelInv, HandleIgnored(p)
    PROVE  Onwards
<1>0. Start(p)
  BY Starting
<1>1. PICK left : Parsed(p, left)
  BY <1>0, Parsing DEF HandleIgnored
<1>2. PICK f \in GoodFrames : f = NextFrame(p)
  BY <1>1 DEF Parsed
<1>3. PICK id \in Ids : id = f.id
  BY <1>2 DEF HandleIgnored, GoodFrames
<1>4. /\ \/ f.type = "Data" /\ ~(Knows(p, id) /\ ~streams[p][id].remoteClosed)
         \/ f.type = "WindowUpdate" /\ ~Knows(p, id) /\ f.flag # "SYN"
         \/ f.type = "WindowUpdate" /\ Knows(p, id) /\ f.length = 0
      /\ Answer(p, << >>) /\ Handled(p, << >>)
      /\ UNCHANGED <<streams, m_nextStreamId, connected, accepted, delivered>>
  BY <1>2, <1>3 DEF HandleIgnored
<1>5. PICK fs : fs = << >> /\ fs \in Seq(StreamFrames(id)) /\ fs \in Seq(PlainCalls)
  <2>1. << >> \in Seq(StreamFrames(id)) /\ << >> \in Seq(PlainCalls)
    OBVIOUS
  <2> QED
    BY <2>1, Zenon
<1>6. PICK st \in Seq(Calls) : /\ stack' = [stack EXCEPT ![p] = st]
                               /\ StackFine(st, Len(wire[Other(p)]) - 1)
                               /\ \A i : Owed(st, i) = {}
  BY <1>1, <1>4, <1>5, PlainStack
<1>7. Elsewhere(p, id) /\ StreamsTyped'
  BY <1>0, <1>4 DEF Elsewhere, Knows, Start, StreamsTyped
<1>8. Handles(p, id, f, fs, left, st)
  BY <1>0, <1>1, <1>2, <1>3, <1>4, <1>5, <1>6, <1>7 DEF Handles, Start
<1>9. PICK e, g, e2, g2 : Handling(p, id, f, fs, st, e, g, e2, g2)
  BY <1>5, <1>8, HandlesEnds
<1>10. /\ e = End(p, id) /\ e2 = End(p, id)' /\ e2.line = e.line /\ e.owed = {}
       /\ e2.owed = Owed(st, id)
  BY <1>5, <1>9 DEF Handling, Ends
<1>11. e.known = Knows(p, id) /\ (Knows(p, id) => e.s = streams[p][id])
  BY <1>10, EndIs
<1>12. e2 = e
  <2>1. Pick(wire'[p], OfId(id)) = Pick(wire[p], OfId(id))
    BY <1>10, EndIs, EndIsNext
  <2>2. Owed(stack'[p], id) = Owed(stack[p], id)
    BY <1>6, <1>10, EndIs, EndIsNext
  <2>3. Knows(p, id)' = Knows(p, id) /\ streams' = streams
    BY <1>4 DEF Knows
  <2> QED
    BY <1>4, <1>10, <2>1, <2>2, <2>3 DEF End
<1>13. Ignores(e, g, e2, g2, f)
  BY <1>4, <1>9, <1>11, <1>12 DEF Ignores, Handling, Ends
<1>14. Pair(p, id, e2, g2)
  <2>1. Pair(p, id, e, g) /\ EndOK(id, g2) /\ f \in StreamFrames(id)
    BY <1>9 DEF Handling, Ends
  <2> QED
    BY <1>13, <2>1, IgnoresSound
<1>15. StreamStep(id, e, g, e2, g2)
  <2>1. EndOK(id, g2) /\ f \in StreamFrames(id)
    BY <1>9 DEF Handling, Ends
  <2> QED
    BY <1>13, <2>1, IgnoresFlows
<1> QED
  BY <1>9, <1>14, <1>15, HandlingKeeps

(* A Data frame fits the window, so the branch of handleDataFrame that     *)
(* resets the stream is not taken.                                         *)
DataHandled(p, id, f, s) ==
    /\ f = NextFrame(p) /\ f.id = id /\ f.type = "Data" /\ f.flag = "none" /\ f.length > 0
    /\ s = streams[p][id] /\ Knows(p, id) /\ ~s.remoteClosed

LEMMA NextFits ==
    ASSUME NEW p \in Peers, NEW id \in Ids, NEW f \in GoodFrames, NEW s, TunnelInv,
           DataHandled(p, id, f, s), wire[Other(p)] \in Seq(GoodFrames), wire[Other(p)] # << >>
    PROVE  Fits(End(p, id), End(Other(p), id), f)
<1>1. Other(p) \in Peers
  BY Peering
<1>2. PICK e : e = End(p, id)
  OBVIOUS
<1>3. PICK g : g = End(Other(p), id)
  OBVIOUS
<1>4. Pair(p, id, e, g)
  BY <1>2, <1>3, PairNow DEF TunnelInv
<1>5. PICK w \in Seq(GoodFrames) : w = wire[Other(p)] /\ w # << >> /\ f = Head(w)
  BY DEF DataHandled, NextFrame
<1>6. Tail(w) \in Seq(GoodFrames)
  BY <1>5
<1>7. PICK line : line = Pick(Tail(w), OfId(id))
  OBVIOUS
<1>8. g.line = <<f>> \o line
  BY <1>1, <1>3, <1>5, <1>7, PickedFirst, EndIs DEF DataHandled
<1>9. f \in StreamFrames(id)
  BY DEF DataHandled, StreamFrames, OfId, GoodFrames
<1>10. line \in Seq(StreamFrames(id))
  <2>1. g.line \in Seq(StreamFrames(id))
    BY <1>4 DEF Pair, EndOK
  <2>2. PICK t \in Seq(Frames) : t = line
    <3>1. Tail(w) \in Seq(Frames)
      <4>1. GoodFrames \subseteq Frames
        BY DEF GoodFrames
      <4> QED
        BY <1>6, <4>1
    <3> QED
      BY <1>7, <3>1, PickIsSeq
  <2>3. PICK h \in Seq(Frames) : h = <<f>>
    <3>1. <<f>> \in Seq(Frames)
      BY <1>9 DEF StreamFrames, OfId
    <3> QED
      BY <3>1, Zenon
  <2>4. Elems(h \o t) = Elems(h) \cup Elems(t)
    BY ElemsJoin
  <2>5. Elems(g.line) \subseteq StreamFrames(id)
    BY <2>1, ElemsType
  <2>6. Elems(t) \subseteq StreamFrames(id)
    BY <1>8, <2>2, <2>3, <2>4, <2>5
  <2>7. t \in Seq(StreamFrames(id))
    BY <2>6, ElemsType
  <2> QED
    BY <2>2, <2>7
<1>11. PICK g2 : g2 = [line |-> line]
  OBVIOUS
<1>12. g2.line \in Seq(StreamFrames(id)) /\ g.line = <<f>> \o g2.line
  BY <1>8, <1>10, <1>11
<1>13. e.known /\ ~e.s.remoteClosed /\ f.type = "Data" /\ f.flag = "none"
  BY <1>2, EndIs DEF DataHandled
<1>14. Fits(e, g, f)
  BY <1>4, <1>9, <1>12, <1>13, DataFits
<1> QED
  BY <1>2, <1>3, <1>14

LEMMA HandleDataKeeps ==
    ASSUME NEW p \in Peers, TunnelInv, HandleData(p)
    PROVE  Onwards
<1>0. Start(p)
  BY Starting
<1>1. PICK left : Parsed(p, left)
  BY <1>0, Parsing DEF HandleData
<1>2. PICK f \in GoodFrames : f = NextFrame(p)
  BY <1>1 DEF Parsed
<1>3. PICK id \in Ids, n \in Nat : id = f.id /\ n = f.length
  BY <1>2 DEF HandleData, GoodFrames, Frames
<1>4. PICK s \in Stream : s = streams[p][id]
  BY <1>0, <1>2, <1>3 DEF Start, StreamsTyped, Knows, HandleData
<1>5. DataHandled(p, id, f, s)
  BY <1>2, <1>3, <1>4 DEF HandleData, DataHandled, GoodFrames
<1>6. Fits(End(p, id), End(Other(p), id), f)
  BY <1>1, <1>5, NextFits DEF Parsed
<1>7. n <= s.recvWindow
  <2>1. End(p, id).s = s
    BY <1>4, <1>5, EndIs DEF DataHandled
  <2> QED
    BY <1>3, <1>6, <2>1 DEF Fits
<1>8. ~(n > s.recvWindow)
  BY <1>7, StreamFields
<1>9. /\ Store(p, id, Taken(s, n)) /\ Answer(p, << >>)
      /\ delivered' = [delivered EXCEPT ![p][id] = @ + n]
      /\ Handled(p, <<[pc |-> "onData", id |-> id], [pc |-> "consumed", id |-> id, length |-> n]>>)
      /\ UNCHANGED <<m_nextStreamId, connected, accepted>>
  BY <1>2, <1>3, <1>4, <1>8 DEF HandleData, Taken
<1>10. PICK a \in PlainCalls : a = [pc |-> "onData", id |-> id]
  <2>1. [pc |-> "onData", id |-> id] \in PlainCalls
    BY DEF PlainCalls, Calls, Callbacks
  <2> QED
    BY <2>1, Zenon
<1>11. PICK c \in Calls : /\ c = [pc |-> "consumed", id |-> id, length |-> n]
                          /\ c.pc = "consumed" /\ c.id = id /\ c.length = n /\ c.pc \in Owing
  <2>1. [pc |-> "consumed", id |-> id, length |-> n] \in Calls
    BY DEF Calls
  <2> QED
    BY <2>1 DEF Owing
<1>12. PICK st \in Seq(Calls) : /\ stack' = [stack EXCEPT ![p] = st]
                                /\ StackFine(st, Len(wire[Other(p)]) - 1)
                                /\ \A i : Owed(st, i) = IF c.id = i THEN {c} ELSE {}
  <2>1. Handled(p, <<a, c>>) /\ c.pc \in Owing
    BY <1>9, <1>10, <1>11
  <2> QED
    BY <1>1, <2>1, OwingStack
<1>13. PICK r \in Stream : r = Taken(s, n)
  BY <1>7, TakenFields DEF HasTaken
<1>14. Stored(p, id, r)
  BY <1>0, <1>9, <1>13, StoreStores DEF Start
<1>15. PICK fs : fs = << >> /\ fs \in Seq(StreamFrames(id))
  <2>1. << >> \in Seq(StreamFrames(id))
    OBVIOUS
  <2> QED
    BY <2>1, Zenon
<1>16. /\ delivered' \in [Peers -> [Ids -> 0 .. MaxAccepted]]
       /\ delivered'[p][id] = delivered[p][id] + n
       /\ \A q \in Peers, i \in Ids : q # p \/ i # id => delivered'[q][i] = delivered[q][i]
  <2>1. delivered \in [Peers -> [Ids -> 0 .. MaxAccepted]] /\ Other(p) \in Peers
        /\ accepted \in [Peers -> [Ids -> 0 .. MaxAccepted]]
    BY <1>0 DEF Start
  <2>2. delivered[p][id] + n <= accepted[Other(p)][id]
    <3>1. /\ End(p, id).delivered = delivered[p][id]
          /\ End(Other(p), id).accepted = accepted[Other(p)][id]
      BY <2>1, EndIs
    <3> QED
      BY <1>3, <1>6, <3>1 DEF Fits
  <2>3. PICK v \in 0 .. MaxAccepted : v = delivered[p][id] + n
    BY <2>1, <2>2, TunnelAssumption
  <2>4. delivered' = [delivered EXCEPT ![p][id] = v]
    BY <1>9, <2>1, <2>3
  <2> QED
    BY <2>1, <2>3, <2>4
<1>17. Handles(p, id, f, fs, left, st)
  BY <1>0, <1>1, <1>2, <1>3, <1>9, <1>11, <1>12, <1>14, <1>15, <1>16
     DEF Handles, Stored, Elsewhere, Start
<1>18. PICK e, g, e2, g2 : Handling(p, id, f, fs, st, e, g, e2, g2)
  BY <1>15, <1>17, HandlesEnds
<1>19. /\ e.known /\ e.s = s /\ e.accepted = accepted[p][id] /\ e.delivered = delivered[p][id]
       /\ e.next = m_nextStreamId[p]
  <2>1. e = End(p, id)
    BY <1>18 DEF Handling, Ends
  <2> QED
    BY <1>4, <1>5, <2>1, EndIs DEF DataHandled
<1>20. /\ e2.known /\ e2.s = r /\ e2.accepted = accepted[p][id]
       /\ e2.delivered = delivered[p][id] + n /\ e2.next = m_nextStreamId[p] /\ e2.owed = {c}
  <2>1. Owed(st, id) = {c}
    BY <1>11, <1>12
  <2>2. e2 = End(p, id)' /\ e2.owed = Owed(st, id)
    BY <1>18 DEF Handling, Ends
  <2>3. Knows(p, id)' /\ streams'[p][id] = r
    BY <1>14 DEF Stored
  <2> QED
    BY <1>9, <1>16, <2>1, <2>2, <2>3, EndIsNext
<1>21. Takes(e, g, e2, g2, f, c)
  BY <1>3, <1>5, <1>11, <1>13, <1>15, <1>18, <1>19, <1>20 DEF Takes, Handling, Ends, DataHandled
<1>22. Pair(p, id, e2, g2)
  <2>1. Pair(p, id, e, g) /\ EndOK(id, e2) /\ EndOK(id, g2) /\ f \in StreamFrames(id)
    BY <1>18 DEF Handling, Ends
  <2> QED
    BY <1>21, <2>1, TakesSound
<1>23. StreamStep(id, e, g, e2, g2)
  <2>1. Pair(p, id, e, g) /\ f \in StreamFrames(id)
    BY <1>18 DEF Handling, Ends
  <2> QED
    BY <1>21, <1>22, <2>1, TakesFlows
<1> QED
  BY <1>18, <1>22, <1>23, HandlingKeeps

(* handleWindowUpdateFrame: credit, and what it lets go.                   *)
LEMMA HandleUpdateKeeps ==
    ASSUME NEW p \in Peers, TunnelInv, HandleUpdate(p)
    PROVE  Onwards
<1>0. Start(p)
  BY Starting
<1>1. PICK left : Parsed(p, left)
  BY <1>0, Parsing DEF HandleUpdate
<1>2. PICK f \in GoodFrames : f = NextFrame(p)
  BY <1>1 DEF Parsed
<1>3. PICK id \in Ids, n \in Nat : id = f.id /\ n = f.length /\ n > 0
  BY <1>2 DEF HandleUpdate, GoodFrames, Frames
<1>4. PICK s \in Stream : s = streams[p][id]
  BY <1>0, <1>2, <1>3 DEF Start, StreamsTyped, Knows, HandleUpdate
<1>5. PICK w \in Nat, given \in Nat : w = s.sendWindow + n /\ given = accepted[p][id]
  <2>1. s.sendWindow + n \in Nat
    BY <1>3, <1>4, StreamFields
  <2>2. accepted[p][id] \in Nat
    BY <1>0 DEF Start
  <2> QED
    BY <2>1, <2>2
<1>6. PICK t \in Stream : t = [s EXCEPT !.sendWindow = w]
  BY <1>4 DEF Stream
<1>7. /\ t.sendWindow = w /\ t.pendingData = s.pendingData
      /\ t.recvWindow = s.recvWindow /\ t.unackedRecvBytes = s.unackedRecvBytes
      /\ t.localClosed = s.localClosed /\ t.remoteClosed = s.remoteClosed
  BY <1>6 DEF Stream
<1>8. PICK fs : fs = DataFrames(id, SentFrom(t.pendingData, t.sendWindow))
  OBVIOUS
<1>9. PICK r : r = Flushed(t, t.pendingData)
  OBVIOUS
<1>10. /\ fs \in Seq(PayloadFrames(id)) /\ r \in Stream
       /\ r.sendWindow + LengthOf(fs) = w
       /\ r.recvWindow = s.recvWindow /\ r.unackedRecvBytes = s.unackedRecvBytes
       /\ r.localClosed = s.localClosed /\ r.remoteClosed = s.remoteClosed
       /\ Splits(s.pendingData, given, fs, r.pendingData, given)
       /\ r.pendingData # << >> => r.sendWindow = 0
  <2>1. GoodFlush(id, t, r, given)
    BY <1>9, FlushIsGood
  <2> QED
    BY <1>7, <1>8, <2>1 DEF GoodFlush
<1>11. fs \in Seq(StreamFrames(id))
  <2>1. PayloadFrames(id) \subseteq StreamFrames(id)
    BY SentFrames
  <2> QED
    BY <1>10, <2>1
<1>12. /\ f.type = "WindowUpdate" /\ f.flag = "none" /\ Knows(p, id)
       /\ Store(p, id, r) /\ Answer(p, fs) /\ Handled(p, << >>)
       /\ UNCHANGED <<m_nextStreamId, connected, accepted, delivered>>
  <2>1. [s EXCEPT !.sendWindow = @ + n] = t
    BY <1>4, <1>5, <1>6 DEF Stream
  <2>2. f.type = "WindowUpdate" /\ Knows(p, id)
        /\ UNCHANGED <<m_nextStreamId, connected, accepted, delivered>>
    BY <1>2, <1>3 DEF HandleUpdate
  <2>3. /\ Store(p, id, Flushed(t, t.pendingData))
        /\ Answer(p, DataFrames(id, SentFrom(t.pendingData, t.sendWindow)))
        /\ Handled(p, << >>)
    BY <1>2, <1>3, <1>4, <2>1 DEF HandleUpdate
  <2>4. f.flag = "none"
    BY <1>3, <2>2 DEF GoodFrames
  <2> QED
    BY <1>8, <1>9, <2>2, <2>3, <2>4
<1>13. PICK st \in Seq(Calls) : /\ stack' = [stack EXCEPT ![p] = st]
                                /\ StackFine(st, Len(wire[Other(p)]) - 1)
                                /\ \A i : Owed(st, i) = {}
  <2>1. << >> \in Seq(PlainCalls)
    OBVIOUS
  <2> QED
    BY <1>1, <1>12, <2>1, PlainStack
<1>14. Stored(p, id, r)
  BY <1>0, <1>10, <1>12, StoreStores DEF Start
<1>15. Handles(p, id, f, fs, left, st)
  BY <1>0, <1>1, <1>2, <1>3, <1>12, <1>13, <1>14 DEF Handles, Stored, Elsewhere, Start
<1>16. PICK e, g, e2, g2 : Handling(p, id, f, fs, st, e, g, e2, g2)
  BY <1>11, <1>15, HandlesEnds
<1>17. /\ Pair(p, id, e, g) /\ EndOK(id, e2) /\ EndOK(id, g2) /\ f \in StreamFrames(id)
       /\ g.line = <<f>> \o g2.line /\ e.line \o << >> = e.line
       /\ e = End(p, id) /\ e2 = End(p, id)' /\ e2.up = e.up /\ e.owed = {} /\ e2.owed = Owed(st, id)
       /\ e2.line = IF e.up THEN e.line \o fs ELSE e.line
  BY <1>16 DEF Handling, Ends
<1>18. /\ e.known /\ e.s = s /\ e.accepted = given /\ e.delivered = delivered[p][id]
       /\ e.next = m_nextStreamId[p]
  BY <1>4, <1>5, <1>12, <1>17, EndIs
<1>19. /\ e2.known /\ e2.s = r /\ e2.accepted = given
       /\ e2.delivered = delivered[p][id] /\ e2.next = m_nextStreamId[p] /\ e2.owed = {}
  <2>1. Owed(st, id) = {}
    BY <1>13
  <2>2. Knows(p, id)' /\ streams'[p][id] = r
    BY <1>14 DEF Stored
  <2> QED
    BY <1>5, <1>12, <1>17, <2>1, <2>2, EndIsNext
<1>20. Sends(id, e, g, e2, g2, fs)
  <2>1. TookOne(id, g, g2, f) /\ ~Opens(id, g)
    BY <1>17, <1>18, TakeOne, NotOpening DEF EndOK
  <2>2. /\ ~Opens(id, g2) /\ DataOf(id, g2) = DataOf(id, g) /\ (Ended(g2) <=> Ended(g))
        /\ g.line # << >>
    BY <1>12, <2>1 DEF TookOne, FinFlags
  <2>3. /\ LengthOf(CreditOf(id, g)) = n + LengthOf(CreditOf(id, g2))
        /\ LengthOf(CreditOf(id, g2)) \in Nat
    BY <1>3, <1>12, <1>17, <2>1, LineLengths DEF TookOne, EndOK
  <2>4. r.sendWindow + LengthOf(fs) + LengthOf(CreditOf(id, g2))
            = s.sendWindow + LengthOf(CreditOf(id, g))
    <3>1. w + LengthOf(CreditOf(id, g2)) = s.sendWindow + LengthOf(CreditOf(id, g))
      BY <1>5, <2>3, StreamFields
    <3> QED
      BY <1>10, <3>1
  <2>5. /\ g2.owed = g.owed /\ g2.known = g.known /\ g2.up = g.up /\ g2.s = g.s
        /\ g2.accepted = g.accepted /\ g2.delivered = g.delivered /\ g2.next = g.next
    BY <1>16 DEF Handling, Ends
  <2>6. given <= given
    BY <1>5
  <2> QED
    BY <1>10, <1>17, <1>18, <1>19, <2>2, <2>4, <2>5, <2>6 DEF Sends
<1>21. Pair(p, id, e2, g2)
  BY <1>10, <1>17, <1>20, SendsSound
<1>22. StreamStep(id, e, g, e2, g2)
  <2>1. LengthOf(CreditOf(id, g2)) <= LengthOf(CreditOf(id, g))
    <3>1. TookOne(id, g, g2, f)
      BY <1>17, TakeOne DEF EndOK
    <3>2. PICK c2 \in Nat : c2 = LengthOf(CreditOf(id, g2))
      BY <1>17, LineLengths DEF EndOK
    <3>3. LengthOf(CreditOf(id, g)) = n + c2
      BY <1>3, <1>12, <3>1, <3>2 DEF TookOne
    <3> QED
      BY <1>3, <3>2, <3>3
  <2>2. e2.accepted = e.accepted
    BY <1>18, <1>19
  <2> QED
    BY <1>10, <1>17, <1>20, <1>21, <2>1, <2>2, LearnsFlows
<1> QED
  BY <1>16, <1>21, <1>22, HandlingKeeps

LEMMA TryKeeps ==
    ASSUME NEW p \in Peers, TunnelInv, TrySendWindowUpdate(p),
           Knows(p, Head(stack[p]).id)
    PROVE  Onwards
<1>0. Start(p)
  BY Starting
<1>1. PICK c, id, st : Settles(p, c, id, st) /\ c = Head(stack[p])
  <2>1. Running(p, "consumed") /\ Continue(p, << >>)
    BY DEF TrySendWindowUpdate
  <2> QED
    BY <1>0, <2>1, Settling DEF Running, Owing, Settles
<1>2. c.pc = "consumed" /\ c.id = id /\ id \in Ids
  BY <1>1 DEF TrySendWindowUpdate, Running, Settles
<1>3. c.length \in Nat
  <2>1. Popped(stack[p], Len(wire[Other(p)]))
    <3>1. /\ Len(wire[Other(p)]) \in Nat /\ stack[p] \in Seq(Calls) /\ stack[p] # << >>
          /\ StackFine(stack[p], Len(wire[Other(p)]))
      BY <1>0 DEF Start, TrySendWindowUpdate, Running
    <3> QED
      BY <3>1, Pop
  <2>2. c \in Calls
    BY <1>1, <2>1 DEF Popped
  <2> QED
    BY <1>2, <2>2, CallKinds
<1>4. PICK s \in Stream : s = streams[p][id]
  BY <1>0, <1>1, <1>2 DEF Start, StreamsTyped, Knows
<1>5. PICK n \in Nat : n = s.unackedRecvBytes + c.length
  <2>1. s.unackedRecvBytes + c.length \in Nat
    BY <1>3, <1>4, StreamFields
  <2> QED
    BY <2>1
<1>6. UNCHANGED <<m_nextStreamId, connected, accepted, delivered>> /\ Knows(p, id)
  BY <1>1, <1>2 DEF TrySendWindowUpdate
<1>7. CASE n < Threshold
  <2>1. Store(p, id, Counted(s, n)) /\ UNCHANGED wire
    <3>1. ~(n >= Threshold)
      BY <1>5, <1>7, WindowAssumption
    <3> QED
      BY <1>1, <1>2, <1>4, <1>5, <1>6, <3>1 DEF TrySendWindowUpdate, Counted
  <2>2. UNCHANGED <<wire, m_nextStreamId, connected, accepted, delivered>>
    BY <1>6, <2>1
  <2> QED
    BY <1>1, <1>2, <1>3, <1>4, <1>5, <1>6, <1>7, <2>1, <2>2, CountsKeeps
<1>8. CASE ~(n < Threshold)
  <2>1. n \in Nat \ {0} /\ n >= Threshold
    BY <1>5, <1>8, WindowAssumption
  <2>2. Store(p, id, Returned(s, n)) /\ SendFrames(p, <<Update(id, n)>>)
    BY <1>1, <1>2, <1>4, <1>5, <1>6, <1>8 DEF TrySendWindowUpdate, Returned
  <2> QED
    BY <1>1, <1>2, <1>3, <1>4, <1>5, <1>6, <2>1, <2>2, CreditsKeeps
<1> QED
  BY <1>7, <1>8

-----------------------------------------------------------------------------
(* The steps no stream hears of: calls and returns, the end of a session   *)
(* or of the connection, a stream that is forgotten, and a GoAway.         *)
Silent(p, st) ==
    /\ StreamsTyped'
    /\ \A q \in Peers, id \in Ids : Knows(q, id)' => /\ Knows(q, id)
                                                     /\ streams'[q][id] = streams[q][id]
    /\ stack' = [stack EXCEPT ![p] = st] /\ st \in Seq(Calls)
    /\ StackFine(st, Len(wire'[Other(p)]))
    /\ \A id \in Ids : /\ Owed(st, id) \subseteq Owed(stack[p], id)
                       /\ Knows(p, id)' /\ connected'[p] => Owed(st, id) = Owed(stack[p], id)
    /\ connected' \in [Peers -> BOOLEAN] /\ \A q \in Peers : connected'[q] => connected[q]
    /\ UNCHANGED <<m_nextStreamId, accepted, delivered>>

SilentWire(p) ==
    /\ wire' \in [Peers -> Seq(GoodFrames)]
    /\ \A q \in Peers, id \in Ids : Pick(wire'[q], OfId(id)) = Pick(wire[q], OfId(id))
    /\ Len(wire[p]) \in Nat /\ Len(wire'[p]) \in Nat /\ Len(wire[p]) <= Len(wire'[p])

LEMMA SilentKeeps ==
    ASSUME NEW p \in Peers, NEW st, TunnelInv, Silent(p, st), SilentWire(p)
    PROVE  Onwards
<1>0. Start(p) /\ \A q \in Peers : q = p \/ q = Other(p)
  BY Starting, Peering
<1>1. /\ stack'[p] = st /\ stack'[Other(p)] = stack[Other(p)] /\ stack' \in [Peers -> Seq(Calls)]
  BY <1>0 DEF Silent, Start
<1>2. Typed'
  <2>1. accepted' = accepted /\ delivered' = delivered /\ m_nextStreamId' = m_nextStreamId
    BY DEF Silent
  <2> QED
    BY <1>0, <1>1, <2>1, TypedPartsNext DEF Start, Silent, SilentWire
<1>3. Parity'
  BY <1>0 DEF Start, Parity, Silent
<1>4. StacksFine'
  <2>1. StackFine(stack'[p], Len(wire'[Other(p)]))
    BY <1>1 DEF Silent
  <2>2. StackFine(stack'[Other(p)], Len(wire'[p]))
    <3>1. StackFine(stack[Other(p)], Len(wire[p])) /\ stack[Other(p)] \in Seq(Calls)
      <4>1. Other(Other(p)) = p
        BY Peering
      <4>2. StackFine(stack[Other(p)], Len(wire[Other(Other(p))]))
        BY <1>0 DEF TunnelInv, StacksFine, Start
      <4> QED
        BY <1>0, <4>1, <4>2 DEF Start
    <3>2. Len(wire[p]) \in Nat /\ Len(wire'[p]) \in Nat /\ Len(wire[p]) <= Len(wire'[p])
      BY DEF SilentWire
    <3> QED
      BY <1>1, <3>1, <3>2, FineWithMore
  <2>3. ASSUME NEW q \in Peers PROVE StackFine(stack'[q], Len(wire'[Other(q)]))
    <3>1. Other(Other(p)) = p
      BY Peering
    <3> QED
      BY <1>0, <2>1, <2>2, <3>1
  <2> QED
    BY <2>3 DEF StacksFine
<1>5. ASSUME NEW q \in Peers, NEW id \in Ids PROVE Quiet(q, id)
  <2>1. /\ Owed(stack'[q], id) \subseteq Owed(stack[q], id)
        /\ Knows(q, id)' /\ connected'[q] => Owed(stack'[q], id) = Owed(stack[q], id)
    BY <1>0, <1>1 DEF Silent
  <2>2. m_nextStreamId[q] <= m_nextStreamId'[q]
    <3>1. m_nextStreamId'[q] = m_nextStreamId[q] /\ m_nextStreamId[q] \in Nat
      BY <1>0 DEF Start, Silent
    <3> QED
      BY <3>1
  <2>3. /\ Knows(q, id)' => Knows(q, id) /\ streams'[q][id] = streams[q][id]
        /\ connected'[q] => connected[q]
        /\ accepted'[q][id] = accepted[q][id] /\ delivered'[q][id] = delivered[q][id]
    BY DEF Silent
  <2>4. Pick(wire'[q], OfId(id)) = Pick(wire[q], OfId(id))
    BY DEF SilentWire
  <2> QED
    BY <2>1, <2>2, <2>3, <2>4 DEF Quiet
<1> QED
  BY <1>2, <1>3, <1>4, <1>5, QuietKeeps

(* Nothing is sent, or only a GoAway; or a GoAway is handled.              *)
LEMMA SilentlyStays ==
    ASSUME NEW p \in Peers, Start(p), wire' = wire
    PROVE  SilentWire(p)
<1>1. Len(wire[p]) \in Nat /\ Len(wire[p]) <= Len(wire[p]) /\ wire \in [Peers -> Seq(GoodFrames)]
  BY DEF Start
<1> QED
  BY <1>1 DEF SilentWire

LEMMA GoAwayFrame ==
    GoAway \in GoodFrames /\ \A id \in Ids : GoAway \notin OfId(id)
<1>1. GoAway \in GoodFrames /\ GoAway.id = 0
  BY DEF GoAway, Frame, Frames, GoodFrames
<1>2. \A id \in Ids : id # 0
  BY TunnelAssumption
<1> QED
  BY <1>1, <1>2 DEF OfId

LEMMA SilentlySends ==
    ASSUME NEW p \in Peers, Start(p), SendFrames(p, <<GoAway>>)
    PROVE  SilentWire(p) /\ wire'[Other(p)] = wire[Other(p)]
<1>1. PICK fs \in Seq(GoodFrames) : fs = <<GoAway>>
  <2>1. <<GoAway>> \in Seq(GoodFrames)
    BY GoAwayFrame
  <2> QED
    BY <2>1, Zenon
<1>2. WireMoved(p, fs, wire[Other(p)])
  BY <1>1, WireSends DEF Start
<1>3. PICK v \in Seq(GoodFrames) : v = wire[p]
  BY DEF Start
<1>4. ASSUME NEW id \in Ids PROVE Pick(v \o fs, OfId(id)) = Pick(v, OfId(id))
  <2>1. v \in Seq(Frames) /\ fs \in Seq(Frames) /\ GoAway \in Frames
    <3>1. GoodFrames \subseteq Frames
      BY DEF GoodFrames
    <3> QED
      BY <1>1, <1>3, <3>1, GoAwayFrame
  <2>2. Pick(v \o fs, OfId(id)) = Pick(v, OfId(id)) \o Pick(fs, OfId(id))
    BY <2>1, PickJoin, Zenon
  <2>3. Pick(fs, OfId(id)) = << >>
    BY <1>1, <2>1, PickOne, GoAwayFrame
  <2>4. PICK a \in Seq(Frames) : a = Pick(v, OfId(id))
    BY <2>1, PickIsSeq
  <2>5. a \o << >> = a
    BY <2>4
  <2> QED
    BY <2>2, <2>3, <2>4, <2>5
<1>5. \A q \in Peers, id \in Ids : Pick(wire'[q], OfId(id)) = Pick(wire[q], OfId(id))
  <2>1. \A q \in Peers : q = p \/ q = Other(p)
    BY Peering
  <2> QED
    BY <1>1, <1>2, <1>3, <1>4, <2>1 DEF WireMoved
<1> QED
  BY <1>2, <1>5 DEF SilentWire, WireMoved

LEMMA SilentlyAnswers ==
    ASSUME NEW p \in Peers, NEW left, Start(p), Parsed(p, left), NextFrame(p).type = "GoAway",
           Answer(p, << >>)
    PROVE  SilentWire(p) /\ Len(wire'[Other(p)]) = Len(wire[Other(p)]) - 1
<1>1. PICK fs \in Seq(GoodFrames) : fs = << >>
  <2>1. << >> \in Seq(GoodFrames)
    OBVIOUS
  <2> QED
    BY <2>1, Zenon
<1>2. WireMoved(p, fs, Tail(wire[Other(p)]))
  BY <1>1, WireAnswers DEF Start, Parsed
<1>3. PICK v \in Seq(GoodFrames) : v = wire[p] /\ v \o << >> = v
  BY DEF Start
<1>4. wire'[p] = wire[p] /\ wire'[Other(p)] = Tail(wire[Other(p)])
  BY <1>1, <1>2, <1>3 DEF WireMoved
<1>5. PICK w \in Seq(GoodFrames) : w = wire[Other(p)] /\ w # << >>
  BY DEF Parsed
<1>6. Head(w).id = 0
  BY <1>5 DEF Parsed, NextFrame, GoodFrames
<1>7. ASSUME NEW id \in Ids PROVE Pick(w, OfId(id)) = Pick(Tail(w), OfId(id))
  <2>1. id # 0
    BY TunnelAssumption
  <2>2. Pick(w, OfId(id)) = IF Head(w).id = id THEN <<Head(w)>> \o Pick(Tail(w), OfId(id))
                                               ELSE Pick(Tail(w), OfId(id))
    BY <1>5, PickedFirst
  <2> QED
    BY <1>6, <2>1, <2>2
<1>8. \A q \in Peers, id \in Ids : Pick(wire'[q], OfId(id)) = Pick(wire[q], OfId(id))
  <2>1. \A q \in Peers : q = p \/ q = Other(p)
    BY Peering
  <2> QED
    BY <1>4, <1>5, <1>7, <2>1
<1> QED
  BY <1>2, <1>4, <1>8 DEF SilentWire, WireMoved, Parsed

(* The calls that owe nothing return, or are followed by others.           *)
Returning(p, calls, st) ==
    /\ stack' = [stack EXCEPT ![p] = st] /\ st \in Seq(Calls)
    /\ StackFine(st, Len(wire[Other(p)])) /\ \A id : Owed(st, id) = Owed(stack[p], id)

LEMMA PlainReturns ==
    ASSUME NEW p \in Peers, NEW calls \in Seq(PlainCalls), Start(p), stack[p] # << >>,
           Head(stack[p]).pc \notin Owing, Head(stack[p]).pc # "parse", Continue(p, calls)
    PROVE  \E st : Returning(p, calls, st)
<1>1. Popped(stack[p], Len(wire[Other(p)]))
  <2>1. /\ Len(wire[Other(p)]) \in Nat /\ stack[p] \in Seq(Calls)
        /\ StackFine(stack[p], Len(wire[Other(p)]))
    BY DEF Start
  <2> QED
    BY <2>1, Pop
<1>2. Head(stack[p]) \in PlainCalls
  BY <1>1, CallKinds DEF Popped
<1>3. PICK t \in Seq(Calls) : /\ t = Tail(stack[p]) /\ StackFine(t, Len(wire[Other(p)]))
                              /\ \A id : Owed(t, id) = Owed(stack[p], id)
  BY <1>1, <1>2 DEF Popped
<1>4. Pushed(t, calls, Len(wire[Other(p)]))
  <2>1. Len(wire[Other(p)]) \in Nat
    BY DEF Start
  <2> QED
    BY <1>3, <2>1, Push
<1>5. stack' = [stack EXCEPT ![p] = calls \o t]
  BY <1>3 DEF Continue
<1>6. Returning(p, calls, calls \o t)
  BY <1>3, <1>4, <1>5 DEF Returning, Pushed
<1> QED
  BY <1>6

LEMMA PlainCalled ==
    ASSUME NEW p \in Peers, NEW calls \in Seq(PlainCalls), Start(p), Call(p, calls)
    PROVE  \E st : Returning(p, calls, st)
<1>1. Pushed(stack[p], calls, Len(wire[Other(p)]))
  <2>1. /\ Len(wire[Other(p)]) \in Nat /\ stack[p] \in Seq(Calls)
        /\ StackFine(stack[p], Len(wire[Other(p)]))
    BY DEF Start
  <2> QED
    BY <2>1, Push
<1>2. stack' = [stack EXCEPT ![p] = calls \o stack[p]]
  BY DEF Call
<1>3. Returning(p, calls, calls \o stack[p])
  BY <1>1, <1>2 DEF Returning, Pushed
<1> QED
  BY <1>3

(* Such a step, if nothing is sent and no stream but perhaps one forgotten.*)
LEMMA ReturningKeeps ==
    ASSUME NEW p \in Peers, NEW calls, NEW st, TunnelInv, Returning(p, calls, st), SilentWire(p),
           wire'[Other(p)] = wire[Other(p)], StreamsTyped',
           \A q \in Peers, id \in Ids : Knows(q, id)' => /\ Knows(q, id)
                                                         /\ streams'[q][id] = streams[q][id],
           connected' \in [Peers -> BOOLEAN], \A q \in Peers : connected'[q] => connected[q],
           UNCHANGED <<m_nextStreamId, accepted, delivered>>
    PROVE  Onwards
<1>1. Silent(p, st)
  BY DEF Silent, Returning
<1> QED
  BY <1>1, SilentKeeps

LEMMA SameStreams ==
    ASSUME NEW p \in Peers, Start(p), streams' = streams
    PROVE  /\ StreamsTyped'
           /\ \A q \in Peers, id \in Ids : Knows(q, id)' => /\ Knows(q, id)
                                                            /\ streams'[q][id] = streams[q][id]
BY DEF Start, StreamsTyped, Knows

LEMMA AppReturnsKeeps ==
    ASSUME NEW p \in Peers, TunnelInv, AppReturns(p)
    PROVE  Onwards
<1>0. Start(p)
  BY Starting
<1>1. PICK none : none = << >> /\ none \in Seq(PlainCalls)
  <2>1. << >> \in Seq(PlainCalls)
    OBVIOUS
  <2> QED
    BY <2>1, Zenon
<1>2. PICK st : Returning(p, none, st)
  <2>1. /\ stack[p] # << >> /\ Head(stack[p]).pc \notin Owing /\ Head(stack[p]).pc # "parse"
        /\ Continue(p, none)
    BY <1>1 DEF AppReturns, Callbacks, Owing
  <2> QED
    BY <1>0, <1>1, <2>1, PlainReturns
<1>3. UNCHANGED <<streams, m_nextStreamId, connected, wire, accepted, delivered>>
  BY DEF AppReturns
<1>4. SilentWire(p) /\ wire'[Other(p)] = wire[Other(p)]
  BY <1>0, <1>3, SilentlyStays
<1>5. connected' \in [Peers -> BOOLEAN] /\ \A q \in Peers : connected'[q] => connected[q]
  BY <1>0, <1>3 DEF Start
<1>6. /\ StreamsTyped'
      /\ \A q \in Peers, id \in Ids : Knows(q, id)' => /\ Knows(q, id)
                                                       /\ streams'[q][id] = streams[q][id]
  BY <1>0, <1>3, SameStreams
<1> QED
  BY <1>2, <1>3, <1>4, <1>5, <1>6, ReturningKeeps

(* shutdown and handleGoAwayFrame: every stream is closed, then the socket.*)
LEMMA EndSessionCalls ==
    ASSUME NEW p \in Peers, Start(p)
    PROVE  EndSession(p) \in Seq(PlainCalls)
<1>1. DOMAIN streams[p] \subseteq Ids
  BY DEF Start, StreamsTyped
<1>2. [pc |-> "closeAll", ids |-> DOMAIN streams[p]] \in PlainCalls
  BY <1>1 DEF PlainCalls, Calls, Callbacks
<1>3. [pc |-> "closeTCP"] \in PlainCalls
  BY DEF PlainCalls, Calls, Callbacks
<1> QED
  BY <1>2, <1>3 DEF EndSession

LEMMA ShutdownKeeps ==
    ASSUME NEW p \in Peers, TunnelInv, Shutdown(p)
    PROVE  Onwards
<1>0. Start(p)
  BY Starting
<1>1. PICK calls \in Seq(PlainCalls) : calls = EndSession(p)
  BY <1>0, EndSessionCalls
<1>2. PICK st : Returning(p, calls, st)
  BY <1>0, <1>1, PlainCalled DEF Shutdown
<1>3. UNCHANGED <<streams, m_nextStreamId, connected, accepted, delivered>>
  BY DEF Shutdown
<1>4. SilentWire(p) /\ wire'[Other(p)] = wire[Other(p)]
  BY <1>0, SilentlySends DEF Shutdown
<1>5. connected' \in [Peers -> BOOLEAN] /\ \A q \in Peers : connected'[q] => connected[q]
  BY <1>0, <1>3 DEF Start
<1>6. /\ StreamsTyped'
      /\ \A q \in Peers, id \in Ids : Knows(q, id)' => /\ Knows(q, id)
                                                       /\ streams'[q][id] = streams[q][id]
  BY <1>0, <1>3, SameStreams
<1> QED
  BY <1>2, <1>3, <1>4, <1>5, <1>6, ReturningKeeps

(* A stream is forgotten.                                                  *)
LEMMA Forgets ==
    ASSUME NEW p \in Peers, NEW id, Start(p),
           streams' = [streams EXCEPT ![p] = Without(@, id)]
    PROVE  /\ StreamsTyped'
           /\ \A q \in Peers, i \in Ids : Knows(q, i)' => /\ Knows(q, i)
                                                          /\ streams'[q][i] = streams[q][i]
<1>1. DOMAIN streams' = Peers /\ streams'[p] = Without(streams[p], id)
      /\ \A q \in Peers : q # p => streams'[q] = streams[q]
  BY DEF Start, StreamsTyped
<1>2. /\ DOMAIN streams'[p] = DOMAIN streams[p] \ {id}
      /\ \A i \in DOMAIN streams[p] \ {id} : streams'[p][i] = streams[p][i]
  BY <1>1 DEF Without
<1>3. ASSUME NEW q \in Peers, NEW i \in DOMAIN streams'[q]
      PROVE  i \in DOMAIN streams[q] /\ streams'[q][i] = streams[q][i]
  <2>1. CASE q = p
    BY <1>2, <1>3, <2>1
  <2>2. CASE q # p
    BY <1>1, <1>3, <2>2
  <2> QED
    BY <2>1, <2>2
<1>4. StreamsTyped'
  <2>1. ASSUME NEW q \in Peers
        PROVE  /\ DOMAIN streams'[q] \subseteq Ids
               /\ \A i \in DOMAIN streams'[q] : streams'[q][i] \in Stream
    BY <1>3 DEF Start, StreamsTyped
  <2> QED
    BY <1>1, <2>1 DEF StreamsTyped
<1>5. ASSUME NEW q \in Peers, NEW i \in Ids, Knows(q, i)'
      PROVE  Knows(q, i) /\ streams'[q][i] = streams[q][i]
  BY <1>3, <1>5 DEF Knows
<1> QED
  BY <1>4, <1>5

LEMMA EraseKeeps ==
    ASSUME NEW p \in Peers, TunnelInv, Erase(p)
    PROVE  Onwards
<1>0. Start(p)
  BY Starting
<1>1. PICK none : none = << >> /\ none \in Seq(PlainCalls)
  <2>1. << >> \in Seq(PlainCalls)
    OBVIOUS
  <2> QED
    BY <2>1, Zenon
<1>2. PICK st : Returning(p, none, st)
  <2>1. /\ stack[p] # << >> /\ Head(stack[p]).pc \notin Owing /\ Head(stack[p]).pc # "parse"
        /\ Continue(p, none)
    BY <1>1 DEF Erase, Running, Owing
  <2> QED
    BY <1>0, <1>1, <2>1, PlainReturns
<1>3. /\ streams' = [streams EXCEPT ![p] = Without(@, Head(stack[p]).id)]
      /\ UNCHANGED <<m_nextStreamId, connected, wire, accepted, delivered>>
  BY DEF Erase
<1>4. SilentWire(p) /\ wire'[Other(p)] = wire[Other(p)]
  BY <1>0, <1>3, SilentlyStays
<1>5. connected' \in [Peers -> BOOLEAN] /\ \A q \in Peers : connected'[q] => connected[q]
  BY <1>0, <1>3 DEF Start
<1>6. /\ StreamsTyped'
      /\ \A q \in Peers, id \in Ids : Knows(q, id)' => /\ Knows(q, id)
                                                       /\ streams'[q][id] = streams[q][id]
  BY <1>0, <1>3, Forgets
<1> QED
  BY <1>2, <1>3, <1>4, <1>5, <1>6, ReturningKeeps

(* The socket is closed, or the process dies.                              *)
LEMMA Disconnects ==
    ASSUME NEW p \in Peers, Start(p), connected' = [connected EXCEPT ![p] = FALSE]
    PROVE  /\ connected' \in [Peers -> BOOLEAN] /\ ~connected'[p]
           /\ \A q \in Peers : connected'[q] => connected[q]
BY DEF Start

LEMMA EraseAgainKeeps ==
    ASSUME NEW p \in Peers, TunnelInv, EraseAgain(p)
    PROVE  Onwards
<1>0. Start(p)
  BY Starting
<1>1. PICK none : none = << >> /\ none \in Seq(PlainCalls) /\ none \in Seq(Calls) /\ Len(none) = 0
  <2>1. << >> \in Seq(PlainCalls) /\ << >> \in Seq(Calls) /\ Len(<< >>) = 0
    OBVIOUS
  <2> QED
    BY <2>1, Zenon
<1>3. UNCHANGED <<streams, m_nextStreamId, wire, accepted, delivered>>
  BY DEF EraseAgain
<1>4. SilentWire(p) /\ wire'[Other(p)] = wire[Other(p)]
  BY <1>0, <1>3, SilentlyStays
<1>6. /\ StreamsTyped'
      /\ \A q \in Peers, id \in Ids : Knows(q, id)' => /\ Knows(q, id)
                                                       /\ streams'[q][id] = streams[q][id]
  BY <1>0, <1>3, SameStreams
<1>7. CASE Continue(p, << >>) /\ UNCHANGED connected
  <2>1. /\ stack[p] # << >> /\ Head(stack[p]).pc \notin Owing /\ Head(stack[p]).pc # "parse"
        /\ Continue(p, none)
    BY <1>1, <1>7 DEF EraseAgain, Running, Owing
  <2>2. PICK st : Returning(p, none, st)
    BY <1>0, <1>1, <2>1, PlainReturns
  <2>3. connected' \in [Peers -> BOOLEAN] /\ \A q \in Peers : connected'[q] => connected[q]
    BY <1>0, <1>7 DEF Start
  <2> QED
    BY <1>3, <1>4, <1>6, <2>2, <2>3, ReturningKeeps
<1>8. CASE /\ stack' = [stack EXCEPT ![p] = << >>]
           /\ connected' = [connected EXCEPT ![p] = FALSE]
  <2>1. /\ connected' \in [Peers -> BOOLEAN] /\ ~connected'[p]
        /\ \A q \in Peers : connected'[q] => connected[q]
    BY <1>0, <1>8, Disconnects
  <2>2. StackFine(none, Len(wire'[Other(p)]))
    BY <1>1 DEF StackFine
  <2>3. \A id : Owed(none, id) = {}
    BY <1>1, OwedFew
  <2>4. Silent(p, none)
    BY <1>1, <1>3, <1>6, <1>8, <2>1, <2>2, <2>3 DEF Silent
  <2> QED
    BY <1>4, <2>4, SilentKeeps
<1> QED
  BY <1>7, <1>8 DEF EraseAgain

LEMMA CloseTCPKeeps ==
    ASSUME NEW p \in Peers, TunnelInv, CloseTCP(p)
    PROVE  Onwards
<1>0. Start(p)
  BY Starting
<1>1. PICK none : none = << >> /\ none \in Seq(PlainCalls)
  <2>1. << >> \in Seq(PlainCalls)
    OBVIOUS
  <2> QED
    BY <2>1, Zenon
<1>2. PICK st : Returning(p, none, st)
  <2>1. /\ stack[p] # << >> /\ Head(stack[p]).pc \notin Owing /\ Head(stack[p]).pc # "parse"
        /\ Continue(p, none)
    BY <1>1 DEF CloseTCP, Running, Owing
  <2> QED
    BY <1>0, <1>1, <2>1, PlainReturns
<1>3. /\ UNCHANGED <<streams, m_nextStreamId, wire, accepted, delivered>>
      /\ connected' = [connected EXCEPT ![p] = FALSE]
  BY DEF CloseTCP
<1>4. SilentWire(p) /\ wire'[Other(p)] = wire[Other(p)]
  BY <1>0, <1>3, SilentlyStays
<1>5. connected' \in [Peers -> BOOLEAN] /\ \A q \in Peers : connected'[q] => connected[q]
  BY <1>0, <1>3, Disconnects
<1>6. /\ StreamsTyped'
      /\ \A q \in Peers, id \in Ids : Knows(q, id)' => /\ Knows(q, id)
                                                       /\ streams'[q][id] = streams[q][id]
  BY <1>0, <1>3, SameStreams
<1> QED
  BY <1>2, <1>3, <1>4, <1>5, <1>6, ReturningKeeps

LEMMA ConnectionEndsKeeps ==
    ASSUME NEW p \in Peers, TunnelInv, ConnectionEnds(p)
    PROVE  Onwards
<1>0. Start(p)
  BY Starting
<1>1. /\ UNCHANGED <<streams, m_nextStreamId, wire, stack, accepted, delivered>>
      /\ connected' = [connected EXCEPT ![p] = FALSE]
  BY DEF ConnectionEnds
<1>2. SilentWire(p) /\ wire'[Other(p)] = wire[Other(p)]
  BY <1>0, <1>1, SilentlyStays
<1>3. connected' \in [Peers -> BOOLEAN] /\ \A q \in Peers : connected'[q] => connected[q]
  BY <1>0, <1>1, Disconnects
<1>4. /\ StreamsTyped'
      /\ \A q \in Peers, id \in Ids : Knows(q, id)' => /\ Knows(q, id)
                                                       /\ streams'[q][id] = streams[q][id]
  BY <1>0, <1>1, SameStreams
<1>5. Silent(p, stack[p])
  BY <1>0, <1>1, <1>2, <1>3, <1>4 DEF Silent, Start
<1> QED
  BY <1>2, <1>5, SilentKeeps

(* The loop of shutdown over the streams.                                  *)
LEMMA CloseAllKeeps ==
    ASSUME NEW p \in Peers, TunnelInv, CloseAll(p)
    PROVE  Onwards
<1>0. Start(p)
  BY Starting
<1>1. PICK ids : ids = Head(stack[p]).ids /\ ids \subseteq Ids
  <2>1. Head(stack[p]).pc = "closeAll" /\ stack[p] # << >>
    BY DEF CloseAll, Running
  <2>2. Popped(stack[p], Len(wire[Other(p)]))
    BY <1>0, <2>1, Pop DEF Start
  <2>3. Head(stack[p]) \in Calls
    BY <2>2 DEF Popped
  <2> QED
    BY <2>1, <2>3, CallKinds
<1>2. PICK calls : calls \in Seq(PlainCalls) /\ Continue(p, calls)
  <2>1. CASE ids = {} /\ Continue(p, << >>)
    <3>1. << >> \in Seq(PlainCalls)
      OBVIOUS
    <3> QED
      BY <2>1, <3>1, Zenon
  <2>2. ASSUME NEW id \in ids,
               Continue(p, (IF Knows(p, id) THEN <<[pc |-> "onClose", id |-> id],
                                                   [pc |-> "erase", id |-> id]>>
                                            ELSE << >>)
                           \o <<[pc |-> "closeAll", ids |-> ids \ {id}]>>)
        PROVE  \E calls : calls \in Seq(PlainCalls) /\ Continue(p, calls)
    <3>1. /\ [pc |-> "onClose", id |-> id] \in PlainCalls /\ [pc |-> "erase", id |-> id] \in PlainCalls
          /\ [pc |-> "closeAll", ids |-> ids \ {id}] \in PlainCalls
      BY <1>1 DEF PlainCalls, Calls, Callbacks
    <3>2. PICK x \in Seq(PlainCalls) : x = IF Knows(p, id) THEN <<[pc |-> "onClose", id |-> id],
                                                                   [pc |-> "erase", id |-> id]>>
                                                            ELSE << >>
      <4>1. (IF Knows(p, id) THEN <<[pc |-> "onClose", id |-> id], [pc |-> "erase", id |-> id]>>
                             ELSE << >>) \in Seq(PlainCalls)
        BY <3>1
      <4> QED
        BY <4>1, Zenon
    <3>3. PICK y \in Seq(PlainCalls) : y = <<[pc |-> "closeAll", ids |-> ids \ {id}]>>
      <4>1. <<[pc |-> "closeAll", ids |-> ids \ {id}]>> \in Seq(PlainCalls)
        BY <3>1
      <4> QED
        BY <4>1, Zenon
    <3>4. x \o y \in Seq(PlainCalls)
      BY <3>2, <3>3
    <3>5. Continue(p, x \o y)
      BY <2>2, <3>2, <3>3
    <3> QED
      BY <3>4, <3>5
  <2> QED
    BY <1>1, <2>1, <2>2 DEF CloseAll
<1>3. PICK st : Returning(p, calls, st)
  <2>1. /\ stack[p] # << >> /\ Head(stack[p]).pc \notin Owing /\ Head(stack[p]).pc # "parse"
    BY DEF CloseAll, Running, Owing
  <2> QED
    BY <1>0, <1>2, <2>1, PlainReturns
<1>4. UNCHANGED <<streams, m_nextStreamId, connected, wire, accepted, delivered>>
  BY DEF CloseAll
<1>5. SilentWire(p) /\ wire'[Other(p)] = wire[Other(p)]
  BY <1>0, <1>4, SilentlyStays
<1>6. connected' \in [Peers -> BOOLEAN] /\ \A q \in Peers : connected'[q] => connected[q]
  BY <1>0, <1>4 DEF Start
<1>7. /\ StreamsTyped'
      /\ \A q \in Peers, id \in Ids : Knows(q, id)' => /\ Knows(q, id)
                                                       /\ streams'[q][id] = streams[q][id]
  BY <1>0, <1>4, SameStreams
<1> QED
  BY <1>3, <1>4, <1>5, <1>6, <1>7, ReturningKeeps

LEMMA ReceiveKeeps ==
    ASSUME NEW p \in Peers, TunnelInv, Receive(p)
    PROVE  Onwards
<1>0. Start(p)
  BY Starting
<1>1. /\ UNCHANGED <<streams, m_nextStreamId, connected, wire, accepted, delivered>>
      /\ stack[p] = << >>
  BY DEF Receive
<1>2. PICK n \in 1 .. Len(wire[Other(p)]) : Call(p, <<[pc |-> "parse", left |-> n]>>)
  BY DEF Receive
<1>3. PICK st \in Seq(Calls) : /\ st = <<[pc |-> "parse", left |-> n]>>
                               /\ StackFine(st, Len(wire[Other(p)])) /\ \A id : Owed(st, id) = {}
  BY <1>0, <1>2, ParsingIsFine DEF Start
<1>4. st \o << >> = st
  BY <1>3
<1>5. stack' = [stack EXCEPT ![p] = st]
  BY <1>1, <1>2, <1>3, <1>4 DEF Call
<1>6. SilentWire(p) /\ wire'[Other(p)] = wire[Other(p)]
  BY <1>0, <1>1, SilentlyStays
<1>7. /\ StreamsTyped'
      /\ \A q \in Peers, id \in Ids : Knows(q, id)' => /\ Knows(q, id)
                                                       /\ streams'[q][id] = streams[q][id]
  BY <1>0, <1>1, SameStreams
<1>8. \A id : Owed(stack[p], id) = {}
  BY <1>1, OwedFew
<1>9. Silent(p, st)
  BY <1>0, <1>1, <1>3, <1>5, <1>6, <1>7, <1>8 DEF Silent, Start
<1> QED
  BY <1>6, <1>9, SilentKeeps

LEMMA HandleGoAwayKeeps ==
    ASSUME NEW p \in Peers, TunnelInv, HandleGoAway(p)
    PROVE  Onwards
<1>0. Start(p)
  BY Starting
<1>1. PICK left : Parsed(p, left)
  BY <1>0, Parsing DEF HandleGoAway
<1>2. /\ NextFrame(p).type = "GoAway" /\ Answer(p, << >>) /\ Handled(p, EndSession(p))
      /\ UNCHANGED <<streams, m_nextStreamId, connected, accepted, delivered>>
  BY DEF HandleGoAway
<1>3. PICK calls \in Seq(PlainCalls) : calls = EndSession(p)
  BY <1>0, EndSessionCalls
<1>4. PICK st \in Seq(Calls) : /\ stack' = [stack EXCEPT ![p] = st]
                               /\ StackFine(st, Len(wire[Other(p)]) - 1)
                               /\ \A i : Owed(st, i) = {}
  BY <1>1, <1>2, <1>3, PlainStack
<1>5. SilentWire(p) /\ Len(wire'[Other(p)]) = Len(wire[Other(p)]) - 1
  BY <1>0, <1>1, <1>2, SilentlyAnswers
<1>6. /\ StreamsTyped'
      /\ \A q \in Peers, id \in Ids : Knows(q, id)' => /\ Knows(q, id)
                                                       /\ streams'[q][id] = streams[q][id]
  BY <1>0, <1>2, SameStreams
<1>7. \A id : Owed(stack[p], id) = {}
  BY <1>1 DEF Parsed
<1>8. Silent(p, st)
  BY <1>0, <1>2, <1>4, <1>5, <1>6, <1>7 DEF Silent, Start
<1> QED
  BY <1>5, <1>8, SilentKeeps

LEMMA TryUnknownKeeps ==
    ASSUME NEW p \in Peers, TunnelInv, TrySendWindowUpdate(p), ~Knows(p, Head(stack[p]).id)
    PROVE  Onwards
<1>0. Start(p)
  BY Starting
<1>1. PICK c, id, st : Settles(p, c, id, st) /\ c = Head(stack[p])
  <2>1. Running(p, "consumed") /\ Continue(p, << >>)
    BY DEF TrySendWindowUpdate
  <2> QED
    BY <1>0, <2>1, Settling DEF Running, Owing, Settles
<1>2. UNCHANGED <<streams, wire, m_nextStreamId, connected, accepted, delivered>> /\ ~Knows(p, id)
  BY <1>1 DEF TrySendWindowUpdate, Settles
<1>3. SilentWire(p) /\ wire'[Other(p)] = wire[Other(p)]
  BY <1>0, <1>2, SilentlyStays
<1>4. /\ StreamsTyped'
      /\ \A q \in Peers, i \in Ids : Knows(q, i)' => /\ Knows(q, i)
                                                     /\ streams'[q][i] = streams[q][i]
  BY <1>0, <1>2, SameStreams
<1>5. ASSUME NEW i \in Ids
      PROVE  /\ Owed(st, i) \subseteq Owed(stack[p], i)
             /\ Knows(p, i)' /\ connected'[p] => Owed(st, i) = Owed(stack[p], i)
  BY <1>1, <1>2, <1>4 DEF Settles
<1>6. Silent(p, st)
  BY <1>0, <1>1, <1>2, <1>3, <1>4, <1>5 DEF Silent, Start, Settles
<1> QED
  BY <1>3, <1>6, SilentKeeps

-----------------------------------------------------------------------------
(* The invariant holds at first, and every step keeps it.                  *)
LEMMA TunnelInit == Init => TunnelInv
<1> SUFFICES ASSUME Init PROVE TunnelInv
  OBVIOUS
<1>1. /\ DOMAIN streams = Peers /\ \A p \in Peers : streams[p] = << >> /\ wire[p] = << >>
      /\ \A p \in Peers : stack[p] = << >> /\ connected[p]
      /\ \A p \in Peers : m_nextStreamId[p] = IF p = "client" THEN 1 ELSE 2
      /\ \A p \in Peers, id \in Ids : accepted[p][id] = 0 /\ delivered[p][id] = 0
  BY DEF Init
<1>2. DOMAIN << >> = {}
  OBVIOUS
<1>3. \A p \in Peers : \A id : ~Knows(p, id)
  BY <1>1, <1>2 DEF Knows
<1>4. Typed
  <2>1. StreamsTyped
    BY <1>1, <1>2 DEF StreamsTyped
  <2>2. << >> \in Seq(GoodFrames) /\ << >> \in Seq(Calls)
    OBVIOUS
  <2>3. wire \in [Peers -> Seq(GoodFrames)] /\ stack \in [Peers -> Seq(Calls)]
    BY <2>2 DEF Init
  <2>4. m_nextStreamId \in [Peers -> Nat] /\ connected \in [Peers -> BOOLEAN]
    BY DEF Init
  <2>5. /\ accepted \in [Peers -> [Ids -> 0 .. MaxAccepted]]
        /\ delivered \in [Peers -> [Ids -> 0 .. MaxAccepted]]
    BY TunnelAssumption DEF Init
  <2> QED
    BY <2>1, <2>3, <2>4, <2>5, TypedParts
<1>5. Parity
  <2>1. Owner(1) = "client" /\ Owner(2) = "server"
    BY DEF Owner
  <2>2. \A p \in Peers : p = "client" \/ p = "server"
    BY DEF Peers
  <2>3. "client" # "server"
    OBVIOUS
  <2> QED
    BY <1>1, <2>1, <2>2, <2>3 DEF Parity
<1>6. StacksFine
  <2>1. Len(<< >>) = 0
    OBVIOUS
  <2> QED
    BY <1>1, <2>1 DEF StacksFine, StackFine
<1>7. ASSUME NEW p \in Peers, NEW id \in Ids
      PROVE  /\ Blank(End(p, id)) /\ EmptyLine(id, End(p, id)) /\ End(p, id).s = NewStream
  <2>1. PICK e : e = End(p, id)
    OBVIOUS
  <2>2. Pick(<< >>, OfId(id)) = << >> /\ Owed(<< >>, id) = {}
    BY PickAppend, OwedFew, Zenon
  <2>3. /\ e.line = << >> /\ e.owed = {} /\ ~e.known /\ e.s = NewStream
        /\ e.accepted = 0 /\ e.delivered = 0
    BY <1>1, <1>3, <2>1, <2>2, EndIs
  <2>4. EmptyLine(id, e)
    BY <2>3, LineEmpty
  <2> QED
    BY <2>1, <2>3, <2>4 DEF Blank
<1>8. ASSUME NEW p \in Peers, NEW id \in Ids
      PROVE  Sound(p, id, End(p, id), End(Other(p), id))
  <2>1. PICK e : e = End(p, id)
    OBVIOUS
  <2>2. PICK g : g = End(Other(p), id)
    OBVIOUS
  <2>3. /\ Blank(e) /\ Blank(g) /\ EmptyLine(id, e) /\ e.s = NewStream /\ g.s = NewStream
    BY <1>7, <2>1, <2>2, Peering
  <2>4. ~e.known /\ ~g.known /\ ~Opens(id, e) /\ ~Ended(e) /\ ~NewStream.remoteClosed
    BY <2>3, NewStreamFields DEF Blank, EmptyLine
  <2>5. Sound(p, id, e, g)
    BY <2>3, <2>4 DEF Sound, Unopened, AtSyn, Closes, Carried, Covered, Accounted, Awaited
  <2> QED
    BY <2>1, <2>2, <2>5
<1> QED
  BY <1>4, <1>5, <1>6, <1>8 DEF TunnelInv, Streams

LEMMA TunnelStutters == TunnelInv /\ UNCHANGED vars => Onwards
<1> SUFFICES ASSUME TunnelInv, UNCHANGED vars PROVE Onwards
  OBVIOUS
<1>1. PICK p \in Peers : Start(p)
  BY Starting DEF Peers
<1>2. UNCHANGED <<streams, m_nextStreamId, connected, wire, stack, accepted, delivered>>
  BY DEF vars
<1>3. SilentWire(p) /\ wire'[Other(p)] = wire[Other(p)]
  BY <1>1, <1>2, SilentlyStays
<1>4. /\ StreamsTyped'
      /\ \A q \in Peers, id \in Ids : Knows(q, id)' => /\ Knows(q, id)
                                                       /\ streams'[q][id] = streams[q][id]
  BY <1>1, <1>2, SameStreams
<1>5. Silent(p, stack[p])
  BY <1>1, <1>2, <1>3, <1>4 DEF Silent, Start
<1> QED
  BY <1>3, <1>5, SilentKeeps

LEMMA TunnelStep == TunnelInv /\ [Next]_vars => Onwards
<1> SUFFICES ASSUME TunnelInv, [Next]_vars PROVE Onwards
  OBVIOUS
<1>1. ASSUME NEW p \in Peers, HandlerStep(p) PROVE Onwards
  <2>1. CASE TrySendWindowUpdate(p)
    BY <2>1, TryKeeps, TryUnknownKeeps
  <2>2. CASE Receive(p) \/ HandleIgnored(p) \/ HandleSyn(p) \/ SendAck(p)
    BY <2>2, ReceiveKeeps, HandleIgnoredKeeps, HandleSynKeeps, SendAckKeeps
  <2>3. CASE HandleData(p) \/ HandleFin(p) \/ HandleUpdate(p) \/ HandleGoAway(p)
    BY <2>3, HandleDataKeeps, HandleFinKeeps, HandleUpdateKeeps, HandleGoAwayKeeps
  <2>4. CASE Erase(p) \/ EraseAgain(p) \/ CloseAll(p) \/ CloseTCP(p)
    BY <2>4, EraseKeeps, EraseAgainKeeps, CloseAllKeeps, CloseTCPKeeps
  <2> QED
    BY <1>1, <2>1, <2>2, <2>3, <2>4 DEF HandlerStep
<1>2. ASSUME NEW p \in Peers, Application(p) PROVE Onwards
  <2>1. CASE OpenStream(p) \/ Shutdown(p)
    BY <2>1, OpenStreamKeeps, ShutdownKeeps
  <2>2. ASSUME NEW id \in Ids, NEW n \in SendSizes, SendToStream(p, id, n) PROVE Onwards
    BY <2>2, SendToStreamKeeps
  <2>3. ASSUME NEW id \in Ids, NEW rst \in BOOLEAN, CloseStream(p, id, rst) PROVE Onwards
    BY <2>3, CloseStreamKeeps
  <2> QED
    BY <1>2, <2>1, <2>2, <2>3 DEF Application
<1>3. ASSUME NEW p \in Peers, AppReturns(p) \/ ConnectionEnds(p) PROVE Onwards
  BY <1>3, AppReturnsKeeps, ConnectionEndsKeeps
<1> QED
  BY <1>1, <1>2, <1>3, TunnelStutters DEF Next

(* The two ends stay as the invariant says: what is on the wire, what is   *)
(* owed and what both ends have noted of a stream fit each other, for any  *)
(* windows, thresholds, stream ids and lengths.                            *)
THEOREM TunnelInvariant == Spec => []TunnelInv
<1>1. TunnelInv /\ [Next]_vars => TunnelInv'
  BY TunnelStep DEF Onwards
<1> QED
  BY <1>1, TunnelInit, PTL DEF Spec

(* The types of the variables (TypeOK).                                    *)
THEOREM TunnelTypes == Spec => []TypeOK
<1>1. TunnelInv => TypeOK
  BY DEF TunnelInv, Typed
<1> QED
  BY <1>1, TunnelInvariant, PTL

-----------------------------------------------------------------------------
(* What the invariant says of a direction that carries data.               *)
LEMMA WireLine ==
    ASSUME NEW p \in Peers, NEW id \in Ids, NEW type, wire \in [Peers -> Seq(GoodFrames)]
    PROVE  OnWire(p, id, type) = Pick(End(p, id).line, OfType(id, type))
<1>1. PICK w \in Seq(Frames) : w = wire[p]
  <2>1. GoodFrames \subseteq Frames
    BY DEF GoodFrames
  <2> QED
    BY <2>1
<1>2. OfId(id) \cap OfType(id, type) = OfType(id, type)
  BY DEF OfId, OfType
<1>3. Pick(Pick(w, OfId(id)), OfType(id, type)) = Pick(w, OfId(id) \cap OfType(id, type))
  BY <1>1, PickPick, Zenon
<1>4. End(p, id).line = Pick(wire[p], OfId(id))
  BY EndIs
<1> QED
  BY <1>1, <1>2, <1>3, <1>4 DEF OnWire

Carrying(p, id, e, g) ==
    /\ e = End(p, id) /\ g = End(Other(p), id) /\ Pair(p, id, e, g)
    /\ e.known /\ e.up /\ g.up /\ ~e.s.localClosed /\ ~Ended(e) /\ Awaited(id, e, g)
    /\ e.s = streams[p][id] /\ e.accepted = accepted[p][id]
    /\ g.delivered = delivered[Other(p)][id]
    /\ g.known => ~g.s.remoteClosed
    /\ g.s.recvWindow = RecvWindow(Other(p), id) /\ (~g.known => g.s.recvWindow = InitialWindow)
    /\ OnWire(p, id, "Data") = DataOf(id, e)
    /\ OnWire(Other(p), id, "WindowUpdate") = CreditOf(id, g)

(* A flow that runs, in the terms of its ends.                             *)
LEMMA FlowingRuns ==
    ASSUME NEW p \in Peers, NEW id \in Ids, Typed
    PROVE  Flowing(p, id) <=> Runs(id, End(p, id), End(Other(p), id))
<1>0. Other(p) \in Peers /\ wire \in [Peers -> Seq(GoodFrames)]
  BY Peering DEF Typed
<1>1. PICK e : e = End(p, id)
  OBVIOUS
<1>2. PICK g : g = End(Other(p), id)
  OBVIOUS
<1>3. /\ e.known = Knows(p, id) /\ e.up = connected[p] /\ (Knows(p, id) => e.s = streams[p][id])
      /\ e.line = Pick(wire[p], OfId(id))
      /\ g.known = Knows(Other(p), id) /\ g.up = connected[Other(p)]
  BY <1>0, <1>1, <1>2, EndIs
<1>4. Opens(id, e) <=> Opening(p, id)
  <2>1. PICK w \in Seq(Frames) : w = wire[p]
    <3>1. GoodFrames \subseteq Frames
      BY DEF GoodFrames
    <3> QED
      BY <1>0, <3>1
  <2>2. Syn(id) \in OfId(id)
    BY SentFrames DEF StreamFrames
  <2>3. Elems(Pick(w, OfId(id))) = Elems(w) \cap OfId(id)
    BY <2>1, ElemsPick, Zenon
  <2>4. Syn(id) \in Elems(w) <=> Opening(p, id)
    BY <2>1 DEF Opening, Elems
  <2> QED
    BY <1>3, <2>1, <2>2, <2>3, <2>4 DEF Opens
<1> QED
  BY <1>1, <1>2, <1>3, <1>4 DEF Flowing, Runs

LEMMA FlowingEnds ==
    ASSUME NEW p \in Peers, NEW id \in Ids, TunnelInv, Flowing(p, id)
    PROVE  Carrying(p, id, End(p, id), End(Other(p), id))
<1>0. Start(p) /\ Other(p) \in Peers
  BY Starting, Peering
<1>1. PICK e : e = End(p, id)
  OBVIOUS
<1>2. PICK g : g = End(Other(p), id)
  OBVIOUS
<1>3. Pair(p, id, e, g)
  BY <1>1, <1>2, PairNow DEF TunnelInv
<1>4. /\ e.known /\ e.up /\ e.s = streams[p][id] /\ ~e.s.localClosed /\ e.accepted = accepted[p][id]
      /\ e.line = Pick(wire[p], OfId(id))
  BY <1>1, EndIs DEF Flowing
<1>5. /\ g.known = Knows(Other(p), id) /\ g.up /\ g.delivered = delivered[Other(p)][id]
      /\ Knows(Other(p), id) => g.s = streams[Other(p)][id]
      /\ ~Knows(Other(p), id) => g.s = NewStream
  BY <1>0, <1>2, EndIs DEF Flowing
<1>6. ~Ended(e) /\ (g.known => ~g.s.remoteClosed)
  <2>1. Closes(id, e, g)
    BY <1>3 DEF Pair, Sound
  <2>2. g.s.remoteClosed \in BOOLEAN
    BY <1>3, StreamFields DEF Pair, EndOK
  <2> QED
    BY <1>4, <2>1, <2>2 DEF Closes
<1>7. Awaited(id, e, g)
  <2>1. g.known \/ Opens(id, e)
    BY <1>1, <1>2, FlowingRuns DEF TunnelInv, Runs
  <2> QED
    BY <1>6, <2>1 DEF Awaited
<1>8. g.s.recvWindow = RecvWindow(Other(p), id) /\ (~g.known => g.s.recvWindow = InitialWindow)
  BY <1>5, NewStreamFields DEF RecvWindow
<1>9. /\ OnWire(p, id, "Data") = DataOf(id, e)
      /\ OnWire(Other(p), id, "WindowUpdate") = CreditOf(id, g)
  BY <1>0, <1>1, <1>2, WireLine DEF Start, DataOf, CreditOf
<1> QED
  BY <1>1, <1>2, <1>3, <1>4, <1>5, <1>6, <1>7, <1>8, <1>9 DEF Carrying

(* Credit is neither lost nor made (CreditConserved): sendToStream,        *)
(* processPending, handleDataFrame and trySendWindowUpdate of both ends    *)
(* keep the sum of window, data and updates under way.                     *)
THEOREM CreditStaysConserved == Spec => []CreditConserved
<1>1. ASSUME TunnelInv, NEW p \in Peers, NEW id \in Ids, Flowing(p, id)
      PROVE  streams[p][id].sendWindow + InFlight(p, id, "Data")
                 + InFlight(Other(p), id, "WindowUpdate") = RecvWindow(Other(p), id)
  <2>1. PICK e, g : e = End(p, id) /\ g = End(Other(p), id)
    OBVIOUS
  <2>2. Carrying(p, id, e, g)
    BY <1>1, <2>1, FlowingEnds
  <2>3. e.s.sendWindow + LengthOf(DataOf(id, e)) + LengthOf(CreditOf(id, g)) = g.s.recvWindow
    BY <2>2 DEF Carrying, Pair, Sound, Covered
  <2> QED
    BY <2>2, <2>3 DEF Carrying, InFlight
<1>2. TunnelInv => CreditConserved
  BY <1>1 DEF CreditConserved
<1> QED
  BY <1>2, TunnelInvariant, PTL

(* Data never waits for credit that nobody will send (CreditOnItsWay):     *)
(* what processPending leaves is waiting for an empty window, and what the *)
(* window misses is under way, or is data or a callback that returns it.   *)
THEOREM CreditIsOnItsWay == Spec => []CreditOnItsWay
<1>1. ASSUME TunnelInv, NEW p \in Peers, NEW id \in Ids, Flowing(p, id),
             streams[p][id].pendingData # << >>
      PROVE  /\ streams[p][id].sendWindow = 0
             /\ \/ InFlight(p, id, "Data") > 0
                \/ InFlight(Other(p), id, "WindowUpdate") > 0
                \/ \E i \in DOMAIN stack[Other(p)] :
                      LET c == stack[Other(p)][i] IN c.pc = "consumed" /\ c.id = id
  <2>1. PICK e, g : e = End(p, id) /\ g = End(Other(p), id)
    OBVIOUS
  <2>2. Carrying(p, id, e, g)
    BY <1>1, <2>1, FlowingEnds
  <2>3. PICK d, c : /\ d = LengthOf(DataOf(id, e)) /\ d \in Nat
                    /\ c = LengthOf(CreditOf(id, g)) /\ c \in Nat
    <3>1. EndOK(id, e) /\ EndOK(id, g)
      BY <2>2 DEF Carrying, Pair
    <3> QED
      BY <3>1, LineLengths DEF EndOK
  <2>4. InFlight(p, id, "Data") = d /\ InFlight(Other(p), id, "WindowUpdate") = c
    BY <2>2, <2>3 DEF Carrying, InFlight
  <2>5. e.s.sendWindow = 0 /\ streams[p][id].sendWindow = 0
    BY <1>1, <2>2 DEF Carrying, Pair, Sound, Accounted
  <2>6. e.s.sendWindow + d + c = g.s.recvWindow
    BY <2>2, <2>3 DEF Carrying, Pair, Sound, Covered
  <2>7. ASSUME d = 0, c = 0 PROVE \E x \in g.owed : x.pc = "consumed"
    <3>1. g.s.recvWindow = 0
      BY <2>5, <2>6, <2>7
    <3>2. InitialWindow \in Nat \ {0} /\ Threshold \in Nat /\ Threshold <= InitialWindow
      BY WindowAssumption
    <3>3. g.known /\ g.up
      BY <2>2, <3>1, <3>2 DEF Carrying
    <3>4. Accounted(g)
      BY <2>2 DEF Carrying, Pair, Sound
    <3>5. g.s.unackedRecvBytes < Threshold /\ g.s.unackedRecvBytes \in Nat
      BY <2>2, <3>3, <3>4, StreamFields DEF Carrying, Pair, EndOK, Accounted
    <3>6. ~(g.s.recvWindow + g.s.unackedRecvBytes = InitialWindow)
      BY <3>1, <3>2, <3>5
    <3> QED
      BY <3>3, <3>4, <3>6 DEF Accounted
  <2>8. Other(p) \in Peers /\ g.owed = Owed(stack[Other(p)], id)
    BY <2>1, Peering, EndIs
  <2>9. Start(Other(p))
    BY <1>1, <2>8, Starting
  <2>10. PICK st \in Seq(Calls) : st = stack[Other(p)]
    BY <2>9 DEF Start
  <2>11. ASSUME d = 0, c = 0
         PROVE  \E i \in DOMAIN stack[Other(p)] :
                   LET x == stack[Other(p)][i] IN x.pc = "consumed" /\ x.id = id
    <3>1. PICK x \in Owed(st, id) : x.pc = "consumed"
      BY <2>7, <2>8, <2>10, <2>11
    <3>2. PICK i \in 1 .. Len(st) : x = st[i]
      BY <3>1 DEF Owed, Elems
    <3>3. x.id = id /\ DOMAIN st = 1 .. Len(st)
      BY <3>1 DEF Owed
    <3> QED
      BY <2>10, <3>1, <3>2, <3>3
  <2> QED
    BY <2>3, <2>4, <2>5, <2>11
<1>2. TunnelInv => CreditOnItsWay
  BY <1>1 DEF CreditOnItsWay
<1> QED
  BY <1>2, TunnelInvariant, PTL

(* Nothing is lost, doubled or overtaken (NothingLost): frames under way   *)
(* and pendingData, whatever processPending cut, hold the units accepted   *)
(* and not delivered, in their order.                                      *)
THEOREM NothingIsLost == Spec => []NothingLost
<1>1. ASSUME TunnelInv, NEW p \in Peers, NEW id \in Ids, Flowing(p, id),
             NEW left, left = OnWire(p, id, "Data") \o streams[p][id].pendingData
      PROVE  /\ \A i \in DOMAIN left : left[i].first =
                    delivered[Other(p)][id] + LengthOf(First(left, i - 1)) + 1
             /\ delivered[Other(p)][id] + LengthOf(First(left, Len(left))) = accepted[p][id]
  <2>1. PICK e, g : e = End(p, id) /\ g = End(Other(p), id)
    OBVIOUS
  <2>2. Carrying(p, id, e, g) /\ EndOK(id, e) /\ EndOK(id, g)
    BY <1>1, <2>1, FlowingEnds DEF Carrying, Pair
  <2>3. PICK q \in Seq(Ranges) : q = streams[p][id].pendingData /\ q = e.s.pendingData
    BY <2>2, StreamFields DEF Carrying, EndOK
  <2>4. PICK got \in Nat, given \in Nat : got = g.delivered /\ given = e.accepted
    BY <2>2, EndNumbers
  <2>5. CarriedBy(DataOf(id, e), q, got, given, e.up /\ e.known)
    BY <2>2, <2>3, <2>4 DEF Carrying, Pair, Sound, Carried
  <2>6. PICK live : live = (e.up /\ e.known)
    OBVIOUS
  <2>7. PICK s \in Seq(Frames) : s = DataOf(id, e)
    BY <2>2, LineLengths DEF EndOK
  <2>8. live /\ Chain(s, got) /\ Chain(q, got + LengthOf(s))
        /\ got + LengthOf(s) + LengthOf(q) = given
    <3>1. e.line \in Seq(StreamFrames(id)) /\ ~Ended(e) /\ live
      BY <2>2, <2>6 DEF EndOK, Carrying
    <3>2. CarriedBy(DataOf(id, e), q, got, given, live)
      BY <2>5, <2>6
    <3> QED
      BY <2>7, <3>1, <3>2, CarriedWhole, ZenonT(40)
  <2>9. left = s \o q /\ s \in Seq(Pieces) /\ q \in Seq(Pieces)
    BY <1>1, <2>2, <2>3, <2>7, FramesArePieces, RangesArePieces DEF Carrying
  <2>10. /\ left \in Seq(Pieces) /\ LengthOf(left) = LengthOf(s) + LengthOf(q)
         /\ LengthOf(s) \in Nat /\ LengthOf(q) \in Nat
    BY <2>9, SumsJoin, SumsAre
  <2>11. Chain(left, got) /\ got + LengthOf(left) = given
    <3>1. Chain(left, got)
      BY <2>8, <2>9, ChainJoin
    <3> QED
      BY <2>8, <2>10, <3>1
  <2>12. \A k \in 0 .. Len(left) : LengthOf(First(left, k)) = Sums(left)[k]
    BY <2>10, LengthOfFirst
  <2>13. \A i \in DOMAIN left : i \in 1 .. Len(left) /\ i - 1 \in 0 .. Len(left)
    BY <2>10
  <2>14. LengthOf(First(left, Len(left))) = LengthOf(left)
    BY <2>10, <2>12 DEF LengthOf
  <2>15. got = delivered[Other(p)][id] /\ given = accepted[p][id]
    BY <2>2, <2>4 DEF Carrying
  <2> QED
    BY <2>11, <2>12, <2>13, <2>14, <2>15 DEF Chain
<1>2. TunnelInv => NothingLost
  BY <1>1 DEF NothingLost
<1> QED
  BY <1>2, TunnelInvariant, PTL

(* Only handleDataFrame gives units to onData.                             *)
LEMMA OnlyDataDelivers ==
    ASSUME [Next]_vars, delivered' # delivered
    PROVE  \E p \in Peers : HandleData(p)
<1>1. PICK p \in Peers : HandlerStep(p) \/ AppReturns(p) \/ Application(p) \/ ConnectionEnds(p)
  BY DEF Next, vars
<1>2. ~AppReturns(p) /\ ~ConnectionEnds(p)
  BY DEF AppReturns, ConnectionEnds
<1>3. ~Application(p)
  BY DEF Application, OpenStream, Shutdown, SendToStream, CloseStream
<1>4. /\ ~Receive(p) /\ ~HandleIgnored(p) /\ ~HandleSyn(p) /\ ~SendAck(p)
      /\ ~TrySendWindowUpdate(p) /\ ~HandleFin(p) /\ ~HandleUpdate(p) /\ ~HandleGoAway(p)
  BY DEF Receive, HandleIgnored, HandleSyn, SendAck, TrySendWindowUpdate, HandleFin,
         HandleUpdate, HandleGoAway
<1>5. ~Erase(p) /\ ~EraseAgain(p) /\ ~CloseAll(p) /\ ~CloseTCP(p)
  BY DEF Erase, EraseAgain, CloseAll, CloseTCP
<1> QED
  BY <1>1, <1>2, <1>3, <1>4, <1>5 DEF HandlerStep

(* What onData gets follows what it got (DeliveredInOrder): no unit is     *)
(* skipped, even on a stream that is closed or a connection that ends.     *)
THEOREM DataInOrder == Spec => DeliveredInOrder
<1>1. ASSUME TunnelInv, [Next]_vars, NEW p \in Peers, NEW id \in Ids,
             delivered'[p][id] # delivered[p][id]
      PROVE  NextFrame(p).first = delivered[p][id] + 1
  <2>1. PICK q \in Peers : HandleData(q)
    BY <1>1, OnlyDataDelivers
  <2>2. Start(q)
    BY <1>1, Starting
  <2>3. PICK left : Parsed(q, left)
    BY <2>1, <2>2, Parsing DEF HandleData
  <2>4. PICK f \in GoodFrames : f = NextFrame(q)
    BY <2>3 DEF Parsed
  <2>5. f.id \in Ids
    BY <2>1, <2>4 DEF HandleData, GoodFrames
  <2>6. PICK s \in Stream : s = streams[q][f.id]
    BY <2>1, <2>2, <2>4, <2>5 DEF Start, StreamsTyped, Knows, HandleData
  <2>7. DataHandled(q, f.id, f, s)
    BY <2>1, <2>4, <2>6 DEF HandleData, DataHandled, GoodFrames
  <2>8. Fits(End(q, f.id), End(Other(q), f.id), f)
    BY <1>1, <2>3, <2>5, <2>7, NextFits DEF Parsed
  <2>9. f.first = delivered[q][f.id] + 1
    <3>1. PICK i \in Ids : i = f.id
      BY <2>5
    <3>2. PICK e : e = End(q, i)
      OBVIOUS
    <3>3. f.first = e.delivered + 1
      BY <2>8, <3>1, <3>2 DEF Fits
    <3>4. e.delivered = delivered[q][i]
      BY <3>2, EndIs
    <3> QED
      BY <3>1, <3>3, <3>4
  <2>10. delivered' = [delivered EXCEPT ![q][f.id] = @ + f.length]
    BY <1>1, <2>1, <2>4 DEF HandleData
  <2>11. delivered \in [Peers -> [Ids -> 0 .. MaxAccepted]]
    BY <2>2 DEF Start
  <2>12. p = q /\ id = f.id
    BY <1>1, <2>10, <2>11
  <2> QED
    BY <2>4, <2>9, <2>12
<1>2. TunnelInv /\ [Next]_vars =>
          [\A p \in Peers, id \in Ids : delivered'[p][id] # delivered[p][id]
              => NextFrame(p).first = delivered[p][id] + 1]_vars
  BY <1>1
<1> QED
  BY <1>2, TunnelInvariant, PTL DEF Spec, DeliveredInOrder

-----------------------------------------------------------------------------
(* The counters of the flows that Tunnel implements are the meters.        *)
FlowMeter(p, id) == IF Flowing(p, id) THEN Meter(End(p, id), End(Other(p), id)) ELSE NoUnits

LEMMA FlowingMeter ==
    ASSUME NEW p \in Peers, NEW id \in Ids, Flowing(p, id)
    PROVE  LET m == Meter(End(p, id), End(Other(p), id))
           IN  /\ Given(p, id) = m.given /\ Sent(p, id) = m.sent /\ Learned(p, id) = m.learned
               /\ Delivered(p, id) = m.delivered /\ Credited(p, id) = m.credited
<1>0. Other(p) \in Peers
  BY Peering
<1>1. PICK e : e = End(p, id)
  OBVIOUS
<1>2. PICK g : g = End(Other(p), id)
  OBVIOUS
<1>3. e.s = streams[p][id] /\ e.accepted = accepted[p][id]
  BY <1>1, EndIs DEF Flowing
<1>4. g.s.recvWindow = RecvWindow(Other(p), id) /\ g.delivered = delivered[Other(p)][id]
  BY <1>0, <1>2, EndIs, NewStreamFields DEF RecvWindow
<1>5. PICK m : m = Meter(e, g)
  OBVIOUS
<1>6. /\ Given(p, id) = m.given /\ Sent(p, id) = m.sent /\ Learned(p, id) = m.learned
      /\ Delivered(p, id) = m.delivered /\ Credited(p, id) = m.credited
  BY <1>3, <1>4, <1>5 DEF Given, Sent, Learned, Delivered, Credited, Meter, SentBy
<1> QED
  BY <1>1, <1>2, <1>5, <1>6

FlowCounters ==
    \A p \in Peers, id \in Ids :
        LET f == <<p, id>>
            m == FlowMeter(p, id)
        IN  /\ Counter(Given)[f] = m.given /\ Counter(Sent)[f] = m.sent
            /\ Counter(Learned)[f] = m.learned /\ Counter(Delivered)[f] = m.delivered
            /\ Counter(Credited)[f] = m.credited

LEMMA CountersAreMeters == FlowCounters
<1>1. SUFFICES ASSUME NEW p \in Peers, NEW id \in Ids
               PROVE  LET f == <<p, id>>
                          m == FlowMeter(p, id)
                      IN  /\ Counter(Given)[f] = m.given /\ Counter(Sent)[f] = m.sent
                          /\ Counter(Learned)[f] = m.learned /\ Counter(Delivered)[f] = m.delivered
                          /\ Counter(Credited)[f] = m.credited
  BY DEF FlowCounters
<1>2. PICK f \in Peers \X Ids : f = <<p, id>> /\ f[1] = p /\ f[2] = id
  <2>1. <<p, id>> \in Peers \X Ids /\ <<p, id>>[1] = p /\ <<p, id>>[2] = id
    OBVIOUS
  <2> QED
    BY <2>1, Zenon
<1>3. PICK m : m = FlowMeter(p, id)
  OBVIOUS
<1>4. CASE Flowing(p, id)
  <2>1. /\ Given(p, id) = m.given /\ Sent(p, id) = m.sent /\ Learned(p, id) = m.learned
        /\ Delivered(p, id) = m.delivered /\ Credited(p, id) = m.credited
    BY <1>3, <1>4, FlowingMeter DEF FlowMeter
  <2> QED
    BY <1>2, <1>3, <1>4, <2>1 DEF Counter
<1>5. CASE ~Flowing(p, id)
  <2>1. m = NoUnits
    BY <1>3, <1>5 DEF FlowMeter
  <2> QED
    BY <1>2, <1>3, <1>5, <2>1 DEF Counter, NoUnits
<1> QED
  BY <1>4, <1>5

LEMMA CountersAreMetersNext == FlowCounters'
BY CountersAreMeters, PTL

LEMMA FlowingRunsNext ==
    Typed' => \A p \in Peers, id \in Ids :
                  Flowing(p, id)' <=> Runs(id, End(p, id)', End(Other(p), id)')
<1>1. Typed => \A p \in Peers, id \in Ids :
                   Flowing(p, id) <=> Runs(id, End(p, id), End(Other(p), id))
  BY FlowingRuns
<1>2. (Typed => \A p \in Peers, id \in Ids :
                    Flowing(p, id) <=> Runs(id, End(p, id), End(Other(p), id)))'
  BY <1>1, PTL
<1> QED
  BY <1>2

MetersStep ==
    \/ \A p \in Peers, id \in Ids :
           FlowMeter(p, id)' = IF Flowing(p, id)' THEN FlowMeter(p, id) ELSE NoUnits
    \/ \E p \in Peers, id \in Ids :
           /\ Flowing(p, id) /\ Flowing(p, id)' /\ FlowMoves(FlowMeter(p, id), FlowMeter(p, id)')
           /\ \A q \in Peers, i \in Ids : q # p \/ i # id => FlowMeter(q, i)' = FlowMeter(q, i)

LEMMA StepOfMeters == TunnelInv /\ Onwards => MetersStep
<1> SUFFICES ASSUME TunnelInv, Onwards PROVE MetersStep
  OBVIOUS
<1>1. /\ \A p \in Peers, id \in Ids : Flowing(p, id) <=> Runs(id, End(p, id), End(Other(p), id))
      /\ \A p \in Peers, id \in Ids : Flowing(p, id)' <=> Runs(id, End(p, id)', End(Other(p), id)')
  BY FlowingRuns, FlowingRunsNext DEF TunnelInv, Onwards
<1>2. ASSUME NEW p \in Peers, NEW id \in Ids
      PROVE  /\ FlowMeter(p, id) = IF Flowing(p, id) THEN Meter(End(p, id), End(Other(p), id))
                                                    ELSE NoUnits
             /\ FlowMeter(p, id)' = IF Flowing(p, id)' THEN Meter(End(p, id)', End(Other(p), id)')
                                                      ELSE NoUnits
  BY DEF FlowMeter
<1>3. ASSUME NEW p \in Peers, NEW id \in Ids, FlowSteady(p, id)
      PROVE  FlowMeter(p, id)' = IF Flowing(p, id)' THEN FlowMeter(p, id) ELSE NoUnits
  BY <1>1, <1>2, <1>3 DEF FlowSteady, Steady
<1>4. ASSUME NEW p \in Peers, NEW id \in Ids, FlowHeld(p, id)
      PROVE  FlowMeter(p, id)' = FlowMeter(p, id)
  BY <1>1, <1>2, <1>4 DEF FlowHeld, Held
<1>5. ASSUME NEW p \in Peers, NEW id \in Ids, FlowMoved(p, id)
      PROVE  Flowing(p, id) /\ Flowing(p, id)' /\ FlowMoves(FlowMeter(p, id), FlowMeter(p, id)')
  BY <1>1, <1>2, <1>5 DEF FlowMoved, Moves
<1> QED
  BY <1>3, <1>4, <1>5 DEF Onwards, FlowsStep, MetersStep

(* A move of a meter is one of the steps of its flow.                      *)
MeterOK(m) == /\ m.given \in 0 .. MaxAccepted /\ m.delivered \in 0 .. MaxAccepted
              /\ m.sent \in Int /\ m.credited \in Int /\ m.credited <= m.delivered
              /\ m.learned \in Nat

MoveOf(m, m2) ==
    \/ Repays(m, m2)
    \/ \E n \in (0 .. MaxAccepted) \cap Nat : Gives(m, m2, n) \/ Hands(m, m2, n) \/ Learns(m, m2, n)

IsMeter(m) == m = [given |-> m.given, sent |-> m.sent, learned |-> m.learned,
                   delivered |-> m.delivered, credited |-> m.credited]

LEMMA UnitsOfMoves ==
    ASSUME NEW m, NEW m2, MeterOK(m), IsMeter(m), m2.given \in 0 .. MaxAccepted,
           m2.delivered \in 0 .. MaxAccepted, FlowMoves(m, m2)
    PROVE  MoveOf(m, m2) /\ m2.learned \in Nat
<1>1. MaxAccepted \in Nat
  BY TunnelAssumption
<1>2. CASE Repays(m, m2)
  <2>1. m2.learned = m.learned
    BY <1>2 DEF Repays, IsMeter
  <2> QED
    BY <1>2, <2>1 DEF MoveOf, MeterOK
<1>3. ASSUME NEW n \in Nat, Gives(m, m2, n) PROVE MoveOf(m, m2) /\ m2.learned \in Nat
  <2>1. m2.learned = m.learned /\ m2.given = m.given + n
    BY <1>3 DEF Gives, IsMeter
  <2>2. n \in 0 .. MaxAccepted
    BY <1>1, <2>1 DEF MeterOK
  <2> QED
    BY <1>3, <2>1, <2>2 DEF MoveOf, MeterOK
<1>4. ASSUME NEW n \in Nat, Hands(m, m2, n) PROVE MoveOf(m, m2) /\ m2.learned \in Nat
  <2>1. m2.learned = m.learned /\ m2.delivered = m.delivered + n
    BY <1>4 DEF Hands, IsMeter
  <2>2. n \in 0 .. MaxAccepted
    BY <1>1, <2>1 DEF MeterOK
  <2> QED
    BY <1>4, <2>1, <2>2 DEF MoveOf, MeterOK
<1>5. ASSUME NEW n \in Nat, Learns(m, m2, n) PROVE MoveOf(m, m2) /\ m2.learned \in Nat
  <2>1. m2.learned = m.learned + n /\ n <= m.credited - m.learned
    BY <1>5 DEF Learns, IsMeter
  <2>2. n \in 0 .. MaxAccepted /\ m2.learned \in Nat
    BY <1>1, <2>1 DEF MeterOK
  <2> QED
    BY <1>5, <2>2 DEF MoveOf
<1> QED
  BY <1>2, <1>3, <1>4, <1>5 DEF FlowMoves

(* The counters of the flows, as functions of meters.                      *)
Meters == [f \in Peers \X Ids |-> FlowMeter(f[1], f[2])]

CountedBy(g, s, l, d, c, M) ==
    /\ g = [f \in Peers \X Ids |-> M[f].given] /\ s = [f \in Peers \X Ids |-> M[f].sent]
    /\ l = [f \in Peers \X Ids |-> M[f].learned] /\ d = [f \in Peers \X Ids |-> M[f].delivered]
    /\ c = [f \in Peers \X Ids |-> M[f].credited]

CountersOf(M) == CountedBy(Counter(Given), Counter(Sent), Counter(Learned),
                           Counter(Delivered), Counter(Credited), M)

LEMMA CountersOfMeters == CountersOf(Meters)
<1>1. ASSUME NEW f \in Peers \X Ids
      PROVE  /\ Counter(Given)[f] = Meters[f].given /\ Counter(Sent)[f] = Meters[f].sent
             /\ Counter(Learned)[f] = Meters[f].learned
             /\ Counter(Delivered)[f] = Meters[f].delivered
             /\ Counter(Credited)[f] = Meters[f].credited
  <2>1. PICK p \in Peers, id \in Ids : f = <<p, id>> /\ f[1] = p /\ f[2] = id
    OBVIOUS
  <2>2. Meters[f] = FlowMeter(p, id)
    BY <2>1 DEF Meters
  <2> QED
    BY <2>1, <2>2, CountersAreMeters DEF FlowCounters
<1>2. /\ Counter(Given) = [f \in Peers \X Ids |-> Counter(Given)[f]]
      /\ Counter(Sent) = [f \in Peers \X Ids |-> Counter(Sent)[f]]
      /\ Counter(Learned) = [f \in Peers \X Ids |-> Counter(Learned)[f]]
      /\ Counter(Delivered) = [f \in Peers \X Ids |-> Counter(Delivered)[f]]
      /\ Counter(Credited) = [f \in Peers \X Ids |-> Counter(Credited)[f]]
  BY DEF Counter
<1> QED
  BY <1>1, <1>2 DEF CountersOf, CountedBy

LEMMA CountersOfMetersNext ==
    CountedBy(Counter(Given)', Counter(Sent)', Counter(Learned)',
              Counter(Delivered)', Counter(Credited)', Meters')
<1>1. CountersOf(Meters)'
  BY CountersOfMeters, PTL
<1> QED
  BY <1>1 DEF CountersOf

(* Some flows are forgotten, ...                                           *)
LEMMA FlowsForgotten ==
    ASSUME NEW ended \in SUBSET (Peers \X Ids),
           \A f \in Peers \X Ids : Meters'[f] = IF f \in ended THEN NoUnits ELSE Meters[f]
    PROVE  Flows!Forget(ended)
<1>1. PICK g, s, l, d, c, M :
          /\ g = Counter(Given) /\ s = Counter(Sent) /\ l = Counter(Learned)
          /\ d = Counter(Delivered) /\ c = Counter(Credited) /\ M = Meters
  OBVIOUS
<1>2. PICK g2, s2, l2, d2, c2, M2 :
          /\ g2 = Counter(Given)' /\ s2 = Counter(Sent)' /\ l2 = Counter(Learned)'
          /\ d2 = Counter(Delivered)' /\ c2 = Counter(Credited)' /\ M2 = Meters'
  OBVIOUS
<1>3. CountedBy(g, s, l, d, c, M) /\ CountedBy(g2, s2, l2, d2, c2, M2)
  BY <1>1, <1>2, CountersOfMeters, CountersOfMetersNext DEF CountersOf
<1>4. \A f \in Peers \X Ids : M2[f] = IF f \in ended THEN NoUnits ELSE M[f]
  BY <1>1, <1>2
<1>5. /\ g2 = [f \in Peers \X Ids |-> IF f \in ended THEN 0 ELSE g[f]]
      /\ s2 = [f \in Peers \X Ids |-> IF f \in ended THEN 0 ELSE s[f]]
      /\ l2 = [f \in Peers \X Ids |-> IF f \in ended THEN 0 ELSE l[f]]
      /\ d2 = [f \in Peers \X Ids |-> IF f \in ended THEN 0 ELSE d[f]]
      /\ c2 = [f \in Peers \X Ids |-> IF f \in ended THEN 0 ELSE c[f]]
  BY <1>3, <1>4 DEF CountedBy, NoUnits
<1> QED
  BY <1>1, <1>2, <1>5 DEF Flows!Forget

(* ... or one moves.                                                       *)
LEMMA FlowMovesOn ==
    ASSUME NEW f \in Peers \X Ids, MoveOf(Meters[f], Meters'[f]), IsMeter(Meters[f]),
           \A x \in Peers \X Ids : x # f => Meters'[x] = Meters[x]
    PROVE  \/ Flows!ReturnCredit(f)
           \/ \E n \in (0 .. MaxAccepted) \cap Nat :
                  Flows!Give(f, n) \/ Flows!Deliver(f, n) \/ Flows!LearnCredit(f, n)
<1>1. PICK g, s, l, d, c, M :
          /\ g = Counter(Given) /\ s = Counter(Sent) /\ l = Counter(Learned)
          /\ d = Counter(Delivered) /\ c = Counter(Credited) /\ M = Meters
  OBVIOUS
<1>2. PICK g2, s2, l2, d2, c2, M2 :
          /\ g2 = Counter(Given)' /\ s2 = Counter(Sent)' /\ l2 = Counter(Learned)'
          /\ d2 = Counter(Delivered)' /\ c2 = Counter(Credited)' /\ M2 = Meters'
  OBVIOUS
<1>3. CountedBy(g, s, l, d, c, M) /\ CountedBy(g2, s2, l2, d2, c2, M2)
  BY <1>1, <1>2, CountersOfMeters, CountersOfMetersNext DEF CountersOf
<1>4. MoveOf(M[f], M2[f]) /\ IsMeter(M[f]) /\ \A x \in Peers \X Ids : x # f => M2[x] = M[x]
  BY <1>1, <1>2
<1>5. PICK m, m2 : m = M[f] /\ m2 = M2[f]
  OBVIOUS
<1>6. /\ g2 = [g EXCEPT ![f] = m2.given] /\ s2 = [s EXCEPT ![f] = m2.sent]
      /\ l2 = [l EXCEPT ![f] = m2.learned] /\ d2 = [d EXCEPT ![f] = m2.delivered]
      /\ c2 = [c EXCEPT ![f] = m2.credited]
  BY <1>3, <1>4, <1>5 DEF CountedBy
<1>7. /\ g[f] = m.given /\ s[f] = m.sent /\ l[f] = m.learned /\ d[f] = m.delivered
      /\ c[f] = m.credited
  BY <1>3, <1>5 DEF CountedBy
<1>8. /\ g = [g EXCEPT ![f] = m.given] /\ s = [s EXCEPT ![f] = m.sent]
      /\ l = [l EXCEPT ![f] = m.learned] /\ d = [d EXCEPT ![f] = m.delivered]
      /\ c = [c EXCEPT ![f] = m.credited]
  BY <1>3, <1>7 DEF CountedBy
<1>9. CASE Repays(m, m2)
  <2>1. /\ m2.given = m.given /\ m2.sent = m.sent /\ m2.learned = m.learned
        /\ m2.delivered = m.delivered /\ m2.credited = m.delivered
        /\ m.delivered - m.credited >= Threshold
    BY <1>4, <1>5, <1>9 DEF Repays, IsMeter
  <2>2. /\ g2 = g /\ s2 = s /\ l2 = l /\ d2 = d /\ c2 = [c EXCEPT ![f] = d[f]]
        /\ d[f] - c[f] >= Threshold
    BY <1>6, <1>7, <1>8, <2>1
  <2> QED
    BY <1>1, <1>2, <2>2 DEF Flows!ReturnCredit
<1>10. ASSUME NEW n \in (0 .. MaxAccepted) \cap Nat, Gives(m, m2, n) PROVE Flows!Give(f, n)
  <2>1. /\ m2.given = m.given + n /\ m2.sent = Flows!SentWith(m.given + n, m.learned)
        /\ m2.learned = m.learned /\ m2.delivered = m.delivered /\ m2.credited = m.credited
    BY <1>4, <1>5, <1>10 DEF Gives, IsMeter
  <2>2. /\ g2 = [g EXCEPT ![f] = g[f] + n] /\ l2 = l /\ d2 = d /\ c2 = c
        /\ s2 = [s EXCEPT ![f] = Flows!SentWith(g[f] + n, l[f])]
    BY <1>6, <1>7, <1>8, <2>1
  <2> QED
    BY <1>1, <1>2, <2>2 DEF Flows!Give
<1>11. ASSUME NEW n \in (0 .. MaxAccepted) \cap Nat, Hands(m, m2, n) PROVE Flows!Deliver(f, n)
  <2>1. /\ m2.given = m.given /\ m2.sent = m.sent /\ m2.learned = m.learned
        /\ m2.delivered = m.delivered + n /\ m2.credited = m.credited
        /\ n <= m.sent - m.delivered
    BY <1>4, <1>5, <1>11 DEF Hands, IsMeter
  <2>2. /\ g2 = g /\ s2 = s /\ l2 = l /\ c2 = c /\ d2 = [d EXCEPT ![f] = d[f] + n]
        /\ n <= s[f] - d[f]
    BY <1>6, <1>7, <1>8, <2>1
  <2> QED
    BY <1>1, <1>2, <2>2 DEF Flows!Deliver
<1>12. ASSUME NEW n \in (0 .. MaxAccepted) \cap Nat, Learns(m, m2, n)
       PROVE  Flows!LearnCredit(f, n)
  <2>1. /\ m2.given = m.given /\ m2.sent = Flows!SentWith(m.given, m.learned + n)
        /\ m2.learned = m.learned + n /\ m2.delivered = m.delivered /\ m2.credited = m.credited
        /\ n <= m.credited - m.learned
    BY <1>4, <1>5, <1>12 DEF Learns, IsMeter
  <2>2. /\ g2 = g /\ d2 = d /\ c2 = c /\ l2 = [l EXCEPT ![f] = l[f] + n]
        /\ s2 = [s EXCEPT ![f] = Flows!SentWith(g[f], l[f] + n)] /\ n <= c[f] - l[f]
    BY <1>6, <1>7, <1>8, <2>1
  <2> QED
    BY <1>1, <1>2, <2>2 DEF Flows!LearnCredit
<1> QED
  BY <1>4, <1>5, <1>9, <1>10, <1>11, <1>12 DEF MoveOf

(* What the sender learned is counted from nothing: no more than the peer  *)
(* returned, and never less than zero.                                     *)
LearnedNat == \A p \in Peers, id \in Ids : FlowMeter(p, id).learned \in Nat

LEMMA MetersAreOK ==
    ASSUME NEW p \in Peers, NEW id \in Ids, TunnelInv, LearnedNat
    PROVE  MeterOK(FlowMeter(p, id)) /\ IsMeter(FlowMeter(p, id))
<1>1. PICK m : m = FlowMeter(p, id)
  OBVIOUS
<1>2. m.learned \in Nat
  BY <1>1 DEF LearnedNat
<1>3. IsMeter(m)
  BY <1>1 DEF FlowMeter, IsMeter, Meter, NoUnits
<1>4. CASE Flowing(p, id)
  <2>1. PICK e : e = End(p, id)
    OBVIOUS
  <2>2. PICK g : g = End(Other(p), id)
    OBVIOUS
  <2>3. Pair(p, id, e, g) /\ Runs(id, e, g) /\ m = Meter(e, g)
    BY <1>1, <1>4, <2>1, <2>2, PairNow, FlowingRuns DEF TunnelInv, FlowMeter
  <2>4. PICK c : Balanced(m, c)
    BY <2>3, Balance
  <2> QED
    BY <1>1, <1>2, <1>3, <2>4 DEF Balanced, MeterOK
<1>5. CASE ~Flowing(p, id)
  <2>1. m = NoUnits
    BY <1>1, <1>5 DEF FlowMeter
  <2> QED
    BY <1>1, <1>2, <1>3, <2>1, TunnelAssumption DEF MeterOK, NoUnits
<1> QED
  BY <1>4, <1>5

LEMMA MetersBounded ==
    TunnelInv => \A p \in Peers, id \in Ids : /\ FlowMeter(p, id).given \in 0 .. MaxAccepted
                                              /\ FlowMeter(p, id).delivered \in 0 .. MaxAccepted
<1> SUFFICES ASSUME TunnelInv, NEW p \in Peers, NEW id \in Ids
             PROVE  /\ FlowMeter(p, id).given \in 0 .. MaxAccepted
                    /\ FlowMeter(p, id).delivered \in 0 .. MaxAccepted
  OBVIOUS
<1>1. /\ accepted[p][id] \in 0 .. MaxAccepted /\ delivered[Other(p)][id] \in 0 .. MaxAccepted
  BY Starting, Peering DEF Start
<1>2. CASE Flowing(p, id)
  BY <1>1, <1>2, FlowingMeter DEF FlowMeter, Given, Delivered
<1>3. CASE ~Flowing(p, id)
  BY <1>3, TunnelAssumption DEF FlowMeter, NoUnits
<1> QED
  BY <1>2, <1>3

LEMMA MetersBoundedNext ==
    TunnelInv' => \A p \in Peers, id \in Ids : /\ FlowMeter(p, id)'.given \in 0 .. MaxAccepted
                                               /\ FlowMeter(p, id)'.delivered \in 0 .. MaxAccepted
<1>1. (TunnelInv => \A p \in Peers, id \in Ids :
                        /\ FlowMeter(p, id).given \in 0 .. MaxAccepted
                        /\ FlowMeter(p, id).delivered \in 0 .. MaxAccepted)'
  BY MetersBounded, PTL
<1> QED
  BY <1>1

LEMMA StepOfFlows == TunnelInv /\ LearnedNat /\ [Next]_vars => LearnedNat' /\ Flows!Next
<1> SUFFICES ASSUME TunnelInv, LearnedNat, [Next]_vars PROVE LearnedNat' /\ Flows!Next
  OBVIOUS
<1>1. TunnelInv' /\ MetersStep
  BY TunnelStep, StepOfMeters DEF Onwards
<1>2. CASE \A p \in Peers, id \in Ids :
               FlowMeter(p, id)' = IF Flowing(p, id)' THEN FlowMeter(p, id) ELSE NoUnits
  <2>1. PICK ended \in SUBSET (Peers \X Ids) :
            ended = {f \in Peers \X Ids : ~Flowing(f[1], f[2])'}
    OBVIOUS
  <2>2. ASSUME NEW f \in Peers \X Ids
        PROVE  Meters'[f] = IF f \in ended THEN NoUnits ELSE Meters[f]
    <3>1. PICK p \in Peers, id \in Ids : f[1] = p /\ f[2] = id
      OBVIOUS
    <3>2. Meters[f] = FlowMeter(p, id) /\ Meters'[f] = FlowMeter(p, id)'
      BY <3>1 DEF Meters
    <3>3. f \in ended <=> ~Flowing(p, id)'
      BY <2>1, <3>1
    <3> QED
      BY <1>2, <3>2, <3>3
  <2>3. Flows!Forget(ended)
    BY <2>2, FlowsForgotten
  <2>4. Flows!Next
    BY <2>3 DEF Flows!Next
  <2>5. LearnedNat'
    <3>1. ASSUME NEW p \in Peers, NEW id \in Ids PROVE FlowMeter(p, id)'.learned \in Nat
      BY <1>2 DEF LearnedNat, NoUnits
    <3> QED
      BY <3>1 DEF LearnedNat
  <2> QED
    BY <2>4, <2>5
<1>3. ASSUME NEW p \in Peers, NEW id \in Ids, FlowMoves(FlowMeter(p, id), FlowMeter(p, id)'),
             \A q \in Peers, i \in Ids : q # p \/ i # id => FlowMeter(q, i)' = FlowMeter(q, i)
      PROVE  LearnedNat' /\ Flows!Next
  <2>1. PICK f \in Peers \X Ids : f = <<p, id>> /\ f[1] = p /\ f[2] = id
    <3>1. <<p, id>> \in Peers \X Ids /\ <<p, id>>[1] = p /\ <<p, id>>[2] = id
      OBVIOUS
    <3> QED
      BY <3>1, Zenon
  <2>2. Meters[f] = FlowMeter(p, id) /\ Meters'[f] = FlowMeter(p, id)'
    BY <2>1 DEF Meters
  <2>3. PICK m : m = FlowMeter(p, id)
    OBVIOUS
  <2>4. PICK m2 : m2 = FlowMeter(p, id)'
    OBVIOUS
  <2>5. MeterOK(m) /\ IsMeter(m)
    BY <2>3, MetersAreOK
  <2>6. m2.given \in 0 .. MaxAccepted /\ m2.delivered \in 0 .. MaxAccepted
    BY <1>1, <2>4, MetersBoundedNext
  <2>7. MoveOf(m, m2) /\ m2.learned \in Nat
    BY <1>3, <2>3, <2>4, <2>5, <2>6, UnitsOfMoves
  <2>8. ASSUME NEW x \in Peers \X Ids, x # f PROVE Meters'[x] = Meters[x]
    <3>1. PICK q \in Peers, i \in Ids : x = <<q, i>> /\ x[1] = q /\ x[2] = i
      OBVIOUS
    <3>2. Meters[x] = FlowMeter(q, i) /\ Meters'[x] = FlowMeter(q, i)'
      BY <3>1 DEF Meters
    <3>3. q # p \/ i # id
      BY <2>1, <2>8, <3>1
    <3> QED
      BY <1>3, <3>2, <3>3
  <2>9. Flows!Next
    <3>1. MoveOf(Meters[f], Meters'[f]) /\ IsMeter(Meters[f])
      BY <2>2, <2>3, <2>4, <2>5, <2>7
    <3>2. \/ Flows!ReturnCredit(f)
          \/ \E n \in (0 .. MaxAccepted) \cap Nat :
                 Flows!Give(f, n) \/ Flows!Deliver(f, n) \/ Flows!LearnCredit(f, n)
      BY <2>8, <3>1, FlowMovesOn
    <3> QED
      BY <3>2 DEF Flows!Next
  <2>10. LearnedNat'
    <3>1. ASSUME NEW q \in Peers, NEW i \in Ids PROVE FlowMeter(q, i)'.learned \in Nat
      <4>1. CASE q = p /\ i = id
        BY <2>4, <2>7, <4>1
      <4>2. CASE q # p \/ i # id
        BY <1>3, <4>2 DEF LearnedNat
      <4> QED
        BY <4>1, <4>2
    <3> QED
      BY <3>1 DEF LearnedNat
  <2> QED
    BY <2>9, <2>10
<1> QED
  BY <1>1, <1>2, <1>3 DEF MetersStep

LEMMA FlowInit == Init => LearnedNat /\ Flows!Init
<1> SUFFICES ASSUME Init PROVE LearnedNat /\ Flows!Init
  OBVIOUS
<1>1. ASSUME NEW p \in Peers, NEW id \in Ids PROVE ~Flowing(p, id)
  BY DEF Init, Flowing, Knows
<1>2. LearnedNat
  BY <1>1 DEF LearnedNat, FlowMeter, NoUnits
<1>3. /\ Counter(Given) = [f \in Peers \X Ids |-> 0] /\ Counter(Sent) = [f \in Peers \X Ids |-> 0]
      /\ Counter(Learned) = [f \in Peers \X Ids |-> 0]
      /\ Counter(Delivered) = [f \in Peers \X Ids |-> 0]
      /\ Counter(Credited) = [f \in Peers \X Ids |-> 0]
  BY <1>1 DEF Counter
<1> QED
  BY <1>2, <1>3 DEF Flows!Init

(* Each direction of each stream is a flow of StreamFlow                   *)
(* (ImplementsStreamFlow): sendToStream gives and sends what the window    *)
(* allows, handleDataFrame delivers, trySendWindowUpdate returns the       *)
(* credit, handleWindowUpdateFrame learns of it, and no other step of      *)
(* either end touches a flow but to end it.                                *)
THEOREM TunnelImplementsStreamFlow == Spec => ImplementsStreamFlow
<1>1. TunnelInv /\ LearnedNat /\ [Next]_vars => LearnedNat' /\ [Flows!Next]_(Flows!flowVars)
  BY StepOfFlows
<1> QED
  BY <1>1, FlowInit, TunnelInvariant, PTL DEF Spec, ImplementsStreamFlow, Flows!Spec

-----------------------------------------------------------------------------
(* What StreamFlow promises of its five counters, whatever they count: the *)
(* counters of a flow stay in order, and the sender uses its window up     *)
(* before anything waits.                                                  *)
FlowsOK(g, d, c, l, s) ==
    /\ g \in [Peers \X Ids -> Nat] /\ d \in [Peers \X Ids -> Nat]
    /\ c \in [Peers \X Ids -> Nat] /\ l \in [Peers \X Ids -> Nat]
    /\ s \in [Peers \X Ids -> Nat]
    /\ \A f \in Peers \X Ids : /\ l[f] <= c[f] /\ c[f] <= d[f] /\ d[f] <= s[f]
                               /\ s[f] = Flows!SentWith(g[f], l[f])

FlowsInv == FlowsOK(Counter(Given), Counter(Delivered), Counter(Credited),
                    Counter(Learned), Counter(Sent))

LEMMA SentWithNat ==
    ASSUME NEW m \in Nat, NEW l \in Nat
    PROVE  /\ Flows!SentWith(m, l) \in Nat /\ Flows!SentWith(m, l) <= InitialWindow + l
           /\ Flows!SentWith(m, l) <= m
           /\ Flows!SentWith(m, l) < m => Flows!SentWith(m, l) = InitialWindow + l
  BY WindowAssumption DEF Flows!SentWith

LEMMA SentWithGrows ==
    ASSUME NEW m \in Nat, NEW l \in Nat, NEW n \in Nat
    PROVE  /\ Flows!SentWith(m + n, l) \in Nat /\ Flows!SentWith(m, l + n) \in Nat
           /\ Flows!SentWith(m + n, l) >= Flows!SentWith(m, l)
           /\ Flows!SentWith(m, l + n) >= Flows!SentWith(m, l)
  BY WindowAssumption DEF Flows!SentWith

LEMMA FlowsGive ==
    ASSUME NEW g, NEW d, NEW c, NEW l, NEW s, FlowsOK(g, d, c, l, s),
           NEW f \in Peers \X Ids, NEW n \in Nat
    PROVE  FlowsOK([g EXCEPT ![f] = g[f] + n], d, c, l,
                   [s EXCEPT ![f] = Flows!SentWith(g[f] + n, l[f])])
<1>1. g[f] \in Nat /\ l[f] \in Nat /\ s[f] = Flows!SentWith(g[f], l[f]) /\ g[f] + n \in Nat
      /\ d[f] \in Nat /\ s[f] \in Nat
  BY DEF FlowsOK
<1>2. Flows!SentWith(g[f] + n, l[f]) \in Nat /\ Flows!SentWith(g[f] + n, l[f]) >= Flows!SentWith(g[f], l[f])
  BY <1>1, SentWithGrows
<1> QED
  BY <1>1, <1>2 DEF FlowsOK

LEMMA FlowsDeliver ==
    ASSUME NEW g, NEW d, NEW c, NEW l, NEW s, FlowsOK(g, d, c, l, s),
           NEW f \in Peers \X Ids, NEW n \in Nat, n <= s[f] - d[f]
    PROVE  FlowsOK(g, [d EXCEPT ![f] = d[f] + n], c, l, s)
  BY DEF FlowsOK

LEMMA FlowsReturn ==
    ASSUME NEW g, NEW d, NEW c, NEW l, NEW s, FlowsOK(g, d, c, l, s), NEW f \in Peers \X Ids
    PROVE  FlowsOK(g, d, [c EXCEPT ![f] = d[f]], l, s)
  BY DEF FlowsOK

LEMMA FlowsLearn ==
    ASSUME NEW g, NEW d, NEW c, NEW l, NEW s, FlowsOK(g, d, c, l, s),
           NEW f \in Peers \X Ids, NEW n \in Nat, n <= c[f] - l[f]
    PROVE  FlowsOK(g, d, c, [l EXCEPT ![f] = l[f] + n],
                   [s EXCEPT ![f] = Flows!SentWith(g[f], l[f] + n)])
<1>1. g[f] \in Nat /\ l[f] \in Nat /\ s[f] = Flows!SentWith(g[f], l[f]) /\ l[f] + n \in Nat
      /\ d[f] \in Nat /\ s[f] \in Nat
  BY DEF FlowsOK
<1>2. Flows!SentWith(g[f], l[f] + n) \in Nat /\ Flows!SentWith(g[f], l[f] + n) >= Flows!SentWith(g[f], l[f])
  BY <1>1, SentWithGrows
<1> QED
  BY <1>1, <1>2 DEF FlowsOK

LEMMA FlowsKept == FlowsInv /\ [Flows!Next]_(Flows!flowVars) => FlowsInv'
<1> SUFFICES ASSUME FlowsInv, [Flows!Next]_(Flows!flowVars) PROVE FlowsInv'
  OBVIOUS
<1>1. PICK g, d, c, l, s :
          /\ g = Counter(Given) /\ d = Counter(Delivered) /\ c = Counter(Credited)
          /\ l = Counter(Learned) /\ s = Counter(Sent)
  OBVIOUS
<1>2. PICK g2, d2, c2, l2, s2 :
          /\ g2 = Counter(Given)' /\ d2 = Counter(Delivered)' /\ c2 = Counter(Credited)'
          /\ l2 = Counter(Learned)' /\ s2 = Counter(Sent)'
  OBVIOUS
<1>3. FlowsOK(g, d, c, l, s)
  BY <1>1 DEF FlowsInv
<1>4. SUFFICES FlowsOK(g2, d2, c2, l2, s2)
  BY <1>2 DEF FlowsInv
<1>5. ASSUME NEW f \in Peers \X Ids, NEW n \in (0 .. MaxAccepted) \cap Nat, Flows!Give(f, n)
      PROVE  FlowsOK(g2, d2, c2, l2, s2)
  <2>1. /\ g2 = [g EXCEPT ![f] = g[f] + n] /\ s2 = [s EXCEPT ![f] = Flows!SentWith(g[f] + n, l[f])]
        /\ d2 = d /\ c2 = c /\ l2 = l
    BY <1>1, <1>2, <1>5 DEF Flows!Give
  <2> QED
    BY <1>3, <2>1, FlowsGive
<1>6. ASSUME NEW f \in Peers \X Ids, NEW n \in (0 .. MaxAccepted) \cap Nat, Flows!Deliver(f, n)
      PROVE  FlowsOK(g2, d2, c2, l2, s2)
  <2>1. /\ d2 = [d EXCEPT ![f] = d[f] + n] /\ n <= s[f] - d[f]
        /\ g2 = g /\ c2 = c /\ l2 = l /\ s2 = s
    BY <1>1, <1>2, <1>6 DEF Flows!Deliver
  <2> QED
    BY <1>3, <2>1, FlowsDeliver
<1>7. ASSUME NEW f \in Peers \X Ids, Flows!ReturnCredit(f)
      PROVE  FlowsOK(g2, d2, c2, l2, s2)
  <2>1. c2 = [c EXCEPT ![f] = d[f]] /\ g2 = g /\ d2 = d /\ l2 = l /\ s2 = s
    BY <1>1, <1>2, <1>7 DEF Flows!ReturnCredit
  <2> QED
    BY <1>3, <2>1, FlowsReturn
<1>8. ASSUME NEW f \in Peers \X Ids, NEW n \in (0 .. MaxAccepted) \cap Nat,
             Flows!LearnCredit(f, n)
      PROVE  FlowsOK(g2, d2, c2, l2, s2)
  <2>1. /\ l2 = [l EXCEPT ![f] = l[f] + n] /\ s2 = [s EXCEPT ![f] = Flows!SentWith(g[f], l[f] + n)]
        /\ n <= c[f] - l[f] /\ g2 = g /\ d2 = d /\ c2 = c
    BY <1>1, <1>2, <1>8 DEF Flows!LearnCredit
  <2> QED
    BY <1>3, <2>1, FlowsLearn
<1>9. ASSUME NEW ended \in SUBSET (Peers \X Ids), Flows!Forget(ended)
      PROVE  FlowsOK(g2, d2, c2, l2, s2)
  <2>1. /\ g2 = [f \in Peers \X Ids |-> IF f \in ended THEN 0 ELSE g[f]]
        /\ d2 = [f \in Peers \X Ids |-> IF f \in ended THEN 0 ELSE d[f]]
        /\ c2 = [f \in Peers \X Ids |-> IF f \in ended THEN 0 ELSE c[f]]
        /\ l2 = [f \in Peers \X Ids |-> IF f \in ended THEN 0 ELSE l[f]]
        /\ s2 = [f \in Peers \X Ids |-> IF f \in ended THEN 0 ELSE s[f]]
    BY <1>1, <1>2, <1>9 DEF Flows!Forget
  <2>2. Flows!SentWith(0, 0) = 0
    BY WindowAssumption DEF Flows!SentWith
  <2> QED
    BY <1>3, <2>1, <2>2 DEF FlowsOK
<1>10. CASE UNCHANGED Flows!flowVars
  <2>1. g2 = g /\ d2 = d /\ c2 = c /\ l2 = l /\ s2 = s
    BY <1>1, <1>2, <1>10 DEF Flows!flowVars
  <2> QED
    BY <1>3, <2>1
<1> QED
  BY <1>5, <1>6, <1>7, <1>8, <1>9, <1>10 DEF Flows!Next

LEMMA FlowsInvariant == Flows!Spec => []FlowsInv
<1>1. Flows!Init => FlowsInv
  <2> SUFFICES ASSUME Flows!Init PROVE FlowsInv
    OBVIOUS
  <2>1. Flows!SentWith(0, 0) = 0
    BY WindowAssumption DEF Flows!SentWith
  <2>2. PICK z : z = [f \in Peers \X Ids |-> 0]
    OBVIOUS
  <2>3. /\ Counter(Given) = z /\ Counter(Delivered) = z /\ Counter(Credited) = z
        /\ Counter(Learned) = z /\ Counter(Sent) = z
    BY <2>2 DEF Flows!Init
  <2>4. FlowsOK(z, z, z, z, z)
    BY <2>1, <2>2 DEF FlowsOK
  <2> QED
    BY <2>3, <2>4 DEF FlowsInv
<1> QED
  BY <1>1, FlowsKept, PTL DEF Flows!Spec

(* The promises of StreamFlow, for the flows of a tunnel: the counters are *)
(* natural numbers, ...                                                    *)
THEOREM FlowTypes == Flows!Spec => []Flows!TypeOK
<1>1. FlowsInv => Flows!TypeOK
  BY DEF FlowsInv, FlowsOK, Flows!TypeOK, Flows!Counters
<1> QED
  BY <1>1, FlowsInvariant, PTL

(* ... the check of handleDataFrame against recvWindow never fails, ...    *)
THEOREM NoOverrun == Flows!Spec => []Flows!WindowRespected
<1>1. ASSUME FlowsInv PROVE Flows!WindowRespected
  <2>1. PICK g, d, c, l, s :
            /\ g = Counter(Given) /\ d = Counter(Delivered) /\ c = Counter(Credited)
            /\ l = Counter(Learned) /\ s = Counter(Sent)
    OBVIOUS
  <2>2. FlowsOK(g, d, c, l, s)
    BY <1>1, <2>1 DEF FlowsInv
  <2>3. ASSUME NEW f \in Peers \X Ids PROVE s[f] - d[f] <= InitialWindow + c[f] - d[f]
    <3>1. /\ g[f] \in Nat /\ d[f] \in Nat /\ c[f] \in Nat /\ l[f] \in Nat /\ s[f] \in Nat
          /\ s[f] = Flows!SentWith(g[f], l[f]) /\ l[f] <= c[f]
      BY <2>2 DEF FlowsOK
    <3>2. Flows!SentWith(g[f], l[f]) <= InitialWindow + l[f]
      BY <3>1, SentWithNat
    <3> QED
      BY <3>1, <3>2, WindowAssumption
  <2> QED
    BY <2>1, <2>3 DEF Flows!WindowRespected
<1> QED
  BY <1>1, FlowsInvariant, PTL

(* ... and sender and receiver never wait for each other.                  *)
THEOREM NoStall == Flows!Spec => []Flows!NeverStuck
<1>1. ASSUME FlowsInv PROVE Flows!NeverStuck
  <2>1. PICK g, d, c, l, s :
            /\ g = Counter(Given) /\ d = Counter(Delivered) /\ c = Counter(Credited)
            /\ l = Counter(Learned) /\ s = Counter(Sent)
    OBVIOUS
  <2>2. FlowsOK(g, d, c, l, s)
    BY <1>1, <2>1 DEF FlowsInv
  <2>3. ASSUME NEW f \in Peers \X Ids, s[f] < g[f], ~(d[f] < s[f]), ~(l[f] < c[f])
        PROVE  d[f] - c[f] >= Threshold
    <3>1. /\ g[f] \in Nat /\ d[f] \in Nat /\ c[f] \in Nat /\ l[f] \in Nat /\ s[f] \in Nat
          /\ s[f] = Flows!SentWith(g[f], l[f]) /\ l[f] <= c[f] /\ d[f] <= s[f]
      BY <2>2 DEF FlowsOK
    <3>2. d[f] = s[f] /\ l[f] = c[f]
      BY <2>3, <3>1
    <3>3. s[f] = InitialWindow + l[f]
      BY <2>3, <3>1, SentWithNat
    <3> QED
      BY <3>1, <3>2, <3>3, WindowAssumption
  <2> QED
    BY <2>1, <2>3 DEF Flows!NeverStuck
<1> QED
  BY <1>1, FlowsInvariant, PTL

(* A tunnel keeps these promises, as it implements StreamFlow: what one    *)
(* end has sent and the other not yet handed to onData never exceeds what  *)
(* the receiver's window still allows, and an end with data pending is     *)
(* never left without data or credit under way or due.                     *)
THEOREM TunnelFlowControl ==
    Spec => [](Flows!TypeOK /\ Flows!WindowRespected /\ Flows!NeverStuck)
  BY TunnelImplementsStreamFlow, FlowTypes, NoOverrun, NoStall, PTL DEF ImplementsStreamFlow

=============================================================================
