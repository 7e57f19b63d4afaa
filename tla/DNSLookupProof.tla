--------------------------- MODULE DNSLookupProof ----------------------------
(***************************************************************************)
(* Theorems about DNSLookup, for all constants that LookupAssumption       *)
(* allows: any hosts, a pool and a table of any size, ids that come round, *)
(* any number of retries, and callbacks that nest to any depth.            *)
(***************************************************************************)
EXTENDS DNSLookup, WellFoundedInduction, FiniteSetTheorems, SequenceTheorems, TLAPS

-----------------------------------------------------------------------------
(* Induction.  The library states it for a predicate that is a parameter;  *)
(* here a set takes its place, the set of the values the claim holds for.  *)
NatLess == OpToRel(<, Nat)

(* From a to b, one by one.                                                *)
LEMMA Climb ==
    ASSUME NEW a \in Nat, NEW b \in Nat, NEW G, a \in G,
           \A k \in a .. b - 1 : k \in G => k + 1 \in G
    PROVE  a .. b \subseteq G
<1> DEFINE Missing == (a .. b) \ G
<1> SUFFICES ASSUME Missing # {} PROVE FALSE
  OBVIOUS
<1>1. Missing \subseteq Nat
  OBVIOUS
<1>2. PICK m \in Missing : \A k \in Missing : ~(<<k, m>> \in NatLess)
  BY <1>1, NatLessThanWellFounded, WFMin DEF NatLess
<1> HIDE DEF Missing
<1>3. \A k \in Missing : ~(k < m)
  BY <1>1, <1>2 DEF NatLess, OpToRel
<1>4. m \in a .. b /\ m \notin G /\ m # a
  BY <1>2 DEF Missing
<1>5. m - 1 \in a .. b - 1 /\ m - 1 < m
  BY <1>4
<1>6. m - 1 \in G
  BY <1>3, <1>5 DEF Missing
<1> QED
  BY <1>4, <1>5, <1>6

-----------------------------------------------------------------------------
(* The requests that may have been called back already: those the handler  *)
(* is about to erase, and who knows which after a crash.                   *)
Answered(q) == \/ handler = Crash
               \/ handler.pc = "done" /\ handler.qid = q
               \/ handler.pc = "scan" /\ q \in handler.given_up

(* What a frame that waits still finds when it goes on, whatever the       *)
(* callbacks above it did.                                                 *)
FrameSound(c) ==
    /\ c.pc = "callback" => /\ c.call \in DOMAIN lookups
                            /\ \/ c.answer \in {None, lookups[c.call].host}
                               \/ \E d \in SameId(c.call) : c.answer = lookups[d].host
    /\ c.pc = "touch" => c.host \in DOMAIN age
StackSound == \A i \in DOMAIN stack : FrameSound(stack[i])

(* The handler still finds its node, and the walk those it will meet.      *)
HandlerSound ==
    /\ handler.pc = "done" => handler.qid \in DOMAIN pending
    /\ handler.pc = "scan" => /\ handler.due \subseteq DOMAIN pending
                              /\ handler.todo \subseteq handler.due

(* Each request stands for a call that had its id, and that waits for its  *)
(* callback until the request is about to be erased.                       *)
CallSound(q) ==
    LET c == pending[q].call
    IN  /\ c \in DOMAIN lookups
        /\ lookups[c].host = pending[q].host
        /\ lookups[c].qid = q
        /\ ~lookups[c].refused
        /\ ~Answered(q) => lookups[c].callbacks = 0
CallsSound == \A q \in DOMAIN pending : CallSound(q)

(* Every query is that of a lookup.                                        *)
AskedSound == \A a \in asked : \E d \in DOMAIN lookups :
                  lookups[d].qid = a.qid /\ lookups[d].host = a.host

LookupInv == /\ TypeOK /\ StackSound /\ HandlerSound /\ CallsSound /\ AskedSound
             /\ PoolBalanced /\ CacheExact /\ AnsweredOnce

-----------------------------------------------------------------------------
(* What is left of a list without the members of S.                        *)
LEMMA MinusUnfolds ==
    ASSUME NEW s, Len(s) \in Nat, NEW S
    PROVE  \E f : /\ f = [n \in 0 .. Len(s) |-> IF n = 0 THEN << >>
                                                ELSE IF s[n] \in S THEN f[n - 1]
                                                ELSE Append(f[n - 1], s[n])]
                  /\ Minus(s, S) = f[Len(s)]
<1> DEFINE Rest(f, n) == IF n = 0 THEN << >>
                         ELSE IF s[n] \in S THEN f[n - 1] ELSE Append(f[n - 1], s[n])
           G == {m \in 0 .. Len(s) : \E f : f = [n \in 0 .. m |-> Rest(f, n)]}
<1>1. 0 \in G
  <2> DEFINE f == [n \in 0 .. 0 |-> << >>]
  <2>1. f = [n \in 0 .. 0 |-> Rest(f, n)]
    OBVIOUS
  <2> HIDE DEF f
  <2> QED
    BY <2>1
<1>2. ASSUME NEW m \in 0 .. Len(s) - 1, m \in G PROVE m + 1 \in G
  <2>1. PICK f : f = [n \in 0 .. m |-> Rest(f, n)]
    BY <1>2
  <2> DEFINE g == [n \in 0 .. m + 1 |-> IF n = m + 1 THEN Rest(f, n) ELSE f[n]]
  <2>2. \A n \in 0 .. m + 1 : n # 0 => n - 1 \in 0 .. m /\ g[n - 1] = f[n - 1]
    OBVIOUS
  <2>3. \A n \in 0 .. m + 1 : Rest(g, n) = Rest(f, n)
    BY <2>2
  <2>4. \A n \in 0 .. m : f[n] = Rest(f, n)
    BY <2>1
  <2>5. \A n \in 0 .. m + 1 : g[n] = Rest(f, n)
    <3> HIDE DEF Rest
    <3> QED
      BY <2>4
  <2>6. g = [n \in 0 .. m + 1 |-> Rest(g, n)]
    BY <2>3, <2>5
  <2> HIDE DEF g
  <2> QED
    BY <2>6
<1>3. Len(s) \in G
  <2> HIDE DEF G
  <2>1. 0 .. Len(s) \subseteq G
    BY <1>1, <1>2, Climb
  <2> QED
    BY <2>1
<1> DEFINE k == CHOOSE f : f = [n \in 0 .. Len(s) |-> Rest(f, n)]
<1>4. k = [n \in 0 .. Len(s) |-> Rest(k, n)]
  BY <1>3
<1>5. Minus(s, S) = k[Len(s)]
  BY DEF Minus
<1> QED
  BY <1>4, <1>5

LEMMA AppendMember ==
    ASSUME NEW T, NEW s \in Seq(T), NEW x \in T
    PROVE  /\ Append(s, x) \in Seq(T)
           /\ Len(Append(s, x)) = Len(s) + 1
           /\ ToSet(Append(s, x)) = ToSet(s) \cup {x}
           /\ IsInjective(s) /\ x \notin ToSet(s) => IsInjective(Append(s, x))
<1>1. /\ Append(s, x) \in Seq(T)
      /\ Len(Append(s, x)) = Len(s) + 1
      /\ DOMAIN Append(s, x) = 1 .. Len(s) + 1
      /\ \A i \in 1 .. Len(s) : Append(s, x)[i] = s[i]
      /\ Append(s, x)[Len(s) + 1] = x
      /\ Len(s) \in Nat /\ DOMAIN s = 1 .. Len(s)
  OBVIOUS
<1>2. ToSet(Append(s, x)) = ToSet(s) \cup {x}
  BY <1>1 DEF ToSet
<1>3. ASSUME IsInjective(s), x \notin ToSet(s) PROVE IsInjective(Append(s, x))
  BY <1>1, <1>3 DEF ToSet, IsInjective
<1> QED
  BY <1>1, <1>2, <1>3

LEMMA MinusProperties ==
    ASSUME NEW T, NEW s \in Seq(T), NEW S
    PROVE  /\ Minus(s, S) \in Seq(T)
           /\ Len(Minus(s, S)) <= Len(s)
           /\ ToSet(Minus(s, S)) = ToSet(s) \ S
           /\ IsInjective(s) => IsInjective(Minus(s, S))
           /\ ToSet(s) \cap S # {} => Len(Minus(s, S)) < Len(s)
<1>1. Len(s) \in Nat /\ DOMAIN s = 1 .. Len(s) /\ \A i \in 1 .. Len(s) : s[i] \in T
  OBVIOUS
<1>2. PICK k : /\ k = [n \in 0 .. Len(s) |-> IF n = 0 THEN << >>
                                            ELSE IF s[n] \in S THEN k[n - 1]
                                            ELSE Append(k[n - 1], s[n])]
               /\ Minus(s, S) = k[Len(s)]
  BY <1>1, MinusUnfolds
<1>3. /\ k[0] = << >>
      /\ \A n \in 1 .. Len(s) : k[n] = IF s[n] \in S THEN k[n - 1] ELSE Append(k[n - 1], s[n])
  <2>1. \A n \in 0 .. Len(s) : k[n] = IF n = 0 THEN << >>
                                     ELSE IF s[n] \in S THEN k[n - 1]
                                     ELSE Append(k[n - 1], s[n])
    BY <1>2, Zenon
  <2>2. 0 \in 0 .. Len(s) /\ \A n \in 1 .. Len(s) : n \in 0 .. Len(s) /\ n # 0
    BY <1>1
  <2> QED
    BY <2>1, <2>2, Zenon
<1> DEFINE First(n) == {s[i] : i \in 1 .. n}
           Good(n) == /\ k[n] \in Seq(T)
                      /\ Len(k[n]) <= n
                      /\ ToSet(k[n]) = First(n) \ S
                      /\ IsInjective(s) => IsInjective(k[n])
                      /\ First(n) \cap S # {} => Len(k[n]) < n
           G == {n \in 0 .. Len(s) : Good(n)}
<1>4. Good(0)
  BY <1>3 DEF ToSet, IsInjective
<1>5. ASSUME NEW n \in 0 .. Len(s) - 1, Good(n) PROVE Good(n + 1)
  <2>1. n + 1 \in 1 .. Len(s) /\ n \in Nat /\ (n + 1) - 1 = n
    BY <1>1
  <2>2. First(n + 1) = First(n) \cup {s[n + 1]}
    BY <2>1
  <2>3. s[n + 1] \in T
    BY <1>1, <2>1
  <2>4. CASE s[n + 1] \in S
    <3>1. k[n + 1] = k[n]
      BY <1>3, <2>1, <2>4
    <3>2. Len(k[n]) \in Nat /\ Len(k[n]) < n + 1
      BY <1>5, <2>1
    <3> HIDE DEF First
    <3> QED
      BY <1>5, <2>1, <2>2, <2>4, <3>1, <3>2
  <2>5. CASE s[n + 1] \notin S
    <3>1. k[n + 1] = Append(k[n], s[n + 1])
      BY <1>3, <2>1, <2>5
    <3>2. /\ Append(k[n], s[n + 1]) \in Seq(T)
          /\ Len(Append(k[n], s[n + 1])) = Len(k[n]) + 1
          /\ ToSet(Append(k[n], s[n + 1])) = ToSet(k[n]) \cup {s[n + 1]}
          /\ IsInjective(k[n]) /\ s[n + 1] \notin ToSet(k[n])
                => IsInjective(Append(k[n], s[n + 1]))
      BY <1>5, <2>3, AppendMember
    <3>3. IsInjective(s) => s[n + 1] \notin First(n)
      BY <1>1, <2>1 DEF IsInjective
    <3>4. Len(k[n]) \in Nat
      BY <1>5
    <3> HIDE DEF First
    <3>5. First(n + 1) \cap S # {} => First(n) \cap S # {}
      BY <2>2, <2>5
    <3> QED
      BY <1>5, <2>1, <2>2, <2>5, <3>1, <3>2, <3>3, <3>4, <3>5
  <2> QED
    BY <2>4, <2>5
<1>6. Good(Len(s))
  <2>1. 0 \in G /\ \A n \in 0 .. Len(s) - 1 : n \in G => n + 1 \in G
    <3> HIDE DEF Good
    <3> QED
      BY <1>1, <1>4, <1>5
  <2> HIDE DEF G
  <2>2. 0 .. Len(s) \subseteq G
    BY <1>1, <2>1, Climb
  <2>3. Len(s) \in G
    BY <1>1, <2>2
  <2> QED
    BY <2>3 DEF G
<1>7. First(Len(s)) = ToSet(s)
  BY <1>1 DEF ToSet
<1> QED
  BY <1>2, <1>6, <1>7

-----------------------------------------------------------------------------
(* The stack of frames and the handler below it.                           *)
LEMMA FrameKinds ==
    /\ \A call \in 1 .. MaxLookups, answer \in Hosts \cup {None} :
          Callback(call, answer) \in Frames
    /\ \A h \in Hosts : [pc |-> "touch", host |-> h] \in Frames
BY DEF Frames, Callback

Walk(due, todo, given_up, at, twice) ==
    [pc |-> "scan", due |-> due, todo |-> todo, given_up |-> given_up, at |-> at, twice |-> twice]

LEMMA HandlerTypes ==
    ASSUME NEW h \in Handlers
    PROVE  /\ h.pc \in {"idle", "crash", "done", "scan"}
           /\ h.pc = "idle" => h = Idle
           /\ h.pc = "crash" => h = Crash
           /\ h.pc = "done" => h.qid \in Qids
           /\ h.pc = "scan" => /\ h.due \in SUBSET Qids /\ h.todo \in SUBSET Qids
                               /\ h.given_up \in SUBSET Qids
                               /\ h.at \in Qids \cup {NoQid} /\ h.twice \in BOOLEAN
                               /\ h = Walk(h.due, h.todo, h.given_up, h.at, h.twice)
<1>1. CASE h \in [pc: {"idle", "crash"}]
  BY <1>1 DEF Idle, Crash
<1>2. CASE h \in [pc: {"done"}, qid: Qids]
  BY <1>2
<1>3. CASE h \in [pc: {"scan"}, due: SUBSET Qids, todo: SUBSET Qids, given_up: SUBSET Qids,
                 at: Qids \cup {NoQid}, twice: BOOLEAN]
  BY <1>3 DEF Walk
<1> QED
  BY <1>1, <1>2, <1>3 DEF Handlers

LEMMA HandlerKinds ==
    /\ Idle \in Handlers /\ Idle.pc = "idle"
    /\ Crash \in Handlers /\ Crash.pc = "crash"
    /\ Idle # Crash
    /\ \A q \in Qids : [pc |-> "done", qid |-> q] \in Handlers
BY DEF Handlers, Idle, Crash

LEMMA WalkFields ==
    ASSUME NEW due \in SUBSET Qids, NEW todo \in SUBSET Qids, NEW given_up \in SUBSET Qids,
           NEW at \in Qids \cup {NoQid}, NEW twice \in BOOLEAN,
           NEW w, w = Walk(due, todo, given_up, at, twice)
    PROVE  /\ w \in Handlers /\ w.pc = "scan"
           /\ w.due = due /\ w.todo = todo /\ w.given_up = given_up
           /\ w.at = at /\ w.twice = twice
BY DEF Walk, Handlers

(* At rest no request has been called back.                                *)
LEMMA NobodyAnswered ==
    ASSUME AtRest
    PROVE  /\ \A q : ~Answered(q)
           /\ ~Doomed
BY HandlerKinds DEF AtRest, Answered, Doomed

LEMMA Pushed ==
    ASSUME NEW F, NEW s \in Seq(F), NEW c \in F
    PROVE  /\ <<c>> \o s \in Seq(F)
           /\ DOMAIN (<<c>> \o s) = 1 .. Len(s) + 1
           /\ Len(<<c>> \o s) = Len(s) + 1
           /\ (<<c>> \o s)[1] = c
           /\ \A i \in 2 .. Len(s) + 1 : i - 1 \in DOMAIN s /\ (<<c>> \o s)[i] = s[i - 1]
OBVIOUS

LEMMA Popped ==
    ASSUME NEW F, NEW s \in Seq(F), s # << >>
    PROVE  /\ Head(s) = s[1] /\ Head(s) \in F /\ 1 \in DOMAIN s
           /\ << >> \o Tail(s) = Tail(s)
           /\ Tail(s) \in Seq(F)
           /\ Len(Tail(s)) = Len(s) - 1
           /\ \A i \in DOMAIN Tail(s) : i + 1 \in DOMAIN s /\ Tail(s)[i] = s[i + 1]
           /\ \A i \in DOMAIN s : i # 1 => i - 1 \in DOMAIN Tail(s)
OBVIOUS

-----------------------------------------------------------------------------
(* The cache.                                                              *)
LEMMA PutFirst ==
    ASSUME NEW T, NEW s \in Seq(T), IsInjective(s), NEW h \in T, h \notin ToSet(s)
    PROVE  /\ <<h>> \o s \in Seq(T)
           /\ IsInjective(<<h>> \o s)
           /\ ToSet(<<h>> \o s) = {h} \cup ToSet(s)
           /\ Len(<<h>> \o s) = Len(s) + 1
<1>1. /\ <<h>> \o s \in Seq(T)
      /\ DOMAIN (<<h>> \o s) = 1 .. Len(s) + 1
      /\ Len(<<h>> \o s) = Len(s) + 1
      /\ (<<h>> \o s)[1] = h
      /\ \A i \in 2 .. Len(s) + 1 : i - 1 \in DOMAIN s /\ (<<h>> \o s)[i] = s[i - 1]
      /\ DOMAIN s = 1 .. Len(s) /\ Len(s) \in Nat
  OBVIOUS
<1>2. \A i \in DOMAIN s : i + 1 \in 2 .. Len(s) + 1 /\ (<<h>> \o s)[i + 1] = s[i]
  BY <1>1
<1>3. ToSet(<<h>> \o s) = {h} \cup ToSet(s)
  <2>1. ASSUME NEW x \in ToSet(<<h>> \o s) PROVE x = h \/ x \in ToSet(s)
    <3>1. PICK i \in 1 .. Len(s) + 1 : x = (<<h>> \o s)[i]
      BY <1>1 DEF ToSet
    <3>2. i = 1 \/ i \in 2 .. Len(s) + 1
      BY <1>1
    <3> QED
      BY <1>1, <3>1, <3>2 DEF ToSet
  <2>2. ASSUME NEW x \in ToSet(s) PROVE x \in ToSet(<<h>> \o s)
    <3>1. PICK i \in DOMAIN s : x = s[i]
      BY DEF ToSet
    <3>2. i + 1 \in DOMAIN (<<h>> \o s) /\ (<<h>> \o s)[i + 1] = x
      BY <1>1, <1>2, <3>1
    <3> QED
      BY <3>2, Zenon DEF ToSet
  <2>3. h \in ToSet(<<h>> \o s)
    BY <1>1 DEF ToSet
  <2> QED
    BY <2>1, <2>2, <2>3
<1>4. IsInjective(<<h>> \o s)
  <2> SUFFICES ASSUME NEW i \in 1 .. Len(s) + 1, NEW j \in 1 .. Len(s) + 1,
                      (<<h>> \o s)[i] = (<<h>> \o s)[j]
               PROVE  i = j
    BY <1>1 DEF IsInjective
  <2>1. \A k \in 1 .. Len(s) + 1 : k # 1 => k \in 2 .. Len(s) + 1
    BY <1>1
  <2>2. \A k \in 2 .. Len(s) + 1 : (<<h>> \o s)[k] # h
    BY <1>1 DEF ToSet
  <2>3. CASE i = 1 \/ j = 1
    BY <1>1, <2>1, <2>2, <2>3
  <2>4. CASE i # 1 /\ j # 1
    <3>1. i - 1 \in DOMAIN s /\ j - 1 \in DOMAIN s /\ s[i - 1] = s[j - 1]
      BY <1>1, <2>1, <2>4
    <3>2. i - 1 = j - 1
      BY <3>1 DEF IsInjective
    <3> QED
      BY <3>2
  <2> QED
    BY <2>3, <2>4
<1> QED
  BY <1>1, <1>3, <1>4

LEMMA CutProperties ==
    ASSUME NEW T, NEW s \in Seq(T), IsInjective(s), NEW n \in 0 .. Len(s)
    PROVE  /\ SubSeq(s, 1, n) \in Seq(T)
           /\ IsInjective(SubSeq(s, 1, n))
           /\ ToSet(SubSeq(s, 1, n)) \subseteq ToSet(s)
           /\ Len(SubSeq(s, 1, n)) = n
<1>1. /\ SubSeq(s, 1, n) \in Seq(T)
      /\ Len(SubSeq(s, 1, n)) = n
      /\ DOMAIN SubSeq(s, 1, n) = 1 .. n
      /\ \A i \in 1 .. n : i \in DOMAIN s /\ SubSeq(s, 1, n)[i] = s[i]
  OBVIOUS
<1> QED
  BY <1>1 DEF IsInjective, ToSet

LEMMA TouchKeepsCache ==
    ASSUME TypeOK, CacheExact, NEW h \in DOMAIN age
    PROVE  LET list == <<h>> \o Minus(cacheList, {h})
           IN  /\ list \in Seq(Hosts)
               /\ IsInjective(list)
               /\ ToSet(list) = DOMAIN age
               /\ Len(list) <= CacheSize
<1>1. cacheList \in Seq(Hosts) /\ h \in Hosts /\ Len(cacheList) \in Nat
  BY DEF TypeOK
<1> DEFINE rest == Minus(cacheList, {h})
<1>2. /\ rest \in Seq(Hosts) /\ IsInjective(rest)
      /\ ToSet(rest) = ToSet(cacheList) \ {h}
      /\ Len(rest) < Len(cacheList)
  BY <1>1, MinusProperties DEF CacheExact
<1>3. ToSet(rest) = DOMAIN age \ {h} /\ Len(cacheList) <= CacheSize
  BY <1>2 DEF CacheExact
<1> HIDE DEF rest
<1>4. /\ <<h>> \o rest \in Seq(Hosts) /\ IsInjective(<<h>> \o rest)
      /\ ToSet(<<h>> \o rest) = {h} \cup ToSet(rest)
      /\ Len(<<h>> \o rest) = Len(rest) + 1
  BY <1>1, <1>2, PutFirst
<1>5. Len(rest) \in Nat
  BY <1>2
<1>6. Len(cacheList) \in Nat /\ CacheSize \in Nat
  BY <1>1, LookupAssumption DEF LookupAssumption
<1>7. Len(<<h>> \o rest) <= CacheSize
  BY <1>2, <1>3, <1>4, <1>5, <1>6
<1>8. ToSet(<<h>> \o rest) = DOMAIN age
  BY <1>3, <1>4
<1> QED
  BY <1>4, <1>7, <1>8 DEF rest

LEMMA UpdateKeepsCache ==
    ASSUME TypeOK, CacheExact, NEW h \in Hosts, UpdateCache(h)
    PROVE  /\ cacheList' \in Seq(Hosts)
           /\ DOMAIN age' \subseteq Hosts /\ \A g \in DOMAIN age' : age'[g] \in Ages
           /\ CacheExact'
<1> DEFINE n == IF Len(cacheList) < CacheSize THEN Len(cacheList) ELSE CacheSize - 1
<1>1. /\ cacheList \in Seq(Hosts) /\ Len(cacheList) \in Nat
      /\ IsInjective(cacheList) /\ ToSet(cacheList) = DOMAIN age /\ Len(cacheList) <= CacheSize
      /\ CacheSize \in Nat \ {0}
  BY LookupAssumption DEF TypeOK, CacheExact, LookupAssumption
<1>2. /\ Kept(h) \in Seq(Hosts) /\ IsInjective(Kept(h))
      /\ ToSet(Kept(h)) \subseteq DOMAIN age /\ h \notin ToSet(Kept(h))
      /\ Len(Kept(h)) < CacheSize
  <2>1. CASE h \in DOMAIN age
    <3>1. Kept(h) = Minus(cacheList, {h})
      BY <2>1 DEF Kept
    <3>2. /\ Kept(h) \in Seq(Hosts) /\ IsInjective(Kept(h))
          /\ ToSet(Kept(h)) = DOMAIN age \ {h}
          /\ Len(Kept(h)) < Len(cacheList)
      BY <1>1, <2>1, <3>1, MinusProperties
    <3>3. Len(Kept(h)) \in Nat
      BY <3>2
    <3> QED
      BY <1>1, <3>2, <3>3
  <2>2. CASE h \notin DOMAIN age
    <3>1. n \in 0 .. Len(cacheList) /\ n < CacheSize
      BY <1>1
    <3>2. Kept(h) = SubSeq(cacheList, 1, n)
      BY <2>2 DEF Kept
    <3> HIDE DEF n
    <3>3. /\ Kept(h) \in Seq(Hosts) /\ IsInjective(Kept(h))
          /\ ToSet(Kept(h)) \subseteq ToSet(cacheList)
          /\ Len(Kept(h)) = n
      BY <1>1, <3>1, <3>2, CutProperties
    <3> QED
      BY <1>1, <2>2, <3>1, <3>3
  <2> QED
    BY <2>1, <2>2
<1>3. /\ cacheList' = <<h>> \o Kept(h)
      /\ age' = With([g \in DOMAIN age \cap ToSet(Kept(h)) |-> age[g]], h, "fresh")
  BY DEF UpdateCache
<1>4. /\ cacheList' \in Seq(Hosts) /\ IsInjective(cacheList')
      /\ ToSet(cacheList') = {h} \cup ToSet(Kept(h))
      /\ Len(cacheList') = Len(Kept(h)) + 1
  BY <1>2, <1>3, PutFirst
<1>5. DOMAIN age' = {h} \cup ToSet(Kept(h))
  BY <1>2, <1>3 DEF With
<1>6. DOMAIN age' \subseteq Hosts /\ \A g \in DOMAIN age' : age'[g] \in Ages
  BY <1>2, <1>3 DEF With, TypeOK, Ages
<1>7. Len(Kept(h)) \in Nat
  BY <1>2
<1>8. Len(cacheList') <= CacheSize
  BY <1>1, <1>2, <1>4, <1>7
<1> QED
  BY <1>4, <1>5, <1>6, <1>8 DEF CacheExact

-----------------------------------------------------------------------------
(* What a step does to the stack and to the calls.                         *)
Remembers == /\ DOMAIN lookups \subseteq DOMAIN lookups'
             /\ \A c \in DOMAIN lookups : /\ lookups'[c].host = lookups[c].host
                                          /\ lookups'[c].qid = lookups[c].qid

LEMMA FramesKept ==
    ASSUME Remembers, DOMAIN age \subseteq DOMAIN age'
    PROVE  \A c : FrameSound(c) => FrameSound(c)'
<1> SUFFICES ASSUME NEW c, FrameSound(c) PROVE FrameSound(c)'
  OBVIOUS
<1>1. c.pc = "callback" => /\ c.call \in DOMAIN lookups
                           /\ SameId(c.call) \subseteq SameId(c.call)'
                           /\ \A d \in SameId(c.call) : lookups'[d].host = lookups[d].host
                           /\ lookups'[c.call].host = lookups[c.call].host
  BY DEF Remembers, FrameSound, SameId
<1> QED
  BY <1>1 DEF Remembers, FrameSound

LEMMA StackKept ==
    ASSUME StackSound, Remembers, DOMAIN age \subseteq DOMAIN age', UNCHANGED stack
    PROVE  StackSound'
<1>1. \A c : FrameSound(c) => FrameSound(c)'
  BY FramesKept
<1> QED
  BY <1>1 DEF StackSound

LEMMA StackPushed ==
    ASSUME TypeOK, StackSound, Remembers, DOMAIN age \subseteq DOMAIN age',
           NEW d \in Frames, FrameSound(d)', stack' = <<d>> \o stack
    PROVE  stack' \in Seq(Frames) /\ StackSound'
<1>1. \A c : FrameSound(c) => FrameSound(c)'
  BY FramesKept
<1>2. PICK s : s = stack
  OBVIOUS
<1>3. s \in Seq(Frames) /\ \A i \in DOMAIN s : FrameSound(s[i])'
  BY <1>1, <1>2 DEF TypeOK, StackSound
<1>4. /\ <<d>> \o s \in Seq(Frames)
      /\ DOMAIN (<<d>> \o s) = 1 .. Len(s) + 1
      /\ (<<d>> \o s)[1] = d
      /\ \A i \in 2 .. Len(s) + 1 : i - 1 \in DOMAIN s /\ (<<d>> \o s)[i] = s[i - 1]
      /\ Len(s) \in Nat
  BY <1>3, Pushed
<1>5. \A i \in 1 .. Len(s) + 1 : i = 1 \/ i \in 2 .. Len(s) + 1
  BY <1>4
<1>6. stack' = <<d>> \o s
  BY <1>2
<1>7. ASSUME NEW i \in 1 .. Len(s) + 1 PROVE FrameSound((<<d>> \o s)[i])'
  BY <1>3, <1>4, <1>5
<1> QED
  BY <1>4, <1>6, <1>7 DEF StackSound

LEMMA StackPushedTwo ==
    ASSUME TypeOK, StackSound, Remembers, DOMAIN age \subseteq DOMAIN age',
           NEW d \in Frames, FrameSound(d)', NEW e \in Frames, FrameSound(e)',
           stack' = <<d, e>> \o stack
    PROVE  stack' \in Seq(Frames) /\ StackSound'
<1>1. \A c : FrameSound(c) => FrameSound(c)'
  BY FramesKept
<1>2. PICK s : s = stack
  OBVIOUS
<1>3. s \in Seq(Frames) /\ \A i \in DOMAIN s : FrameSound(s[i])'
  BY <1>1, <1>2 DEF TypeOK, StackSound
<1>4. /\ <<d, e>> \o s \in Seq(Frames)
      /\ DOMAIN (<<d, e>> \o s) = 1 .. Len(s) + 2
      /\ (<<d, e>> \o s)[1] = d /\ (<<d, e>> \o s)[2] = e
      /\ \A i \in 3 .. Len(s) + 2 : i - 2 \in DOMAIN s /\ (<<d, e>> \o s)[i] = s[i - 2]
      /\ Len(s) \in Nat
  BY <1>3
<1>5. \A i \in 1 .. Len(s) + 2 : i = 1 \/ i = 2 \/ i \in 3 .. Len(s) + 2
  BY <1>4
<1>6. stack' = <<d, e>> \o s
  BY <1>2
<1>7. ASSUME NEW i \in 1 .. Len(s) + 2 PROVE FrameSound((<<d, e>> \o s)[i])'
  BY <1>3, <1>4, <1>5
<1> QED
  BY <1>4, <1>6, <1>7 DEF StackSound

LEMMA StackPopped ==
    ASSUME TypeOK, StackSound, Remembers, DOMAIN age \subseteq DOMAIN age',
           stack # << >>, stack' = Tail(stack)
    PROVE  stack' \in Seq(Frames) /\ StackSound'
<1>1. \A c : FrameSound(c) => FrameSound(c)'
  BY FramesKept
<1>2. PICK s : s = stack
  OBVIOUS
<1>3. s \in Seq(Frames) /\ s # << >> /\ \A i \in DOMAIN s : FrameSound(s[i])'
  BY <1>1, <1>2 DEF TypeOK, StackSound
<1>4. /\ Tail(s) \in Seq(Frames)
      /\ \A i \in DOMAIN Tail(s) : i + 1 \in DOMAIN s /\ Tail(s)[i] = s[i + 1]
  BY <1>3, Popped
<1>5. stack' = Tail(s)
  BY <1>2
<1> QED
  BY <1>3, <1>4, <1>5 DEF StackSound

LEMMA StackOfOne ==
    ASSUME NEW d \in Frames, FrameSound(d)', stack' = <<d>>
    PROVE  stack' \in Seq(Frames) /\ StackSound'
<1>1. stack' \in Seq(Frames) /\ DOMAIN stack' = {1} /\ stack'[1] = d
  OBVIOUS
<1> QED
  BY <1>1 DEF StackSound

LEMMA StackEmpty ==
    ASSUME stack' = << >> PROVE stack' \in Seq(Frames) /\ StackSound'
BY DEF StackSound

LEMMA CallMade ==
    ASSUME TypeOK, Len(lookups) < MaxLookups, NEW host \in Hosts, NEW qid \in Qids \cup {NoQid},
           NEW n \in Nat, NEW refused \in BOOLEAN, Called(host, qid, n, refused)
    PROVE  /\ lookups' \in Seq(Lookup)
           /\ DOMAIN lookups' = DOMAIN lookups \cup {ThisCall}
           /\ ThisCall \in 1 .. MaxLookups /\ ThisCall \notin DOMAIN lookups
           /\ \A c \in DOMAIN lookups : lookups'[c] = lookups[c]
           /\ lookups'[ThisCall].host = host /\ lookups'[ThisCall].qid = qid
           /\ lookups'[ThisCall].callbacks = n /\ lookups'[ThisCall].refused = refused
           /\ Remembers
<1>1. lookups \in Seq(Lookup) /\ Len(lookups) \in Nat /\ DOMAIN lookups = 1 .. Len(lookups)
  BY DEF TypeOK
<1> DEFINE l == [host |-> host, qid |-> qid, callbacks |-> n, refused |-> refused]
<1>2. /\ l \in Lookup
      /\ l.host = host /\ l.qid = qid /\ l.callbacks = n /\ l.refused = refused
  BY DEF Lookup
<1>3. lookups' = Append(lookups, l)
  BY DEF Called
<1> HIDE DEF l
<1>4. /\ lookups' \in Seq(Lookup)
      /\ DOMAIN lookups' = DOMAIN lookups \cup {ThisCall}
      /\ ThisCall \in 1 .. MaxLookups /\ ThisCall \notin DOMAIN lookups
      /\ \A c \in DOMAIN lookups : lookups'[c] = lookups[c]
      /\ lookups'[ThisCall] = l
  BY <1>1, <1>2, <1>3, LookupAssumption DEF ThisCall, LookupAssumption
<1>5. Remembers
  BY <1>4 DEF Remembers
<1> QED
  BY <1>2, <1>4, <1>5

LEMMA CallAnswered ==
    ASSUME TypeOK, NEW c \in DOMAIN lookups, CalledBack(c)
    PROVE  /\ lookups' \in Seq(Lookup)
           /\ DOMAIN lookups' = DOMAIN lookups
           /\ \A d \in DOMAIN lookups :
                /\ lookups'[d].refused = lookups[d].refused
                /\ lookups'[d].callbacks = lookups[d].callbacks + (IF d = c THEN 1 ELSE 0)
           /\ Remembers
<1>1. /\ lookups \in Seq(Lookup) /\ Len(lookups) \in Nat /\ DOMAIN lookups = 1 .. Len(lookups)
      /\ \A d \in DOMAIN lookups : lookups[d] \in Lookup
  BY DEF TypeOK
<1>2. \A r \in Lookup : [r EXCEPT !.callbacks = @ + 1] \in Lookup
  BY DEF Lookup
<1>3. /\ lookups' = [lookups EXCEPT ![c] = [lookups[c] EXCEPT !.callbacks = @ + 1]]
      /\ [lookups[c] EXCEPT !.callbacks = @ + 1] \in Lookup
  BY <1>1, <1>2 DEF CalledBack
<1>4. lookups' \in Seq(Lookup) /\ DOMAIN lookups' = DOMAIN lookups
  BY <1>1, <1>3, ExceptSeq
<1>5. ASSUME NEW d \in DOMAIN lookups
      PROVE  /\ lookups'[d].host = lookups[d].host
             /\ lookups'[d].qid = lookups[d].qid
             /\ lookups'[d].refused = lookups[d].refused
             /\ lookups'[d].callbacks = lookups[d].callbacks + (IF d = c THEN 1 ELSE 0)
  <2>1. lookups[d].callbacks \in Nat /\ lookups[d] \in Lookup
    BY <1>1 DEF Lookup
  <2>2. lookups'[d] = IF d = c THEN [lookups[c] EXCEPT !.callbacks = @ + 1] ELSE lookups[d]
    BY <1>3
  <2> QED
    BY <2>1, <2>2 DEF Lookup
<1> QED
  BY <1>4, <1>5 DEF Remembers

-----------------------------------------------------------------------------
(* The invariant holds at first.                                           *)
LEMMA QidsFinite == ASSUME NEW S \in SUBSET Qids PROVE IsFiniteSet(S)
<1>1. IsFiniteSet(1 .. LastQid)
  BY LookupAssumption, FS_Interval DEF LookupAssumption
<1> QED
  BY <1>1, FS_Subset DEF Qids

LEMMA LookupInit == Init => LookupInv
<1> SUFFICES ASSUME Init PROVE LookupInv
  OBVIOUS
<1>1. TypeOK
  BY LookupAssumption, HandlerKinds, EmptySeq
     DEF Init, TypeOK, LookupAssumption, Qids, SizeAbove
<1>2. StackSound /\ AskedSound /\ CallsSound /\ AnsweredOnce
  BY DEF Init, StackSound, AskedSound, CallsSound, AnsweredOnce
<1>3. HandlerSound
  BY HandlerKinds DEF Init, HandlerSound
<1>4. PoolBalanced
  <2>1. DOMAIN pending = {}
    BY DEF Init
  <2> QED
    BY <2>1, FS_EmptySet, LookupAssumption DEF Init, PoolBalanced, LookupAssumption
<1>5. CacheExact
  <2>1. ToSet(cacheList) = {} /\ DOMAIN age = {} /\ Len(cacheList) = 0 /\ IsInjective(cacheList)
    BY DEF Init, ToSet, IsInjective
  <2> QED
    BY <2>1, LookupAssumption DEF CacheExact, LookupAssumption
<1> QED
  BY <1>1, <1>2, <1>3, <1>4, <1>5 DEF LookupInv

-----------------------------------------------------------------------------
(* Every step keeps it.                                                    *)

(* What stays when the requests and the calls do.                          *)
LEMMA SameRequests ==
    ASSUME LookupInv, UNCHANGED <<pending, pool, asked, handler, lookups>>
    PROVE  /\ HandlerSound' /\ CallsSound' /\ AskedSound' /\ PoolBalanced' /\ AnsweredOnce'
           /\ Remembers
<1>1. HandlerSound' /\ AskedSound' /\ PoolBalanced' /\ AnsweredOnce'
  BY DEF LookupInv, HandlerSound, AskedSound, PoolBalanced, AnsweredOnce, Doomed, pool
<1>2. CallsSound'
  BY DEF LookupInv, CallsSound, CallSound, Answered
<1> QED
  BY <1>1, <1>2 DEF Remembers

LEMMA CallbackReturnsStep == ASSUME LookupInv, CallbackReturns PROVE LookupInv'
<1> USE DEF CallbackReturns
<1>1. HandlerSound' /\ CallsSound' /\ AskedSound' /\ PoolBalanced' /\ AnsweredOnce' /\ Remembers
  BY SameRequests
<1>2. stack' \in Seq(Frames) /\ StackSound'
  BY <1>1, StackPopped DEF LookupInv, Running, Returns, cache
<1>3. TypeOK'
  BY <1>2 DEF LookupInv, TypeOK, pool, cache
<1>4. CacheExact'
  BY DEF LookupInv, CacheExact, cache
<1> QED
  BY <1>1, <1>2, <1>3, <1>4 DEF LookupInv

LEMMA TouchStep == ASSUME LookupInv, Touch PROVE LookupInv'
<1> USE DEF Touch
<1>1. HandlerSound' /\ CallsSound' /\ AskedSound' /\ PoolBalanced' /\ AnsweredOnce' /\ Remembers
  BY SameRequests
<1>2. stack' \in Seq(Frames) /\ StackSound'
  BY <1>1, StackPopped DEF LookupInv, Running, Returns
<1>3. Head(stack).host \in DOMAIN age
  <2>1. stack \in Seq(Frames) /\ stack # << >>
    BY DEF LookupInv, TypeOK, Running
  <2>2. Head(stack) = stack[1] /\ 1 \in DOMAIN stack
    BY <2>1, Popped
  <2>3. FrameSound(stack[1])
    BY <2>2 DEF LookupInv, StackSound
  <2> QED
    BY <2>2, <2>3 DEF FrameSound, Running
<1>4. /\ cacheList' \in Seq(Hosts) /\ IsInjective(cacheList')
      /\ ToSet(cacheList') = DOMAIN age /\ Len(cacheList') <= CacheSize
  <2>1. PICK h \in DOMAIN age : h = Head(stack).host
    BY <1>3
  <2>2. cacheList' = <<h>> \o Minus(cacheList, {h})
    BY <2>1
  <2> QED
    BY <2>2, TouchKeepsCache DEF LookupInv
<1>5. TypeOK'
  BY <1>2, <1>4 DEF LookupInv, TypeOK, pool
<1>6. CacheExact'
  BY <1>4 DEF CacheExact
<1> QED
  BY <1>1, <1>2, <1>5, <1>6 DEF LookupInv

(* A new call, and what it says of the others.                             *)
LEMMA OthersKept ==
    ASSUME LookupInv, ThisCall \notin DOMAIN lookups,
           DOMAIN lookups' = DOMAIN lookups \cup {ThisCall},
           \A c \in DOMAIN lookups : lookups'[c] = lookups[c],
           lookups'[ThisCall].callbacks = (IF lookups'[ThisCall].refused THEN 0 ELSE 1)
             \/ lookups'[ThisCall].callbacks = 0,
           Doomed => Doomed', \A q : Answered(q) => Answered(q)',
           NEW Same, Same \subseteq DOMAIN pending, Same \subseteq DOMAIN pending',
           \A q \in Same : pending'[q] = pending[q]
    PROVE  AnsweredOnce' /\ \A q \in Same : CallSound(q)'
<1>1. AnsweredOnce'
  BY DEF LookupInv, AnsweredOnce
<1>2. \A q \in Same : CallSound(q)'
  BY DEF LookupInv, CallsSound, CallSound
<1> QED
  BY <1>1, <1>2

LEMMA ResolveFromCacheStep ==
    ASSUME LookupInv, NEW host \in Hosts, ResolveFromCache(host) PROVE LookupInv'
<1> USE DEF ResolveFromCache
<1>1. TypeOK /\ StackSound /\ CacheExact
  BY DEF LookupInv
<1>2. Len(lookups) < MaxLookups /\ Called(host, NoQid, 1, FALSE)
  BY DEF MayLookUp
<1>3. /\ lookups' \in Seq(Lookup)
      /\ DOMAIN lookups' = DOMAIN lookups \cup {ThisCall}
      /\ ThisCall \in 1 .. MaxLookups /\ ThisCall \notin DOMAIN lookups
      /\ \A c \in DOMAIN lookups : lookups'[c] = lookups[c]
      /\ lookups'[ThisCall].host = host /\ lookups'[ThisCall].qid = NoQid
      /\ lookups'[ThisCall].callbacks = 1 /\ lookups'[ThisCall].refused = FALSE
      /\ Remembers
  BY <1>1, <1>2, CallMade
<1>4. PICK d : d = Callback(ThisCall, host)
  OBVIOUS
<1>5. PICK e : e = [pc |-> "touch", host |-> host]
  OBVIOUS
<1>6. d \in Frames /\ d.pc = "callback" /\ d.call = ThisCall /\ d.answer = host
  BY <1>3, <1>4, FrameKinds DEF Callback
<1>7. e \in Frames /\ e.pc = "touch" /\ e.host = host
  BY <1>5, FrameKinds
<1>8. FrameSound(d)' /\ FrameSound(e)'
  BY <1>3, <1>6, <1>7 DEF FrameSound, Cached, cache
<1>9. stack' \in Seq(Frames) /\ StackSound'
  <2>1. stack' = <<d, e>> \o stack
    BY <1>4, <1>5
  <2> QED
    BY <1>1, <1>3, <1>6, <1>7, <1>8, <2>1, StackPushedTwo DEF cache
<1>10. TypeOK'
  BY <1>1, <1>3, <1>9 DEF TypeOK, pool, cache
<1>11. AnsweredOnce' /\ \A q \in DOMAIN pending : CallSound(q)'
  BY <1>3, OthersKept DEF Doomed, Answered
<1>12. CallsSound' /\ HandlerSound'
  BY <1>11 DEF LookupInv, CallsSound, HandlerSound
<1>13. AskedSound'
  BY <1>3 DEF LookupInv, AskedSound, Remembers
<1>14. PoolBalanced' /\ CacheExact'
  BY DEF LookupInv, PoolBalanced, CacheExact, pool, cache
<1> QED
  BY <1>9, <1>10, <1>11, <1>12, <1>13, <1>14 DEF LookupInv

(* The handler goes on with what a new request left it.                    *)
LEMMA ResumedSound ==
    ASSUME TypeOK, HandlerSound, NEW sent \in BOOLEAN, NEW met \in SUBSET Qids,
           handler' = Resumed(sent, met),
           DOMAIN pending' = IF sent THEN DOMAIN pending \cup {nextQid}
                             ELSE DOMAIN pending \ {nextQid}
    PROVE  /\ handler' \in Handlers /\ HandlerSound'
           /\ Doomed => Doomed'
           /\ \A q : Answered(q) => Answered(q)'
<1>1. handler \in Handlers
  BY DEF TypeOK
<1>2. CASE handler' = Crash
  BY <1>2, HandlerKinds DEF HandlerSound, Doomed, Answered
<1>3. CASE handler' = handler /\ handler.pc # "scan" /\ (handler.pc = "done" => handler.qid # nextQid \/ sent)
  <2>1. HandlerSound'
    BY <1>3 DEF HandlerSound
  <2> QED
    BY <1>1, <1>3, <2>1 DEF Doomed, Answered
<1>4. ASSUME handler.pc = "scan", NEW left,
             left = IF Grows THEN met \cap (handler.due \ {handler.at}) ELSE handler.todo \ {nextQid},
             handler' = [handler EXCEPT !.due = @ \ {nextQid}, !.todo = left]
      PROVE  /\ handler' \in Handlers /\ HandlerSound'
             /\ Doomed => Doomed'
             /\ \A q : Answered(q) => Answered(q)'
  <2>1. PICK due, todo, given_up, at, twice :
           /\ due = handler.due /\ todo = handler.todo /\ given_up = handler.given_up
           /\ at = handler.at /\ twice = handler.twice
    OBVIOUS
  <2>2. /\ due \in SUBSET Qids /\ todo \in SUBSET Qids /\ given_up \in SUBSET Qids
        /\ at \in Qids \cup {NoQid} /\ twice \in BOOLEAN
        /\ handler = Walk(due, todo, given_up, at, twice)
    BY <1>1, <1>4, <2>1, HandlerTypes
  <2>3. due \subseteq DOMAIN pending /\ todo \subseteq due
    BY <1>4, <2>1 DEF HandlerSound
  <2>4. left \subseteq due \ {nextQid}
    BY <1>4, <2>1, <2>3 DEF Grows, Overwrites
  <2>5. handler' = Walk(due \ {nextQid}, left, given_up, at, twice)
    <3>1. PICK rest : rest = due \ {nextQid}
      OBVIOUS
    <3>2. [handler EXCEPT !.due = rest, !.todo = left] = Walk(rest, left, given_up, at, twice)
      <4>1. PICK w : w = [handler EXCEPT !.due = rest]
        OBVIOUS
      <4>2. w = Walk(rest, todo, given_up, at, twice)
        BY <2>2, <4>1 DEF Walk
      <4>3. [w EXCEPT !.todo = left] = Walk(rest, left, given_up, at, twice)
        BY <4>2 DEF Walk
      <4> QED
        BY <4>1, <4>3
    <3>3. handler' = [handler EXCEPT !.due = rest, !.todo = left]
      BY <1>4, <2>1, <3>1
    <3> QED
      BY <3>1, <3>2, <3>3
  <2>6. /\ handler' \in Handlers /\ handler'.pc = "scan"
        /\ handler'.due = due \ {nextQid} /\ handler'.todo = left
        /\ handler'.given_up = given_up /\ handler'.twice = twice
    <3>1. due \ {nextQid} \in SUBSET Qids /\ left \in SUBSET Qids
      BY <2>2, <2>4
    <3>2. PICK due2 : due2 = due \ {nextQid}
      OBVIOUS
    <3> QED
      BY <2>2, <2>5, <3>1, <3>2, WalkFields
  <2>7. handler # Crash
    BY <1>4, HandlerKinds
  <2>8. HandlerSound'
    BY <2>3, <2>4, <2>6 DEF HandlerSound
  <2> QED
    BY <1>4, <2>1, <2>6, <2>7, <2>8 DEF Doomed, Answered
<1>5. \/ handler' = Crash
      \/ handler' = handler /\ handler.pc # "scan" /\ (handler.pc = "done" => handler.qid # nextQid \/ sent)
      \/ /\ handler.pc = "scan"
         /\ \E left : /\ left = IF Grows THEN met \cap (handler.due \ {handler.at})
                                ELSE handler.todo \ {nextQid}
                      /\ handler' = [handler EXCEPT !.due = @ \ {nextQid}, !.todo = left]
  BY DEF Resumed
<1> QED
  BY <1>2, <1>3, <1>4, <1>5

(* A lookup that goes out takes a request of the pool, and the next id.    *)
LEMMA ResolveStep == ASSUME LookupInv, NEW host \in Hosts, Resolve(host) PROVE LookupInv'
<1> USE DEF Resolve
<1>1. TypeOK /\ StackSound /\ HandlerSound /\ CallsSound /\ AskedSound /\ CacheExact
      /\ PoolBalanced /\ AnsweredOnce
  BY DEF LookupInv
<1>2. Len(lookups) < MaxLookups /\ UNCHANGED <<age, cacheList, fdOpen>>
  BY DEF MayLookUp, cache
<1>3. nextQid \in Qids /\ nextQid' \in Qids
  BY <1>1, LookupAssumption DEF TypeOK, Qids, NextQid, LookupAssumption
<1>4. CacheExact'
  BY <1>1, <1>2 DEF CacheExact
<1>5. ASSUME NEW n \in Nat, NEW refused \in BOOLEAN, Called(host, nextQid, n, refused)
      PROVE  /\ lookups' \in Seq(Lookup)
             /\ DOMAIN lookups' = DOMAIN lookups \cup {ThisCall}
             /\ ThisCall \in 1 .. MaxLookups /\ ThisCall \notin DOMAIN lookups
             /\ \A c \in DOMAIN lookups : lookups'[c] = lookups[c]
             /\ lookups'[ThisCall].host = host /\ lookups'[ThisCall].qid = nextQid
             /\ lookups'[ThisCall].callbacks = n /\ lookups'[ThisCall].refused = refused
             /\ Remembers
  BY <1>1, <1>2, <1>3, <1>5, CallMade
<1>6. CASE Called(host, nextQid, 0, TRUE)
           /\ UNCHANGED <<pending, buckets, pool, asked, stack, handler>>
  <2>1. /\ lookups' \in Seq(Lookup)
        /\ DOMAIN lookups' = DOMAIN lookups \cup {ThisCall}
        /\ ThisCall \notin DOMAIN lookups
        /\ \A c \in DOMAIN lookups : lookups'[c] = lookups[c]
        /\ lookups'[ThisCall].callbacks = 0
        /\ Remembers
    BY <1>5, <1>6
  <2>2. StackSound'
    BY <1>1, <1>2, <1>6, <2>1, StackKept
  <2>3. TypeOK'
    BY <1>1, <1>2, <1>3, <1>6, <2>1 DEF TypeOK, pool
  <2>4. AnsweredOnce' /\ \A q \in DOMAIN pending : CallSound(q)'
    BY <1>6, <2>1, OthersKept DEF Doomed, Answered
  <2>5. CallsSound' /\ HandlerSound' /\ PoolBalanced'
    BY <1>1, <1>6, <2>4 DEF CallsSound, HandlerSound, PoolBalanced, pool
  <2>6. AskedSound'
    BY <1>1, <1>6, <2>1 DEF AskedSound, Remembers
  <2> QED
    BY <1>4, <2>2, <2>3, <2>4, <2>5, <2>6 DEF LookupInv
<1>7. ASSUME free > 0,
             IF Grows THEN buckets' \in SizeAbove(buckets) ELSE UNCHANGED buckets,
             leaked' = IF Overwrites THEN leaked + 1 ELSE leaked,
             NEW sent \in BOOLEAN, NEW met \in SUBSET Qids, handler' = Resumed(sent, met),
             asked' = AskedWith(nextQid, host, sent),
             IF sent
             THEN /\ pending' = With(pending, nextQid, [call |-> ThisCall, host |-> host,
                                                        retries |-> 0])
                  /\ free' = free - 1
                  /\ Called(host, nextQid, 0, FALSE)
                  /\ UNCHANGED stack
             ELSE /\ pending' = Without(pending, {nextQid})
                  /\ Called(host, nextQid, 1, FALSE)
                  /\ stack' = <<Callback(ThisCall, None)>> \o stack
                  /\ UNCHANGED free
      PROVE  LookupInv'
  <2> DEFINE r == [call |-> ThisCall, host |-> host, retries |-> 0]
  <2>1. /\ lookups' \in Seq(Lookup)
        /\ DOMAIN lookups' = DOMAIN lookups \cup {ThisCall}
        /\ ThisCall \in 1 .. MaxLookups /\ ThisCall \notin DOMAIN lookups
        /\ \A c \in DOMAIN lookups : lookups'[c] = lookups[c]
        /\ lookups'[ThisCall].host = host /\ lookups'[ThisCall].qid = nextQid
        /\ lookups'[ThisCall].callbacks = (IF sent THEN 0 ELSE 1)
        /\ ~lookups'[ThisCall].refused
        /\ Remembers
    BY <1>5, <1>7
  <2>2. r \in Request /\ r.call = ThisCall /\ r.host = host
    BY <2>1, LookupAssumption DEF Request, LookupAssumption
  <2>3. sent => pending' = With(pending, nextQid, r)
    BY <1>7
  <2> HIDE DEF r
  <2>4. /\ DOMAIN pending' = IF sent THEN DOMAIN pending \cup {nextQid}
                             ELSE DOMAIN pending \ {nextQid}
        /\ \A q \in DOMAIN pending \ {nextQid} : q \in DOMAIN pending' /\ pending'[q] = pending[q]
        /\ sent => pending'[nextQid] = r
    BY <1>7, <2>3 DEF With, Without
  <2>5. /\ handler' \in Handlers /\ HandlerSound'
        /\ Doomed => Doomed'
        /\ \A q : Answered(q) => Answered(q)'
    BY <1>1, <1>7, <2>4, ResumedSound
  <2>6. stack' \in Seq(Frames) /\ StackSound'
    <3>1. CASE sent
      BY <1>1, <1>2, <1>7, <2>1, <3>1, StackKept DEF TypeOK
    <3>2. CASE ~sent
      <4>1. PICK d : d = Callback(ThisCall, None)
        OBVIOUS
      <4>2. d \in Frames /\ d.pc = "callback" /\ d.call = ThisCall /\ d.answer = None
        BY <2>1, <4>1, FrameKinds DEF Callback
      <4>3. FrameSound(d)'
        BY <2>1, <4>2 DEF FrameSound
      <4> QED
        BY <1>1, <1>2, <1>7, <2>1, <3>2, <4>1, <4>2, <4>3, StackPushed
    <3> QED
      BY <3>1, <3>2
  <2>7. /\ AnsweredOnce'
        /\ \A q \in DOMAIN pending \ {nextQid} : CallSound(q)'
    <3>1. PICK Same : Same = DOMAIN pending \ {nextQid}
      OBVIOUS
    <3>2. /\ Same \subseteq DOMAIN pending /\ Same \subseteq DOMAIN pending'
          /\ \A q \in Same : pending'[q] = pending[q]
      BY <2>4, <3>1
    <3> QED
      BY <2>1, <2>5, <3>1, <3>2, OthersKept
  <2>8. ASSUME NEW q, q = nextQid, sent PROVE CallSound(q)'
    <3>1. pending'[q] = r /\ r.call = ThisCall /\ r.host = host
      BY <2>2, <2>4, <2>8
    <3> QED
      BY <2>1, <2>8, <3>1 DEF CallSound
  <2>9. CallsSound'
    <3>1. ASSUME NEW q \in DOMAIN pending' PROVE CallSound(q)'
      <4>1. q \in DOMAIN pending \ {nextQid} \/ (q = nextQid /\ sent)
        BY <2>4
      <4> QED
        BY <2>7, <2>8, <4>1
    <3> QED
      BY <3>1 DEF CallsSound
  <2>10. asked' \subseteq asked \cup {[qid |-> nextQid, host |-> host]}
    BY <1>7 DEF AskedWith
  <2>11. AskedSound'
    <3>1. ASSUME NEW a \in asked
          PROVE  \E d \in DOMAIN lookups' : lookups'[d].qid = a.qid /\ lookups'[d].host = a.host
      BY <1>1, <2>1 DEF AskedSound
    <3>2. ASSUME NEW a, a = [qid |-> nextQid, host |-> host]
          PROVE  \E d \in DOMAIN lookups' : lookups'[d].qid = a.qid /\ lookups'[d].host = a.host
      BY <2>1, <3>2
    <3> QED
      BY <2>10, <3>1, <3>2 DEF AskedSound
  <2>12. free' \in Nat /\ leaked' \in Nat /\ PoolBalanced'
    <3>1. IsFiniteSet(DOMAIN pending)
      BY <1>1, QidsFinite DEF TypeOK
    <3>2. Cardinality(DOMAIN pending) \in Nat /\ free \in Nat /\ leaked \in Nat
      BY <1>1, <3>1, FS_CardinalityType DEF TypeOK
    <3>3. Cardinality(DOMAIN pending \cup {nextQid})
             = IF Overwrites THEN Cardinality(DOMAIN pending) ELSE Cardinality(DOMAIN pending) + 1
      BY <3>1, FS_AddElement DEF Overwrites
    <3>4. Cardinality(DOMAIN pending \ {nextQid})
             = IF Overwrites THEN Cardinality(DOMAIN pending) - 1 ELSE Cardinality(DOMAIN pending)
      BY <3>1, FS_RemoveElement DEF Overwrites
    <3>5. Cardinality(DOMAIN pending')
             = Cardinality(DOMAIN pending) + (IF sent THEN 1 ELSE 0) - (IF Overwrites THEN 1 ELSE 0)
      BY <2>4, <3>2, <3>3, <3>4
    <3>6. /\ leaked' = leaked + (IF Overwrites THEN 1 ELSE 0)
          /\ free' = free - (IF sent THEN 1 ELSE 0)
      <4>1. leaked' = leaked + (IF Overwrites THEN 1 ELSE 0)
        BY <1>7, <3>2
      <4>2. CASE sent
        BY <1>7, <4>1, <4>2
      <4>3. CASE ~sent
        <5>1. free' = free
          BY <1>7, <4>3
        <5> QED
          BY <3>2, <4>1, <4>3, <5>1
      <4> QED
        BY <4>2, <4>3
    <3>7. free + Cardinality(DOMAIN pending) + leaked = PoolSize
      BY <1>1 DEF PoolBalanced
    <3>8. free' \in Nat /\ leaked' \in Nat
      BY <1>7, <3>2, <3>6
    <3>9. free' + Cardinality(DOMAIN pending') + leaked' = PoolSize
      BY <3>2, <3>5, <3>6, <3>7
    <3> QED
      BY <3>8, <3>9 DEF PoolBalanced
  <2>13. TypeOK'
    <3>1. DOMAIN pending' \subseteq Qids /\ \A q \in DOMAIN pending' : pending'[q] \in Request
      BY <1>1, <1>3, <2>2, <2>4 DEF TypeOK
    <3>2. asked' \subseteq [qid: Qids, host: Hosts]
      BY <1>1, <1>3, <2>10 DEF TypeOK
    <3>3. buckets' \in Sizes
      BY <1>1, <1>7 DEF TypeOK, SizeAbove
    <3> QED
      BY <1>1, <1>2, <1>3, <2>1, <2>5, <2>6, <2>12, <3>1, <3>2, <3>3 DEF TypeOK
  <2> QED
    BY <1>4, <2>5, <2>6, <2>7, <2>9, <2>11, <2>12, <2>13 DEF LookupInv
<1>8. CASE /\ free > 0
           /\ IF Grows THEN buckets' \in SizeAbove(buckets) ELSE UNCHANGED buckets
           /\ leaked' = IF Overwrites THEN leaked + 1 ELSE leaked
           /\ \E sent \in Outcomes :
                 /\ asked' = AskedWith(nextQid, host, sent)
                 /\ \E met \in SUBSET Qids : handler' = Resumed(sent, met)
                 /\ IF sent
                    THEN /\ pending' = With(pending, nextQid, [call |-> ThisCall, host |-> host,
                                                               retries |-> 0])
                         /\ free' = free - 1
                         /\ Called(host, nextQid, 0, FALSE)
                         /\ UNCHANGED stack
                    ELSE /\ pending' = Without(pending, {nextQid})
                         /\ Called(host, nextQid, 1, FALSE)
                         /\ stack' = <<Callback(ThisCall, None)>> \o stack
                         /\ UNCHANGED free
  <2>1. PICK sent \in Outcomes :
           /\ asked' = AskedWith(nextQid, host, sent)
           /\ \E met \in SUBSET Qids : handler' = Resumed(sent, met)
           /\ IF sent
              THEN /\ pending' = With(pending, nextQid, [call |-> ThisCall, host |-> host,
                                                         retries |-> 0])
                   /\ free' = free - 1
                   /\ Called(host, nextQid, 0, FALSE)
                   /\ UNCHANGED stack
              ELSE /\ pending' = Without(pending, {nextQid})
                   /\ Called(host, nextQid, 1, FALSE)
                   /\ stack' = <<Callback(ThisCall, None)>> \o stack
                   /\ UNCHANGED free
    BY <1>8, Zenon
  <2>2. sent \in BOOLEAN
    BY <1>1 DEF Outcomes, TypeOK
  <2>3. PICK met \in SUBSET Qids : handler' = Resumed(sent, met)
    BY <2>1, Zenon
  <2> QED
    BY <1>7, <1>8, <2>1, <2>2, <2>3, Zenon
<1> QED
  BY <1>6, <1>8, Zenon

-----------------------------------------------------------------------------
(* The same requests, for the same calls and hosts, some of them retried   *)
(* and asked again.                                                        *)
SameCalls == /\ DOMAIN pending' = DOMAIN pending
             /\ \A q \in DOMAIN pending : /\ pending'[q] \in Request
                                          /\ pending'[q].call = pending[q].call
                                          /\ pending'[q].host = pending[q].host
Queries == {[qid |-> q, host |-> pending[q].host] : q \in DOMAIN pending}

LEMMA RetriedSame ==
    ASSUME NEW r \in Request, MayRetry(r)
    PROVE  Retried(r) \in Request /\ Retried(r).call = r.call /\ Retried(r).host = r.host
<1>1. r.retries + 1 \in 0 .. MaxRetries
  BY LookupAssumption DEF Request, MayRetry, LookupAssumption
<1> QED
  BY <1>1 DEF Request, Retried

LEMMA OneRetried ==
    ASSUME TypeOK, NEW q \in DOMAIN pending,
           \/ pending' = pending
           \/ MayRetry(pending[q]) /\ pending' = [pending EXCEPT ![q] = Retried(pending[q])]
    PROVE  SameCalls
<1>1. CASE pending' = pending
  BY <1>1 DEF SameCalls, TypeOK
<1>2. CASE MayRetry(pending[q]) /\ pending' = [pending EXCEPT ![q] = Retried(pending[q])]
  <2>1. pending[q] \in Request
    BY DEF TypeOK
  <2>2. /\ Retried(pending[q]) \in Request
        /\ Retried(pending[q]).call = pending[q].call
        /\ Retried(pending[q]).host = pending[q].host
    BY <1>2, <2>1, RetriedSame
  <2> QED
    BY <1>2, <2>2 DEF SameCalls, TypeOK
<1> QED
  BY <1>1, <1>2

LEMMA AskedAgain ==
    ASSUME LookupInv, SameCalls, asked' \subseteq asked \cup Queries, Remembers, UNCHANGED pool
    PROVE  /\ DOMAIN pending' \subseteq Qids /\ \A q \in DOMAIN pending' : pending'[q] \in Request
           /\ asked' \subseteq [qid: Qids, host: Hosts]
           /\ AskedSound' /\ PoolBalanced'
<1>1. \A q \in DOMAIN pending : q \in Qids /\ pending[q].host \in Hosts
  BY DEF LookupInv, TypeOK, Request
<1>2. asked' \subseteq [qid: Qids, host: Hosts]
  BY <1>1 DEF LookupInv, TypeOK, Queries
<1>3. AskedSound'
  <2>1. ASSUME NEW a \in Queries
        PROVE  \E d \in DOMAIN lookups : lookups[d].qid = a.qid /\ lookups[d].host = a.host
    <3>1. PICK q \in DOMAIN pending : a = [qid |-> q, host |-> pending[q].host]
      BY DEF Queries
    <3>2. PICK d : d = pending[q].call
      OBVIOUS
    <3>3. d \in DOMAIN lookups /\ lookups[d].qid = q /\ lookups[d].host = pending[q].host
      BY <3>2 DEF LookupInv, CallsSound, CallSound
    <3> QED
      BY <3>1, <3>3
  <2>2. ASSUME NEW a \in asked'
        PROVE  \E d \in DOMAIN lookups : lookups[d].qid = a.qid /\ lookups[d].host = a.host
    BY <2>1 DEF LookupInv, AskedSound
  <2>3. ASSUME NEW a \in asked'
        PROVE  \E d \in DOMAIN lookups' : lookups'[d].qid = a.qid /\ lookups'[d].host = a.host
    BY <2>2 DEF Remembers
  <2> QED
    BY <2>3 DEF AskedSound
<1>4. PoolBalanced'
  BY DEF LookupInv, PoolBalanced, SameCalls, pool
<1> QED
  BY <1>1, <1>2, <1>3, <1>4 DEF SameCalls

(* A request that has not been called back is, and it is about to be       *)
(* erased from now on.                                                     *)
LEMMA OneMoreAnswered ==
    ASSUME LookupInv, NEW q \in DOMAIN pending, CalledBack(pending[q].call), SameCalls,
           Answered(q)', \A p : Answered(p) => Answered(p)',
           Answered(q) => Doomed', Doomed => Doomed'
    PROVE  /\ lookups' \in Seq(Lookup)
           /\ pending[q].call \in DOMAIN lookups /\ DOMAIN lookups' = DOMAIN lookups
           /\ Remembers
           /\ CallsSound' /\ AnsweredOnce'
<1>1. TypeOK /\ CallsSound /\ AnsweredOnce
  BY DEF LookupInv
<1>2. PICK c : c = pending[q].call
  OBVIOUS
<1>3. /\ c \in DOMAIN lookups /\ lookups[c].qid = q /\ ~lookups[c].refused
      /\ ~Answered(q) => lookups[c].callbacks = 0
  BY <1>1, <1>2 DEF CallsSound, CallSound
<1>4. /\ lookups' \in Seq(Lookup)
      /\ DOMAIN lookups' = DOMAIN lookups
      /\ \A d \in DOMAIN lookups :
           /\ lookups'[d].refused = lookups[d].refused
           /\ lookups'[d].callbacks = lookups[d].callbacks + (IF d = c THEN 1 ELSE 0)
      /\ Remembers
  BY <1>1, <1>2, <1>3, CallAnswered
<1>5. \A d \in DOMAIN lookups : lookups[d].callbacks \in Nat
  <2>1. \A d \in DOMAIN lookups : lookups[d] \in Lookup
    BY <1>1 DEF TypeOK
  <2> QED
    BY <2>1 DEF Lookup
<1>6. ASSUME NEW p \in DOMAIN pending PROVE CallSound(p)'
  <2>1. PICK d : d = pending[p].call
    OBVIOUS
  <2>2. /\ d \in DOMAIN lookups /\ lookups[d].host = pending[p].host
        /\ lookups[d].qid = p /\ ~lookups[d].refused
        /\ ~Answered(p) => lookups[d].callbacks = 0
    BY <1>1, <2>1 DEF CallsSound, CallSound
  <2>3. d = c => p = q
    BY <1>3, <2>2
  <2>4. pending'[p].call = d /\ pending'[p].host = pending[p].host
    BY <2>1 DEF SameCalls
  <2>5. ASSUME ~Answered(p)' PROVE lookups'[d].callbacks = 0
    <3>1. p # q /\ ~Answered(p)
      BY <2>5 DEF Answered
    <3>2. lookups[d].callbacks = 0 /\ d # c
      BY <2>2, <2>3, <3>1
    <3> QED
      BY <1>4, <2>2, <3>2
  <2> QED
    BY <1>4, <2>2, <2>4, <2>5 DEF CallSound, Remembers
<1>7. CallsSound'
  BY <1>6 DEF CallsSound, SameCalls
<1>8. AnsweredOnce'
  BY <1>1, <1>3, <1>4, <1>5 DEF AnsweredOnce
<1> QED
  BY <1>2, <1>3, <1>4, <1>7, <1>8

LEMMA GivenUp ==
    ASSUME LookupInv, AtRest, NEW q \in DOMAIN pending, NEW answer \in Hosts \cup {None},
           answer # None => \E a \in asked : a.qid = q /\ a.host = answer,
           GiveUp(q, answer), SameCalls
    PROVE  /\ stack' \in Seq(Frames) /\ StackSound'
           /\ handler' \in Handlers /\ HandlerSound'
           /\ lookups' \in Seq(Lookup) /\ Remembers
           /\ CallsSound' /\ AnsweredOnce'
<1>1. TypeOK /\ CallsSound /\ q \in Qids
  BY DEF LookupInv, TypeOK
<1>2. PICK c : c = pending[q].call
  OBVIOUS
<1>3. c \in DOMAIN lookups /\ lookups[c].qid = q /\ c \in 1 .. MaxLookups
  BY <1>1, <1>2 DEF CallsSound, CallSound, TypeOK, Request
<1>4. handler' \in Handlers /\ handler'.pc = "done" /\ handler'.qid = q
  BY <1>1, HandlerKinds DEF GiveUp
<1>5. Answered(q)' /\ (\A p : ~Answered(p)) /\ ~Doomed
  BY <1>4, NobodyAnswered DEF Answered
<1>6. /\ lookups' \in Seq(Lookup) /\ Remembers
      /\ DOMAIN lookups' = DOMAIN lookups
      /\ CallsSound' /\ AnsweredOnce'
  BY <1>5, OneMoreAnswered DEF GiveUp
<1>7. HandlerSound'
  BY <1>4 DEF HandlerSound, SameCalls
<1>8. PICK d : d = Callback(c, answer)
  OBVIOUS
<1>9. d \in Frames /\ d.pc = "callback" /\ d.call = c /\ d.answer = answer
  BY <1>3, <1>8, FrameKinds DEF Callback
<1>10. FrameSound(d)'
  <2>1. CASE answer = None
    BY <1>3, <1>6, <1>9, <2>1 DEF FrameSound
  <2>2. CASE answer # None
    <3>1. PICK a \in asked : a.qid = q /\ a.host = answer
      BY <2>2
    <3>2. PICK e \in DOMAIN lookups : lookups[e].qid = q /\ lookups[e].host = answer
      BY <3>1 DEF LookupInv, AskedSound
    <3>3. q # NoQid
      BY <1>1 DEF Qids, NoQid
    <3>4. e \in SameId(c)' /\ lookups'[e].host = answer
      BY <1>3, <1>6, <3>2, <3>3 DEF SameId, Remembers
    <3> QED
      BY <1>3, <1>6, <1>9, <3>4 DEF FrameSound
  <2> QED
    BY <2>1, <2>2
<1>11. stack' = <<d>>
  BY <1>2, <1>8 DEF GiveUp
<1> QED
  BY <1>4, <1>6, <1>7, <1>9, <1>10, <1>11, StackOfOne

(* Nobody is answered.                                                     *)
LEMMA CallsKept ==
    ASSUME LookupInv, SameCalls, UNCHANGED lookups,
           \A q : Answered(q) => Answered(q)', Doomed => Doomed'
    PROVE  CallsSound' /\ AnsweredOnce' /\ Remembers
<1>1. \A q \in DOMAIN pending : CallSound(q)'
  BY DEF LookupInv, CallsSound, CallSound, SameCalls
<1> QED
  BY <1>1 DEF LookupInv, CallsSound, AnsweredOnce, SameCalls, Remembers

LEMMA AnswerArrivesStep ==
    ASSUME LookupInv, NEW a \in asked, AnswerArrives(a) PROVE LookupInv'
<1> USE DEF AnswerArrives
<1>1. TypeOK /\ CacheExact
  BY DEF LookupInv
<1>2. /\ a.qid \in DOMAIN pending /\ a.host \in Hosts /\ pending[a.qid].host \in Hosts
  BY <1>1 DEF TypeOK, Request
<1>3. SameCalls
  BY <1>1 DEF SameCalls, TypeOK
<1>4. /\ stack' \in Seq(Frames) /\ StackSound'
      /\ handler' \in Handlers /\ HandlerSound'
      /\ lookups' \in Seq(Lookup) /\ Remembers
      /\ CallsSound' /\ AnsweredOnce'
  BY <1>2, <1>3, GivenUp
<1>5. /\ cacheList' \in Seq(Hosts)
      /\ DOMAIN age' \subseteq Hosts /\ \A g \in DOMAIN age' : age'[g] \in Ages
      /\ CacheExact'
  BY <1>1, <1>2, UpdateKeepsCache
<1>6. AskedSound' /\ PoolBalanced'
  BY <1>3, <1>4, AskedAgain
<1>7. TypeOK'
  BY <1>1, <1>4, <1>5 DEF TypeOK, pool
<1> QED
  BY <1>4, <1>5, <1>6, <1>7 DEF LookupInv

LEMMA ErrorArrivesStep ==
    ASSUME LookupInv, NEW a \in asked, ErrorArrives(a) PROVE LookupInv'
<1> DEFINE q == a.qid
<1> USE DEF ErrorArrives
<1>1. TypeOK /\ CacheExact /\ StackSound
  BY DEF LookupInv
<1>2. /\ q \in DOMAIN pending /\ AtRest
      /\ UNCHANGED <<buckets, free, leaked, nextQid, age, cacheList, fdOpen>>
  BY DEF pool, cache
<1>3. CacheExact'
  BY <1>1, <1>2 DEF CacheExact
<1>4. SameCalls
  <2>1. \/ pending' = pending
        \/ MayRetry(pending[q]) /\ pending' = [pending EXCEPT ![q] = Retried(pending[q])]
    BY <1>2
  <2> QED
    BY <1>1, <1>2, <2>1, OneRetried
<1>5. asked' \subseteq asked \cup Queries
  <2>1. [qid |-> q, host |-> pending[q].host] \in Queries
    BY <1>2 DEF Queries
  <2> QED
    BY <2>1 DEF AskedWith
<1>6. \/ GiveUp(q, None)
      \/ UNCHANGED <<stack, handler, lookups>>
  BY DEF AskedWith
<1>7. /\ stack' \in Seq(Frames) /\ StackSound'
      /\ handler' \in Handlers /\ HandlerSound'
      /\ lookups' \in Seq(Lookup) /\ Remembers
      /\ CallsSound' /\ AnsweredOnce'
  <2>1. CASE GiveUp(q, None)
    BY <1>2, <1>4, <2>1, GivenUp
  <2>2. CASE UNCHANGED <<stack, handler, lookups>>
    <3>1. CallsSound' /\ AnsweredOnce' /\ Remembers
      BY <1>4, <2>2, CallsKept DEF Answered, Doomed
    <3>2. StackSound'
      BY <1>1, <1>2, <2>2, <3>1, StackKept
    <3>3. HandlerSound'
      BY <1>4, <2>2 DEF LookupInv, HandlerSound, SameCalls
    <3> QED
      BY <1>1, <2>2, <3>1, <3>2, <3>3 DEF TypeOK
  <2> QED
    BY <1>6, <2>1, <2>2
<1>8. /\ DOMAIN pending' \subseteq Qids /\ \A p \in DOMAIN pending' : pending'[p] \in Request
      /\ asked' \subseteq [qid: Qids, host: Hosts]
      /\ AskedSound' /\ PoolBalanced'
  BY <1>2, <1>4, <1>5, <1>7, AskedAgain DEF pool
<1>9. TypeOK'
  BY <1>1, <1>2, <1>7, <1>8 DEF TypeOK
<1> QED
  BY <1>3, <1>7, <1>8, <1>9 DEF LookupInv

(* Steps that only retry, forget queries or let time pass.                 *)
LEMMA QuietStep ==
    ASSUME LookupInv, SameCalls, asked' \subseteq asked \cup Queries, fdOpen' \in BOOLEAN,
           DOMAIN age' = DOMAIN age, \A h \in DOMAIN age' : age'[h] \in Ages,
           UNCHANGED <<buckets, pool, nextQid, cacheList, stack, handler, lookups>>
    PROVE  LookupInv'
<1>1. CallsSound' /\ AnsweredOnce' /\ Remembers
  BY CallsKept DEF Answered, Doomed
<1>2. StackSound'
  BY <1>1, StackKept DEF LookupInv
<1>3. HandlerSound'
  BY DEF LookupInv, HandlerSound, SameCalls
<1>4. /\ DOMAIN pending' \subseteq Qids /\ \A p \in DOMAIN pending' : pending'[p] \in Request
      /\ asked' \subseteq [qid: Qids, host: Hosts]
      /\ AskedSound' /\ PoolBalanced'
  BY <1>1, AskedAgain
<1>5. CacheExact'
  BY DEF LookupInv, CacheExact
<1>6. TypeOK'
  BY <1>4 DEF LookupInv, TypeOK, pool
<1> QED
  BY <1>1, <1>2, <1>3, <1>4, <1>5, <1>6 DEF LookupInv

LEMMA ReadFailsStep == ASSUME LookupInv, ReadFails PROVE LookupInv'
<1> USE DEF ReadFails
<1>1. TypeOK
  BY DEF LookupInv
<1>2. SameCalls
  <2> SUFFICES ASSUME NEW q \in DOMAIN pending
               PROVE  /\ pending'[q] \in Request
                      /\ pending'[q].call = pending[q].call
                      /\ pending'[q].host = pending[q].host
    BY DEF SameCalls
  <2>1. pending[q] \in Request
    BY <1>1 DEF TypeOK
  <2>2. CASE MayRetry(pending[q])
    <3>1. pending'[q] = Retried(pending[q])
      BY <2>2
    <3> QED
      BY <2>1, <2>2, <3>1, RetriedSame
  <2>3. CASE ~MayRetry(pending[q])
    BY <2>1, <2>3
  <2> QED
    BY <2>2, <2>3
<1>3. asked' \subseteq asked \cup Queries
  BY DEF Queries
<1> QED
  BY <1>1, <1>2, <1>3, QuietStep DEF TypeOK, cache

LEMMA SocketErrorStep == ASSUME LookupInv, SocketError PROVE LookupInv'
<1>1. TypeOK
  BY DEF LookupInv
<1>2. SameCalls
  BY <1>1 DEF SameCalls, SocketError, TypeOK
<1> QED
  BY <1>1, <1>2, QuietStep DEF TypeOK, SocketError, cache

LEMMA AgeingStep == ASSUME LookupInv, NEW h \in Hosts, Ageing(h) PROVE LookupInv'
<1>1. TypeOK
  BY DEF LookupInv
<1>2. SameCalls
  BY <1>1 DEF SameCalls, Ageing, TypeOK
<1>3. DOMAIN age' = DOMAIN age /\ \A g \in DOMAIN age' : age'[g] \in Ages
  BY <1>1 DEF TypeOK, Ageing, Ages
<1> QED
  BY <1>1, <1>2, <1>3, QuietStep DEF TypeOK, Ageing

(* Requests are erased and go back to the pool.                            *)
LEMMA Erased ==
    ASSUME LookupInv, NEW S \in SUBSET DOMAIN pending,
           pending' = Without(pending, S), free' = free + Cardinality(S),
           handler' = Idle, handler # Crash, ~Doomed, \A q : Answered(q) => q \in S,
           UNCHANGED <<leaked, asked, lookups>>
    PROVE  /\ DOMAIN pending' \subseteq Qids /\ \A q \in DOMAIN pending' : pending'[q] \in Request
           /\ free' \in Nat /\ leaked' \in Nat /\ handler' \in Handlers
           /\ HandlerSound' /\ CallsSound' /\ AskedSound' /\ PoolBalanced' /\ AnsweredOnce'
<1>1. TypeOK /\ CallsSound /\ AskedSound /\ PoolBalanced /\ AnsweredOnce
  BY DEF LookupInv
<1>2. /\ DOMAIN pending' = DOMAIN pending \ S
      /\ \A q \in DOMAIN pending' : pending'[q] = pending[q]
  BY DEF Without
<1>3. DOMAIN pending' \subseteq Qids /\ \A q \in DOMAIN pending' : pending'[q] \in Request
  BY <1>1, <1>2 DEF TypeOK
<1>4. /\ IsFiniteSet(DOMAIN pending) /\ IsFiniteSet(S)
      /\ Cardinality(S) \in Nat /\ Cardinality(DOMAIN pending) \in Nat
      /\ free \in Nat /\ leaked \in Nat
      /\ Cardinality(DOMAIN pending') = Cardinality(DOMAIN pending) - Cardinality(S)
  <2>1. IsFiniteSet(DOMAIN pending) /\ IsFiniteSet(S)
    BY <1>1, QidsFinite DEF TypeOK
  <2>2. DOMAIN pending \cap S = S
    OBVIOUS
  <2>3. Cardinality(DOMAIN pending') = Cardinality(DOMAIN pending) - Cardinality(S)
    BY <1>2, <2>1, <2>2, FS_Difference
  <2> QED
    BY <1>1, <2>1, <2>3, FS_CardinalityType DEF TypeOK
<1>5. free' \in Nat /\ leaked' \in Nat /\ PoolBalanced'
  <2>1. free + Cardinality(DOMAIN pending) + leaked = PoolSize
    BY <1>1 DEF PoolBalanced
  <2>2. free' \in Nat /\ leaked' \in Nat /\ free' + Cardinality(DOMAIN pending') + leaked' = PoolSize
    BY <1>4, <2>1
  <2> QED
    BY <2>2 DEF PoolBalanced
<1>6. handler' \in Handlers /\ HandlerSound'
  BY HandlerKinds DEF HandlerSound
<1>7. ASSUME NEW q \in DOMAIN pending' PROVE CallSound(q)'
  <2>1. q \in DOMAIN pending /\ ~Answered(q) /\ CallSound(q)
    BY <1>1, <1>2 DEF CallsSound
  <2> QED
    BY <1>2, <2>1 DEF CallSound
<1>8. CallsSound' /\ AskedSound' /\ AnsweredOnce'
  BY <1>1, <1>7 DEF CallsSound, AskedSound, AnsweredOnce
<1> QED
  BY <1>3, <1>5, <1>6, <1>8

LEMMA DoneStep == ASSUME LookupInv, Done PROVE LookupInv'
<1> USE DEF Done
<1>1. TypeOK /\ StackSound /\ CacheExact /\ HandlerSound
  BY DEF LookupInv
<1>2. handler.pc = "done" /\ handler # Crash /\ ~Doomed
  BY HandlerKinds DEF Handling, Doomed
<1>3. PICK S : S = {handler.qid}
  OBVIOUS
<1>4. S \in SUBSET DOMAIN pending /\ \A q : Answered(q) => q \in S
  BY <1>1, <1>2, <1>3 DEF HandlerSound, Answered
<1>5. free' = free + Cardinality(S)
  BY <1>3, FS_Singleton
<1>6. /\ DOMAIN pending' \subseteq Qids /\ \A q \in DOMAIN pending' : pending'[q] \in Request
      /\ free' \in Nat /\ leaked' \in Nat /\ handler' \in Handlers
      /\ HandlerSound' /\ CallsSound' /\ AskedSound' /\ PoolBalanced' /\ AnsweredOnce'
  BY <1>2, <1>3, <1>4, <1>5, Erased
<1>7. StackSound'
  <2>1. Remembers
    BY DEF Remembers
  <2> QED
    BY <1>1, <2>1, StackKept DEF cache
<1>8. TypeOK'
  BY <1>1, <1>6 DEF TypeOK, cache
<1>9. CacheExact'
  BY <1>1 DEF CacheExact, cache
<1> QED
  BY <1>6, <1>7, <1>8, <1>9 DEF LookupInv

LEMMA ScanEndsStep == ASSUME LookupInv, ScanEnds PROVE LookupInv'
<1> USE DEF ScanEnds
<1>1. TypeOK /\ StackSound /\ CacheExact
  BY DEF LookupInv
<1>2. handler.pc = "scan" /\ handler # Crash /\ ~Doomed /\ stack = << >>
  BY HandlerKinds DEF Handling, Doomed
<1>3. PICK S : S = handler.given_up
  OBVIOUS
<1>4. S \in SUBSET DOMAIN pending /\ \A q : Answered(q) => q \in S
  BY <1>2, <1>3 DEF Answered
<1>5. /\ DOMAIN pending' \subseteq Qids /\ \A q \in DOMAIN pending' : pending'[q] \in Request
      /\ free' \in Nat /\ leaked' \in Nat /\ handler' \in Handlers
      /\ HandlerSound' /\ CallsSound' /\ AskedSound' /\ PoolBalanced' /\ AnsweredOnce'
  BY <1>2, <1>3, <1>4, Erased
<1>6. stack' \in Seq(Frames) /\ StackSound'
  BY <1>2, StackEmpty
<1>7. DOMAIN age' = DOMAIN age \ Old /\ \A h \in DOMAIN age' : age'[h] = age[h]
  BY DEF Without
<1>8. cacheList \in Seq(Hosts) /\ IsInjective(cacheList) /\ ToSet(cacheList) = DOMAIN age
      /\ Len(cacheList) <= CacheSize
  BY <1>1 DEF TypeOK, CacheExact
<1>9. /\ cacheList' \in Seq(Hosts) /\ IsInjective(cacheList')
      /\ ToSet(cacheList') = DOMAIN age \ Old /\ Len(cacheList') <= Len(cacheList)
  <2>1. PICK list : list = Minus(cacheList, Old)
    OBVIOUS
  <2>2. /\ list \in Seq(Hosts) /\ IsInjective(list)
        /\ ToSet(list) = DOMAIN age \ Old /\ Len(list) <= Len(cacheList)
    BY <1>8, <2>1, MinusProperties
  <2>3. cacheList' = list
    BY <2>1
  <2> QED
    BY <2>2, <2>3
<1>10. TypeOK'
  BY <1>1, <1>5, <1>6, <1>7, <1>9 DEF TypeOK
<1>11. CacheExact'
  <2>1. Len(cacheList') \in Nat /\ Len(cacheList) \in Nat /\ CacheSize \in Nat
    BY <1>8, <1>9, LookupAssumption DEF LookupAssumption
  <2>2. Len(cacheList') <= CacheSize
    BY <1>8, <1>9, <2>1
  <2> QED
    BY <1>7, <1>9, <2>2 DEF CacheExact
<1> QED
  BY <1>5, <1>6, <1>10, <1>11 DEF LookupInv

(* Steps of the handler that change nothing else.                          *)
LEMMA HandlerOnly ==
    ASSUME LookupInv, handler' \in Handlers, HandlerSound',
           \A q : Answered(q) => Answered(q)', Doomed => Doomed',
           UNCHANGED <<pending, buckets, pool, nextQid, cache, fdOpen, asked, stack, lookups>>
    PROVE  LookupInv'
<1>1. SameCalls
  BY DEF SameCalls, LookupInv, TypeOK
<1>2. CallsSound' /\ AnsweredOnce' /\ Remembers
  BY <1>1, CallsKept
<1>3. StackSound'
  BY <1>2, StackKept DEF LookupInv, cache
<1>4. AskedSound' /\ PoolBalanced'
  BY <1>1, <1>2, AskedAgain
<1>5. TypeOK' /\ CacheExact'
  BY DEF LookupInv, TypeOK, CacheExact, pool, cache
<1> QED
  BY <1>2, <1>3, <1>4, <1>5 DEF LookupInv

LEMMA ScanFailsStep == ASSUME LookupInv, ScanFails PROVE LookupInv'
<1>1. handler' \in Handlers /\ HandlerSound' /\ Doomed' /\ \A q : Answered(q)'
  BY HandlerKinds DEF ScanFails, HandlerSound, Doomed, Answered
<1> QED
  BY <1>1, HandlerOnly DEF ScanFails

LEMMA MaintenanceStep ==
    ASSUME LookupInv, NEW due, Maintenance(due) PROVE LookupInv'
<1>1. due \in SUBSET Qids /\ due \subseteq DOMAIN pending /\ AtRest
  BY DEF LookupInv, TypeOK, Maintenance
<1>2. handler' = Walk(due, due, {}, NoQid, FALSE)
  BY DEF Maintenance, Walk
<1>3. handler' \in Handlers /\ handler'.pc = "scan" /\ handler'.due = due /\ handler'.todo = due
  <2>1. PICK none, at, twice : none = {} /\ at = NoQid /\ twice = FALSE
    OBVIOUS
  <2>2. none \in SUBSET Qids /\ at \in Qids \cup {NoQid} /\ twice \in BOOLEAN
    BY <2>1
  <2>3. PICK w : w = Walk(due, due, none, at, twice)
    OBVIOUS
  <2>4. w \in Handlers /\ w.pc = "scan" /\ w.due = due /\ w.todo = due
    BY <1>1, <2>2, <2>3, WalkFields
  <2> QED
    BY <1>2, <2>1, <2>3, <2>4
<1>4. HandlerSound'
  BY <1>1, <1>3 DEF HandlerSound, Maintenance
<1>5. (\A q : ~Answered(q)) /\ ~Doomed
  BY <1>1, NobodyAnswered
<1> QED
  BY <1>3, <1>4, <1>5, HandlerOnly DEF Maintenance

(* The walk asks again, or gives up and remembers that it did.             *)
LEMMA ScanRequestStep == ASSUME LookupInv, ScanRequest PROVE LookupInv'
<1>1. TypeOK /\ StackSound /\ CacheExact /\ HandlerSound
  BY DEF LookupInv
<1>2. handler.pc = "scan" /\ stack = << >> /\ handler # Crash
  BY HandlerKinds DEF ScanRequest, Handling
<1>3. PICK due, todo, given_up, at, twice :
         /\ due = handler.due /\ todo = handler.todo /\ given_up = handler.given_up
         /\ at = handler.at /\ twice = handler.twice
  OBVIOUS
<1>4. /\ due \in SUBSET Qids /\ todo \in SUBSET Qids /\ given_up \in SUBSET Qids
      /\ at \in Qids \cup {NoQid} /\ twice \in BOOLEAN
      /\ handler = Walk(due, todo, given_up, at, twice)
      /\ due \subseteq DOMAIN pending /\ todo \subseteq due
  <2>1. handler \in Handlers
    BY <1>1 DEF TypeOK
  <2>2. due \subseteq DOMAIN pending /\ todo \subseteq due
    BY <1>1, <1>2, <1>3 DEF HandlerSound
  <2> QED
    BY <1>2, <1>3, <2>1, <2>2, HandlerTypes
<1> DEFINE past(q) == [handler EXCEPT !.todo = @ \ {q}, !.at = q]
           again(q) == [past(q) EXCEPT !.due = @ \ {q}]
<1>5. PICK q \in todo :
         \/ /\ MayRetry(pending[q])
            /\ pending' = [pending EXCEPT ![q] = Retried(@)]
            /\ \E sent \in Outcomes :
                  /\ asked' = AskedWith(q, pending[q].host, sent)
                  /\ IF sent THEN handler' = again(q) /\ UNCHANGED <<stack, lookups>>
                     ELSE GivesUp(q, again(q))
         \/ /\ ~MayRetry(pending[q])
            /\ GivesUp(q, past(q))
            /\ UNCHANGED <<pending, asked>>
  BY <1>3 DEF ScanRequest
<1>6. UNCHANGED <<buckets, free, leaked, nextQid, age, cacheList, fdOpen>>
  BY DEF ScanRequest, pool, cache
<1>7. q \in DOMAIN pending /\ q \in Qids /\ pending[q] \in Request
  BY <1>1, <1>4, <1>5 DEF TypeOK
<1>8. /\ past(q) = Walk(due, todo \ {q}, given_up, q, twice)
      /\ again(q) = Walk(due \ {q}, todo \ {q}, given_up, q, twice)
  <2>1. PICK todo2, due2 : todo2 = todo \ {q} /\ due2 = due \ {q}
    OBVIOUS
  <2>2. past(q) = [handler EXCEPT !.todo = todo2, !.at = q]
    BY <1>3, <2>1
  <2>3. past(q) = Walk(due, todo2, given_up, q, twice)
    <3>1. PICK w : w = [handler EXCEPT !.todo = todo2]
      OBVIOUS
    <3>2. w = Walk(due, todo2, given_up, at, twice)
      BY <1>4, <3>1 DEF Walk
    <3>3. [w EXCEPT !.at = q] = Walk(due, todo2, given_up, q, twice)
      BY <3>2 DEF Walk
    <3> HIDE DEF past
    <3> QED
      BY <2>2, <3>1, <3>3
  <2> HIDE DEF past
  <2>4. past(q).due = due
    BY <2>3 DEF Walk
  <2>5. again(q) = [past(q) EXCEPT !.due = due2]
    BY <2>1, <2>4
  <2>6. again(q) = Walk(due2, todo2, given_up, q, twice)
    BY <2>3, <2>5 DEF Walk
  <2> QED
    BY <2>1, <2>3, <2>6
<1>9. /\ \/ pending' = pending
         \/ MayRetry(pending[q]) /\ pending' = [pending EXCEPT ![q] = Retried(pending[q])]
      /\ \/ \E w \in {past(q), again(q)} : GivesUp(q, w)
         \/ handler' = again(q) /\ UNCHANGED <<stack, lookups>>
  BY <1>5
<1>10. asked' \subseteq asked \cup Queries
  <2>1. [qid |-> q, host |-> pending[q].host] \in Queries
    BY <1>7 DEF Queries
  <2> QED
    BY <1>5, <2>1 DEF AskedWith
<1> HIDE DEF past, again
<1>11. SameCalls
  BY <1>1, <1>7, <1>9, OneRetried
<1>12. /\ todo \ {q} \in SUBSET Qids /\ due \ {q} \in SUBSET Qids /\ given_up \cup {q} \in SUBSET Qids
       /\ q \in Qids \cup {NoQid}
  BY <1>4, <1>7
<1>13. ASSUME NEW w \in {past(q), again(q)}
       PROVE  \E rest \in SUBSET due : /\ w = Walk(rest, todo \ {q}, given_up, q, twice)
                                       /\ todo \ {q} \subseteq rest
  <2>1. todo \ {q} \subseteq due /\ todo \ {q} \subseteq due \ {q}
    BY <1>4
  <2> QED
    BY <1>8, <2>1
<1>14. /\ stack' \in Seq(Frames) /\ StackSound'
       /\ handler' \in Handlers /\ HandlerSound'
       /\ lookups' \in Seq(Lookup) /\ Remembers
       /\ CallsSound' /\ AnsweredOnce'
  <2>1. CASE handler' = again(q) /\ UNCHANGED <<stack, lookups>>
    <3>1. PICK rest \in SUBSET due : /\ again(q) = Walk(rest, todo \ {q}, given_up, q, twice)
                                     /\ todo \ {q} \subseteq rest
      BY <1>13
    <3>2. /\ handler' \in Handlers /\ handler'.pc = "scan"
          /\ handler'.due = rest /\ handler'.todo = todo \ {q}
          /\ handler'.given_up = given_up /\ handler'.twice = twice
      <4>1. PICK todo2 : todo2 = todo \ {q}
        OBVIOUS
      <4>2. rest \in SUBSET Qids
        BY <1>4
      <4> QED
        BY <1>4, <1>12, <2>1, <3>1, <4>1, <4>2, WalkFields
    <3>3. HandlerSound'
      BY <1>4, <1>11, <3>1, <3>2 DEF HandlerSound, SameCalls
    <3>4. (\A p : Answered(p) => Answered(p)') /\ (Doomed => Doomed')
      BY <1>2, <1>3, <3>2 DEF Answered, Doomed
    <3>5. CallsSound' /\ AnsweredOnce' /\ Remembers
      BY <1>11, <2>1, <3>4, CallsKept
    <3>6. StackSound'
      BY <1>1, <1>6, <2>1, <3>5, StackKept
    <3> QED
      BY <1>1, <2>1, <3>2, <3>3, <3>5, <3>6 DEF TypeOK
  <2>2. ASSUME NEW w \in {past(q), again(q)}, GivesUp(q, w)
        PROVE  /\ stack' \in Seq(Frames) /\ StackSound'
               /\ handler' \in Handlers /\ HandlerSound'
               /\ lookups' \in Seq(Lookup) /\ Remembers
               /\ CallsSound' /\ AnsweredOnce'
    <3>1. PICK rest \in SUBSET due : /\ w = Walk(rest, todo \ {q}, given_up, q, twice)
                                     /\ todo \ {q} \subseteq rest
      BY <1>13
    <3>2. PICK todo2, given2, twice2 : /\ todo2 = todo \ {q} /\ given2 = given_up \cup {q}
                                       /\ twice2 = (twice \/ q \in given_up)
      OBVIOUS
    <3>3. rest \in SUBSET Qids /\ todo2 \in SUBSET Qids /\ given2 \in SUBSET Qids /\ twice2 \in BOOLEAN
      BY <1>4, <1>12, <3>2
    <3>4. handler' = Walk(rest, todo2, given2, q, twice2)
      <4>1. handler' = [w EXCEPT !.given_up = @ \cup {q}, !.twice = @ \/ q \in w.given_up]
        BY <2>2 DEF GivesUp
      <4>2. w = Walk(rest, todo2, given_up, q, twice)
        BY <3>1, <3>2
      <4> QED
        BY <3>2, <4>1, <4>2 DEF Walk
    <3>5. /\ handler' \in Handlers /\ handler'.pc = "scan"
          /\ handler'.due = rest /\ handler'.todo = todo2
          /\ handler'.given_up = given2 /\ handler'.twice = twice2
      BY <1>12, <3>3, <3>4, WalkFields
    <3>6. HandlerSound'
      BY <1>4, <1>11, <3>1, <3>2, <3>5 DEF HandlerSound, SameCalls
    <3>7. /\ Answered(q)'
          /\ \A p : Answered(p) => Answered(p)'
          /\ Answered(q) => Doomed'
          /\ Doomed => Doomed'
      BY <1>2, <1>3, <3>2, <3>5 DEF Answered, Doomed
    <3>8. /\ lookups' \in Seq(Lookup) /\ Remembers
          /\ pending[q].call \in DOMAIN lookups /\ DOMAIN lookups' = DOMAIN lookups
          /\ CallsSound' /\ AnsweredOnce'
      <4>1. CalledBack(pending[q].call)
        BY <2>2 DEF GivesUp
      <4> QED
        BY <1>7, <1>11, <3>7, <4>1, OneMoreAnswered
    <3>9. PICK d : d = Callback(pending[q].call, None)
      OBVIOUS
    <3>10. d \in Frames /\ d.pc = "callback" /\ d.call = pending[q].call /\ d.answer = None
      BY <1>7, <3>9, FrameKinds DEF Callback, Request
    <3>11. FrameSound(d)'
      BY <3>8, <3>10 DEF FrameSound
    <3>12. stack' = <<d>>
      BY <2>2, <3>9 DEF GivesUp
    <3>13. stack' \in Seq(Frames) /\ StackSound'
      BY <3>10, <3>11, <3>12, StackOfOne
    <3> QED
      BY <3>5, <3>6, <3>8, <3>13
  <2> QED
    BY <1>9, <2>1, <2>2
<1>15. /\ DOMAIN pending' \subseteq Qids /\ \A p \in DOMAIN pending' : pending'[p] \in Request
       /\ asked' \subseteq [qid: Qids, host: Hosts]
       /\ AskedSound' /\ PoolBalanced'
  BY <1>6, <1>10, <1>11, <1>14, AskedAgain DEF pool
<1>16. TypeOK'
  BY <1>1, <1>6, <1>14, <1>15 DEF TypeOK
<1>17. CacheExact'
  BY <1>1, <1>6 DEF CacheExact
<1> QED
  BY <1>14, <1>15, <1>16, <1>17 DEF LookupInv

-----------------------------------------------------------------------------
(* The invariant holds, and with it what is promised of the resolver.      *)
LEMMA LookupStep == LookupInv /\ [Next]_vars => LookupInv'
<1> SUFFICES ASSUME LookupInv, [Next]_vars PROVE LookupInv'
  OBVIOUS
<1>1. CASE HandlerStep
  BY <1>1, TouchStep, DoneStep, ScanRequestStep, ScanEndsStep, ScanFailsStep DEF HandlerStep
<1>2. CASE CallbackReturns
  BY <1>2, CallbackReturnsStep
<1>3. ASSUME NEW due \in SUBSET DOMAIN pending, Maintenance(due) PROVE LookupInv'
  BY <1>3, MaintenanceStep
<1>4. ASSUME NEW host \in Hosts, Resolve(host) \/ ResolveFromCache(host) \/ Ageing(host)
      PROVE  LookupInv'
  BY <1>4, ResolveStep, ResolveFromCacheStep, AgeingStep
<1>5. ASSUME NEW a \in asked, AnswerArrives(a) \/ ErrorArrives(a) PROVE LookupInv'
  BY <1>5, AnswerArrivesStep, ErrorArrivesStep
<1>6. CASE ReadFails \/ SocketError
  BY <1>6, ReadFailsStep, SocketErrorStep
<1>7. CASE UNCHANGED vars
  <2>1. SameCalls
    BY <1>7 DEF vars, SameCalls, LookupInv, TypeOK
  <2> QED
    BY <1>7, <2>1, QuietStep DEF vars, LookupInv, TypeOK, cache
<1> QED
  BY <1>1, <1>2, <1>3, <1>4, <1>5, <1>6, <1>7 DEF Next

THEOREM LookupInvariant == Spec => []LookupInv
<1> QED
  BY LookupInit, LookupStep, PTL DEF Spec

(* The variables keep their types.                                         *)
THEOREM LookupTypes == Spec => []TypeOK
<1>1. LookupInv => TypeOK
  BY DEF LookupInv
<1> QED
  BY <1>1, LookupInvariant, PTL

(* Requests are lost to the pool only when their id comes round while they *)
(* are pending, and are never handed out or released twice.                *)
THEOREM PoolStaysBalanced == Spec => []PoolBalanced
<1>1. LookupInv => PoolBalanced
  BY DEF LookupInv
<1> QED
  BY <1>1, LookupInvariant, PTL

(* The list and the map of the cache always agree, within its size.        *)
THEOREM CacheStaysExact == Spec => []CacheExact
<1>1. LookupInv => CacheExact
  BY DEF LookupInv
<1> QED
  BY <1>1, LookupInvariant, PTL

(* No call of resolve is called back twice, but by a walk that meets a     *)
(* request again because the table grew, at whose end the program ends.    *)
THEOREM NobodyAnsweredTwice == Spec => []AnsweredOnce
<1>1. LookupInv => AnsweredOnce
  BY DEF LookupInv
<1> QED
  BY <1>1, LookupInvariant, PTL

(* A callback gets addresses of the host it asked for, or of a host that   *)
(* was asked for under the same id.                                        *)
THEOREM AnswersAreRight == Spec => []RightAnswer
<1>1. LookupInv => RightAnswer
  BY DEF LookupInv, StackSound, FrameSound, RightAnswer
<1> QED
  BY <1>1, LookupInvariant, PTL
=============================================================================
