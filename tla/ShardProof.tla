----------------------------- MODULE ShardProof ------------------------------
(***************************************************************************)
(* Theorems about Shard: for any intervals, any number of timers and calls,*)
(* and however late the reactor is.                                        *)
(***************************************************************************)
EXTENDS Shard, WellFoundedInduction, FiniteSetTheorems, TLAPS

Moments == -MaxLate .. Off - 1
TimerRecords == [interval : Intervals, nextExpiration : Moments, singleShot : BOOLEAN]

(* The types of the manager; onTick starts in the present and may take     *)
(* time.                                                                   *)
ManagerType ==
    /\ m_nextId \in Nat
    /\ DOMAIN m_timers \subseteq 0 .. m_nextId - 1
    /\ m_timers \in [DOMAIN m_timers -> TimerRecords]
    /\ armed \in Int
    /\ callback \in Nat \cup {TheTimer, Nobody}
    /\ now \in -MaxLate .. 0 \cup {Off}

(* A callback of the manager runs inside onTick, for a timer that is there.*)
CallbackKnown == callback \in Nat => callback \in DOMAIN m_timers /\ now # Off

ManagerInv == ManagerType /\ CallbackKnown /\ OneExpiration /\ ArmedForFirst

-----------------------------------------------------------------------------
(* A set of integers with a lower bound has a least element.               *)
NatLess == OpToRel(<, Nat)

LEMMA NatLessIs == \A k, n \in Nat : k < n => <<k, n>> \in NatLess
BY DEF NatLess, OpToRel

LEMMA LeastExists ==
    ASSUME NEW S \in SUBSET Int, S # {}, NEW b \in Int, \A x \in S : b <= x
    PROVE  \E m \in S : \A x \in S : m <= x
<1> DEFINE T == {x - b : x \in S}
<1>1. T \subseteq Nat
  <2> SUFFICES ASSUME NEW x \in S PROVE x - b \in Nat
    OBVIOUS
  <2> x \in Int /\ b <= x
    OBVIOUS
  <2> QED
    OBVIOUS
<1>2. T # {}
  OBVIOUS
<1>3. PICK n \in T : \A k \in T : ~(<<k, n>> \in NatLess)
  BY <1>1, <1>2, NatLessThanWellFounded, WFMin DEF NatLess
<1>4. ASSUME NEW k \in T PROVE n <= k
  <2>1. n \in Nat /\ k \in Nat /\ ~(k < n)
    BY <1>1, <1>3, NatLessIs
  <2> QED
    BY <2>1
<1>5. PICK m \in S : n = m - b
  BY <1>3
<1>6. ASSUME NEW x \in S PROVE m <= x
  <2>1. x - b \in T
    OBVIOUS
  <2>2. m - b <= x - b
    BY <1>4, <1>5, <2>1
  <2>3. \A i, j, k \in Int : i - k <= j - k => i <= j
    OBVIOUS
  <2> QED
    BY <2>2, <2>3, S \subseteq Int
<1> QED
  BY <1>6

(* The first of some expirations, which are no moments too far away.       *)
Timed(E) == \A e \in E : e[1] \in Moments

LEMMA FirstLeast ==
    ASSUME NEW E, E # {}, Timed(E)
    PROVE  /\ First(E) \in Moments
           /\ \A e \in E : First(E) <= e[1]
           /\ \E e \in E : First(E) = e[1]
<1> USE TimersAssumption DEF TimersAssumption
<1> DEFINE S == {e[1] : e \in E}
<1>1. S \subseteq Moments /\ S # {}
  BY DEF Timed
<1>2. S \in SUBSET Int /\ -MaxLate \in Int /\ \A x \in S : -MaxLate <= x
  BY <1>1 DEF Moments, Off
<1>3. \E m \in S : \A x \in S : m <= x
  BY <1>1, <1>2, LeastExists
<1>4. First(E) \in S /\ \A x \in S : First(E) <= x
  BY <1>3 DEF First, Min
<1> QED
  BY <1>1, <1>4

(* Expire leaves the timerfd set as ArmedForFirst has it.                  *)
LEMMA ExpireArms ==
    ASSUME NEW E, Timed(E), Expire(E)
    PROVE  armed' \in Int /\ ArmedForFirst'
<1>1. E # {} => First(E) \in Int
  BY FirstLeast, TimersAssumption DEF Moments, Off, TimersAssumption
<1>2. armed' \in Int
  BY <1>1 DEF Expire, Armed, Off
<1>3. ArmedForFirst'
  BY DEF Expire, Armed, ArmedForFirst, First, Off
<1> QED
  BY <1>2, <1>3

LEMMA ExpirationsTimed == ManagerInv => Timed(m_expirations)
BY DEF ManagerInv, ManagerType, OneExpiration, Timed, TimerRecords

-----------------------------------------------------------------------------
LEMMA ManagerInit == Init => ManagerInv
<1> SUFFICES ASSUME Init PROVE ManagerInv
  OBVIOUS
<1>0. /\ m_timers = << >> /\ m_expirations = {} /\ m_nextId = 0
      /\ armed = Off /\ callback = Nobody /\ now = Off
  BY DEF Init, TimersInit
<1>1. DOMAIN m_timers = {} /\ m_timers \in [DOMAIN m_timers -> TimerRecords]
  BY <1>0
<1>2. ManagerType
  BY <1>0, <1>1 DEF ManagerType, Off, Nobody
<1>3. CallbackKnown /\ OneExpiration /\ ArmedForFirst
  BY <1>0, <1>1 DEF CallbackKnown, OneExpiration, ArmedForFirst, Nobody
<1> QED
  BY <1>2, <1>3 DEF ManagerInv

(* What leaves the manager alone, callbacks of others included.            *)
LEMMA ManagerUnchanged ==
    ASSUME ManagerInv, UNCHANGED managerVars, UNCHANGED now,
           callback' = callback \/ (callback \notin Nat /\ callback' \in {TheTimer, Nobody})
    PROVE  ManagerInv'
<1> USE DEF managerVars
<1>1. ManagerType' /\ CallbackKnown'
  BY DEF ManagerInv, ManagerType, CallbackKnown, TheTimer, Nobody
<1>2. DOMAIN m_timers \ {callback} = DOMAIN m_timers \ {callback'}
  BY DEF ManagerInv, ManagerType, TheTimer, Nobody
<1>3. OneExpiration'
  BY <1>2 DEF ManagerInv, OneExpiration
<1>4. ArmedForFirst'
  BY DEF ManagerInv, ArmedForFirst
<1> QED
  BY <1>1, <1>3, <1>4 DEF ManagerInv

LEMMA AddTimerKeeps ==
    ASSUME ManagerInv, NEW interval \in Intervals, NEW singleShot \in BOOLEAN,
           AddTimer(interval, singleShot), UNCHANGED <<callback, now>>
    PROVE  ManagerInv'
<1> DEFINE t == [interval |-> interval, nextExpiration |-> interval, singleShot |-> singleShot]
           E == m_expirations \cup {<<interval, m_nextId>>}
<1> USE TimersAssumption DEF TimersAssumption
<1>0. /\ m_nextId \in Nat /\ m_nextId' = m_nextId + 1 /\ m_nextId \notin DOMAIN m_timers
      /\ m_timers' = Put(m_timers, m_nextId, t) /\ Expire(E)
  BY DEF AddTimer, ManagerInv, ManagerType
<1>1. interval \in Moments /\ t \in TimerRecords
  BY DEF TimerRecords, Moments, Off
<1>2. /\ DOMAIN m_timers' = DOMAIN m_timers \cup {m_nextId}
      /\ m_timers'[m_nextId] = t
      /\ \A id \in DOMAIN m_timers : m_timers'[id] = m_timers[id]
  BY <1>0 DEF Put
<1>3. Timed(E)
  BY <1>1, ExpirationsTimed DEF Timed
<1>4. armed' \in Int /\ ArmedForFirst'
  BY <1>0, <1>3, ExpireArms
<1>5. m_timers' \in [DOMAIN m_timers' -> TimerRecords]
  BY <1>0, <1>1, <1>2 DEF Put, ManagerInv, ManagerType
<1>6. ManagerType' /\ CallbackKnown'
  BY <1>0, <1>2, <1>4, <1>5 DEF ManagerInv, ManagerType, CallbackKnown
<1>7. callback # m_nextId
  BY <1>0 DEF ManagerInv, CallbackKnown
<1>8. DOMAIN m_timers' \ {callback} = (DOMAIN m_timers \ {callback}) \cup {m_nextId}
  BY <1>2, <1>7
<1>9. OneExpiration'
  BY <1>0, <1>2, <1>8 DEF ManagerInv, OneExpiration, Expire
<1> QED
  BY <1>4, <1>6, <1>9 DEF ManagerInv

LEMMA RemoveTimerKeeps ==
    ASSUME ManagerInv, NEW id \in Ids, RemoveTimer(id), UNCHANGED <<callback, now>>
    PROVE  ManagerInv'
<1> DEFINE E == m_expirations \ {<<m_timers[id].nextExpiration, id>>}
<1>0. /\ id \in DOMAIN m_timers /\ id # callback /\ UNCHANGED m_nextId
      /\ m_timers' = Dropped(m_timers, id) /\ Expire(E)
  BY DEF RemoveTimer, Known
<1>1. /\ DOMAIN m_timers' = DOMAIN m_timers \ {id}
      /\ \A i \in DOMAIN m_timers \ {id} : m_timers'[i] = m_timers[i]
  BY <1>0 DEF Dropped
<1>2. armed' \in Int /\ ArmedForFirst'
  BY <1>0, ExpirationsTimed, ExpireArms DEF Timed
<1>3. m_timers' \in [DOMAIN m_timers' -> TimerRecords]
  BY <1>0, <1>1 DEF Dropped, ManagerInv, ManagerType
<1>4. ManagerType' /\ CallbackKnown'
  BY <1>0, <1>1, <1>2, <1>3 DEF ManagerInv, ManagerType, CallbackKnown
<1>5. OneExpiration'
  BY <1>0, <1>1 DEF ManagerInv, OneExpiration, Expire
<1> QED
  BY <1>2, <1>4, <1>5 DEF ManagerInv

LEMMA SetIntervalKeeps ==
    ASSUME ManagerInv, NEW id \in Ids, NEW interval \in Intervals,
           SetInterval(id, interval), UNCHANGED <<callback, now>>
    PROVE  ManagerInv'
<1> DEFINE E == (m_expirations \ {<<m_timers[id].nextExpiration, id>>}) \cup {<<interval, id>>}
<1> USE TimersAssumption DEF TimersAssumption
<1>0. /\ id \in DOMAIN m_timers /\ id # callback /\ UNCHANGED m_nextId
      /\ m_timers' = [m_timers EXCEPT ![id].interval = interval, ![id].nextExpiration = interval]
      /\ Expire(E)
  BY DEF SetInterval, Known
<1>1. interval \in Moments
  BY DEF Moments, Off
<1>t. m_timers[id] \in TimerRecords
  BY <1>0 DEF ManagerInv, ManagerType
<1>2. /\ DOMAIN m_timers' = DOMAIN m_timers
      /\ m_timers'[id].nextExpiration = interval
      /\ m_timers'[id] \in TimerRecords
      /\ \A i \in DOMAIN m_timers \ {id} : m_timers'[i] = m_timers[i]
  BY <1>0, <1>1, <1>t DEF TimerRecords
<1>3. Timed(E)
  BY <1>1, ExpirationsTimed DEF Timed
<1>4. armed' \in Int /\ ArmedForFirst'
  BY <1>0, <1>3, ExpireArms
<1>5. m_timers' \in [DOMAIN m_timers' -> TimerRecords]
  BY <1>0, <1>2 DEF ManagerInv, ManagerType
<1>6. ManagerType' /\ CallbackKnown'
  BY <1>0, <1>2, <1>4, <1>5 DEF ManagerInv, ManagerType, CallbackKnown
<1>7. OneExpiration'
  BY <1>0, <1>2 DEF ManagerInv, OneExpiration, Expire
<1> QED
  BY <1>4, <1>6, <1>7 DEF ManagerInv

-----------------------------------------------------------------------------
(* The steps of onTick.                                                    *)
LEMMA OnTickKeeps ==
    ASSUME ManagerInv, OnTick
    PROVE  ManagerInv'
<1> USE TimersAssumption DEF TimersAssumption
<1>1. ManagerType' /\ CallbackKnown'
  BY DEF OnTick, ManagerInv, ManagerType, CallbackKnown, Off
<1>2. OneExpiration' /\ ArmedForFirst'
  BY DEF OnTick, ManagerInv, OneExpiration, ArmedForFirst, Off
<1> QED
  BY <1>1, <1>2 DEF ManagerInv

(* The callback that runs next is that of the expiration taken out, which  *)
(* is due.                                                                 *)
LEMMA NextDueTakes ==
    ASSUME ManagerInv, NextDue
    PROVE  /\ callback' \in DOMAIN m_timers /\ callback = Nobody /\ now # Off
           /\ m_expirations' = m_expirations \ {<<m_timers[callback'].nextExpiration, callback'>>}
           /\ m_timers[callback'].nextExpiration <= now
<1>1. PICK e \in m_expirations : /\ Earliest(e)
                                /\ m_expirations' = m_expirations \ {e}
                                /\ callback' = IF Known(e[2]) THEN e[2] ELSE Nobody
  BY DEF NextDue
<1>2. callback = Nobody /\ now # Off /\ First(m_expirations) <= now
  BY DEF NextDue, Due
<1>3. PICK id \in DOMAIN m_timers : e = <<m_timers[id].nextExpiration, id>>
  BY DEF ManagerInv, OneExpiration
<1>4. callback' = id
  BY <1>1, <1>3 DEF Known
<1>5. First(m_expirations) = m_timers[id].nextExpiration
  <2>1. m_expirations # {} /\ Timed(m_expirations)
    BY <1>1, ExpirationsTimed
  <2>2. PICK d \in m_expirations : First(m_expirations) = d[1]
    BY <2>1, FirstLeast
  <2>3. First(m_expirations) <= e[1]
    BY <2>1, FirstLeast
  <2>4. e[1] <= d[1]
    BY <1>1, <2>1, <2>2 DEF Earliest, Timed, Moments, Off
  <2>5. e[1] \in Int /\ d[1] \in Int
    BY <2>1, TimersAssumption DEF Timed, Moments, Off, TimersAssumption
  <2> QED
    BY <1>3, <2>2, <2>3, <2>4, <2>5
<1> QED
  BY <1>1, <1>2, <1>3, <1>4, <1>5

LEMMA NextDueKeeps ==
    ASSUME ManagerInv, NextDue
    PROVE  ManagerInv'
<1>1. UNCHANGED <<m_timers, m_nextId, armed, now>>
  BY DEF NextDue
<1>2. /\ callback' \in DOMAIN m_timers /\ callback = Nobody /\ now # Off
      /\ m_expirations' = m_expirations \ {<<m_timers[callback'].nextExpiration, callback'>>}
  BY NextDueTakes
<1>3. ManagerType' /\ CallbackKnown'
  BY <1>1, <1>2 DEF ManagerInv, ManagerType, CallbackKnown
<1>4. Nobody \notin DOMAIN m_timers
  BY DEF ManagerInv, ManagerType, Nobody
<1>5. OneExpiration'
  BY <1>1, <1>2, <1>4 DEF ManagerInv, OneExpiration
<1>6. ArmedForFirst'
  BY <1>1, <1>2 DEF ArmedForFirst
<1> QED
  BY <1>3, <1>5, <1>6 DEF ManagerInv

LEMMA CallbackReturnsKeeps ==
    ASSUME ManagerInv, CallbackReturns
    PROVE  ManagerInv'
<1> USE TimersAssumption DEF TimersAssumption
<1> DEFINE t == m_timers[callback]
           next == now + t.interval
<1>1. callback \in DOMAIN m_timers /\ now \in -MaxLate .. 0 /\ Nobody \notin DOMAIN m_timers
  BY DEF CallbackReturns, ManagerInv, ManagerType, CallbackKnown, Ids, Nobody
<1>2. callback' = Nobody /\ UNCHANGED <<m_nextId, armed, now>>
  BY DEF CallbackReturns
<1>3. t \in TimerRecords
  BY <1>1 DEF ManagerInv, ManagerType
<1>4. next \in Moments
  <2>1. t.interval \in 1 .. Off - 1
    BY <1>3 DEF TimerRecords
  <2>2. \A n \in -MaxLate .. 0, i \in 1 .. Off - 1 : n + i \in Moments
    BY DEF Moments, Off
  <2> QED
    BY <1>1, <2>1, <2>2
<1>5. ArmedForFirst'
  BY <1>1, <1>2 DEF ArmedForFirst, Off
<1>6. CASE t.singleShot
  <2>1. m_timers' = Dropped(m_timers, callback) /\ UNCHANGED m_expirations
    BY <1>6 DEF CallbackReturns
  <2>2. /\ DOMAIN m_timers' = DOMAIN m_timers \ {callback}
        /\ \A i \in DOMAIN m_timers \ {callback} : m_timers'[i] = m_timers[i]
    BY <2>1 DEF Dropped
  <2>3. m_timers' \in [DOMAIN m_timers' -> TimerRecords]
    BY <2>1, <2>2 DEF Dropped, ManagerInv, ManagerType
  <2>4. ManagerType' /\ CallbackKnown'
    BY <1>2, <2>2, <2>3 DEF ManagerInv, ManagerType, CallbackKnown, Nobody
  <2>5. OneExpiration'
    BY <1>1, <1>2, <2>1, <2>2 DEF ManagerInv, OneExpiration
  <2> QED
    BY <1>5, <2>4, <2>5 DEF ManagerInv
<1>7. CASE ~t.singleShot
  <2>1. /\ m_timers' = [m_timers EXCEPT ![callback].nextExpiration = next]
        /\ m_expirations' = m_expirations \cup {<<next, callback>>}
    BY <1>7 DEF CallbackReturns
  <2>2. /\ DOMAIN m_timers' = DOMAIN m_timers
        /\ m_timers'[callback].nextExpiration = next /\ m_timers'[callback] \in TimerRecords
        /\ \A i \in DOMAIN m_timers \ {callback} : m_timers'[i] = m_timers[i]
    BY <1>1, <1>3, <1>4, <2>1 DEF TimerRecords
  <2>3. m_timers' \in [DOMAIN m_timers' -> TimerRecords]
    BY <2>1, <2>2 DEF ManagerInv, ManagerType
  <2>4. ManagerType' /\ CallbackKnown'
    BY <1>2, <2>2, <2>3 DEF ManagerInv, ManagerType, CallbackKnown, Nobody
  <2>5. OneExpiration'
    BY <1>1, <1>2, <2>1, <2>2 DEF ManagerInv, OneExpiration
  <2> QED
    BY <1>5, <2>4, <2>5 DEF ManagerInv
<1> QED
  BY <1>6, <1>7

LEMMA TickEndsKeeps ==
    ASSUME ManagerInv, TickEnds
    PROVE  ManagerInv'
<1>1. armed' \in Int /\ ArmedForFirst'
  BY ExpirationsTimed, ExpireArms DEF TickEnds
<1>2. ManagerType' /\ CallbackKnown'
  BY <1>1 DEF TickEnds, ManagerInv, ManagerType, CallbackKnown, Nobody
<1>3. OneExpiration'
  BY DEF TickEnds, Expire, ManagerInv, OneExpiration
<1> QED
  BY <1>1, <1>2, <1>3 DEF ManagerInv

(* Time passes: everything comes nearer by one.                            *)
LEMMA TimePassesKeeps ==
    ASSUME ManagerInv, TimePasses
    PROVE  ManagerInv'
<1> USE TimersAssumption DEF TimersAssumption
<1>1. /\ m_timers' = [id \in DOMAIN m_timers |-> [m_timers[id] EXCEPT !.nextExpiration = @ - 1]]
      /\ m_expirations' = {<<e[1] - 1, e[2]>> : e \in m_expirations}
      /\ armed' = Earlier(armed) /\ now' = Earlier(now)
      /\ UNCHANGED <<m_nextId, callback>>
      /\ now > -MaxLate
      /\ \A e \in m_expirations : e[1] > -MaxLate
      /\ \A id \in DOMAIN m_timers : m_timers[id].nextExpiration > -MaxLate
  BY DEF TimePasses
<1>2. /\ DOMAIN m_timers' = DOMAIN m_timers
      /\ \A id \in DOMAIN m_timers :
            /\ m_timers'[id] \in TimerRecords
            /\ m_timers'[id].nextExpiration = m_timers[id].nextExpiration - 1
  <2>1. ASSUME NEW id \in DOMAIN m_timers
        PROVE  /\ m_timers'[id] \in TimerRecords
               /\ m_timers'[id].nextExpiration = m_timers[id].nextExpiration - 1
    <3>1. m_timers[id] \in TimerRecords /\ m_timers[id].nextExpiration > -MaxLate
      BY <1>1 DEF ManagerInv, ManagerType
    <3>2. m_timers'[id] = [m_timers[id] EXCEPT !.nextExpiration = @ - 1]
      BY <1>1
    <3>3. \A w \in Moments : w > -MaxLate => w - 1 \in Moments
      BY DEF Moments, Off
    <3>4. m_timers[id].nextExpiration - 1 \in Moments
      BY <3>1, <3>3 DEF TimerRecords
    <3> QED
      BY <3>1, <3>2, <3>4 DEF TimerRecords
  <2> QED
    BY <1>1, <2>1
<1>3. m_timers' \in [DOMAIN m_timers' -> TimerRecords]
  BY <1>1, <1>2
<1>4. now' \in -MaxLate .. 0 \cup {Off} /\ (now # Off <=> now' # Off) /\ armed' \in Int
  BY <1>1 DEF ManagerInv, ManagerType, Earlier, Off
<1>5. ManagerType' /\ CallbackKnown'
  BY <1>1, <1>2, <1>3, <1>4 DEF ManagerInv, ManagerType, CallbackKnown
<1>6. OneExpiration'
  <2> DEFINE late == {<<m_timers'[id].nextExpiration, id>> : id \in DOMAIN m_timers \ {callback}}
  <2>1. m_expirations = {<<m_timers[id].nextExpiration, id>> : id \in DOMAIN m_timers \ {callback}}
    BY DEF ManagerInv, OneExpiration
  <2>2. ASSUME NEW f \in m_expirations' PROVE f \in late
    <3>1. PICK e \in m_expirations : f = <<e[1] - 1, e[2]>>
      BY <1>1
    <3>2. PICK id \in DOMAIN m_timers \ {callback} : e = <<m_timers[id].nextExpiration, id>>
      BY <2>1
    <3>3. f = <<m_timers'[id].nextExpiration, id>>
      BY <1>2, <3>1, <3>2
    <3> QED
      BY <3>3
  <2>3. ASSUME NEW id \in DOMAIN m_timers \ {callback}
        PROVE  <<m_timers'[id].nextExpiration, id>> \in m_expirations'
    <3>1. <<m_timers[id].nextExpiration, id>> \in m_expirations
      BY <2>1
    <3>2. <<m_timers[id].nextExpiration - 1, id>> \in m_expirations'
      BY <1>1, <3>1
    <3> QED
      BY <1>2, <3>2
  <2>4. m_expirations' = late
    BY <2>2, <2>3
  <2> QED
    BY <1>1, <1>2, <2>4 DEF OneExpiration
<1>7. ASSUME m_expirations # {} PROVE m_expirations' # {} /\ First(m_expirations') = First(m_expirations) - 1
  <2>1. Timed(m_expirations)
    BY ExpirationsTimed
  <2>2. Timed(m_expirations')
    <3> SUFFICES ASSUME NEW e \in m_expirations PROVE e[1] - 1 \in Moments
      BY <1>1 DEF Timed
    <3>1. e[1] \in Moments /\ e[1] > -MaxLate
      BY <1>1, <2>1 DEF Timed
    <3> QED
      BY <3>1 DEF Moments, Off
  <2>3. m_expirations' # {}
    BY <1>1, <1>7
  <2>4. PICK d \in m_expirations : First(m_expirations) = d[1]
    BY <1>7, <2>1, FirstLeast
  <2>f. PICK f \in m_expirations' : First(m_expirations') = f[1]
    BY <2>2, <2>3, FirstLeast
  <2>5. PICK e \in m_expirations : f = <<e[1] - 1, e[2]>>
    BY <1>1
  <2>g. First(m_expirations') = e[1] - 1
    BY <2>f, <2>5
  <2>6. First(m_expirations) <= e[1]
    BY <1>7, <2>1, FirstLeast
  <2>7. <<d[1] - 1, d[2]>> \in m_expirations'
    BY <1>1
  <2>8. First(m_expirations') <= d[1] - 1
    BY <2>2, <2>3, <2>7, FirstLeast
  <2>9. d[1] \in Int /\ e[1] \in Int
    BY <2>1 DEF Timed, Moments, Off
  <2> QED
    BY <2>3, <2>4, <2>g, <2>6, <2>8, <2>9
<1>8. ArmedForFirst'
  <2> SUFFICES ASSUME now' = Off PROVE ArmedForFirst'
    BY DEF ArmedForFirst
  <2>1. now = Off
    BY <1>4
  <2>2. CASE m_expirations = {}
    BY <1>1, <2>1, <2>2 DEF ManagerInv, ArmedForFirst, Earlier
  <2>3. CASE m_expirations # {}
    <3>1. First(m_expirations) \in Moments
      BY <2>3, ExpirationsTimed, FirstLeast
    <3>2. m_expirations' # {} /\ First(m_expirations') = First(m_expirations) - 1
      BY <1>7, <2>3
    <3>3. IF First(m_expirations) > 0 THEN armed = First(m_expirations) ELSE armed <= 0
      BY <2>1, <2>3 DEF ManagerInv, ArmedForFirst
    <3>4. armed \in Int /\ armed # Off
      BY <3>1, <3>3 DEF ManagerInv, ManagerType, Moments, Off
    <3>5. armed' = armed - 1
      BY <1>1, <3>4 DEF Earlier
    <3>6. IF First(m_expirations') > 0 THEN armed' = First(m_expirations') ELSE armed' <= 0
      <4> DEFINE first == First(m_expirations)
      <4>1. first \in Int
        BY <3>1 DEF Moments, Off
      <4> HIDE DEF first
      <4>2. IF first - 1 > 0 THEN armed - 1 = first - 1 ELSE armed - 1 <= 0
        BY <3>3, <3>4, <4>1 DEF first
      <4> QED
        BY <3>2, <3>5, <4>2 DEF first
    <3> QED
      BY <3>2, <3>6 DEF ArmedForFirst
  <2> QED
    BY <2>2, <2>3
<1> QED
  BY <1>5, <1>6, <1>8 DEF ManagerInv

-----------------------------------------------------------------------------
(* Every step of a shard keeps the invariant of the manager.               *)
LEMMA ManagerStep == ManagerInv /\ [Next]_shardVars => ManagerInv'
<1> SUFFICES ASSUME ManagerInv, [Next]_shardVars PROVE ManagerInv'
  OBVIOUS
<1> USE DEF managerVars, timerVars
<1>1. CASE LoopTest \/ WaitEnds \/ EventsDone \/ SocketEvent \/ Stop \/ UNCHANGED shardVars
  BY <1>1, ManagerUnchanged DEF LoopTest, WaitEnds, EventsDone, SocketEvent, Stop, shardVars
<1>2. CASE HandleEvent
  <2>1. UNCHANGED timerVars \/ OnTick \/ (TimerTick /\ callback = Nobody)
    BY <1>2 DEF HandleEvent, Idle
  <2>2. CASE UNCHANGED timerVars
    BY <2>2, ManagerUnchanged
  <2>3. CASE TimerTick /\ callback = Nobody
    BY <2>3, ManagerUnchanged DEF TimerTick, Nobody
  <2> QED
    BY <2>1, <2>2, <2>3, OnTickKeeps
<1>3. CASE InTimers
  <2>1. CASE TimerReturns
    BY <2>1, ManagerUnchanged DEF TimerReturns, TheTimer
  <2> QED
    BY <1>3, <2>1, NextDueKeeps, CallbackReturnsKeeps, TickEndsKeeps DEF InTimers
<1>4. CASE Application
  <2>1. UNCHANGED <<callback, now>> /\ (ManagerCall \/ TimerCall)
    BY <1>4 DEF Application, Call
  <2>2. CASE TimerCall
    BY <2>1, <2>2, ManagerUnchanged DEF TimerCall
  <2> QED
    BY <2>1, <2>2, AddTimerKeeps, RemoveTimerKeeps, SetIntervalKeeps DEF ManagerCall
<1>5. CASE Clock
  BY <1>5, TimePassesKeeps DEF Clock
<1> QED
  BY <1>1, <1>2, <1>3, <1>4, <1>5 DEF Next, Reactor

(* However timers are added, removed and changed, and from which callbacks *)
(* of other timers, each keeps exactly one expiration                      *)
(* (TimerManager::onTick).                                                 *)
THEOREM OneExpirationEach == Spec => []OneExpiration
<1>1. ManagerInv => OneExpiration
  BY DEF ManagerInv
<1> QED
  BY <1>1, ManagerInit, ManagerStep, PTL DEF Spec

(* Between ticks the timerfd is set for the first expiration, or is due    *)
(* (TimerManager::updateTimerFd).                                          *)
THEOREM TimerfdArmed == Spec => []ArmedForFirst
<1>1. ManagerInv => ArmedForFirst
  BY DEF ManagerInv
<1> QED
  BY <1>1, ManagerInit, ManagerStep, PTL DEF Spec

-----------------------------------------------------------------------------
(* The Timer, and what epoll_wait has reported of it: one event at most,   *)
(* of a generation it has or had; in the one it has, its moment has come,  *)
(* or its interval was changed since.                                      *)
Events == [of : {"manager", "timer"}, gen : Nat]

ATimer == [open : BOOLEAN, gen : Nat, expires : Int, interval : Nat,
           singleShot : BOOLEAN, changed : BOOLEAN]

TimerType == timer \in ATimer /\ batch \in Seq(Events)

Reported(event) ==
    event.of = "timer" =>
        /\ event.gen <= timer.gen
        /\ timer.open /\ event.gen = timer.gen => TimerReadable \/ timer.changed

EventsSound ==
    /\ \A i \in DOMAIN batch : Reported(batch[i])
    /\ \A i, j \in DOMAIN batch : batch[i].of = "timer" /\ batch[j].of = "timer" => i = j

TimerInv == TimerType /\ EventsSound

LEMMA TimerInit == Init => TimerInv
<1> SUFFICES ASSUME Init PROVE TimerInv
  OBVIOUS
<1>1. batch = << >> /\ DOMAIN batch = {} /\ batch \in Seq(Events)
  BY DEF Init
<1>2. TimerType
  BY <1>1 DEF TimerType, Init, TimersInit, StoppedTimer, ATimer, Off
<1> QED
  BY <1>1, <1>2 DEF TimerInv, EventsSound

LEMMA TimerFields ==
    ASSUME NEW t \in ATimer
    PROVE  t.expires \in Int /\ t.interval \in Nat /\ t.gen \in Nat
BY DEF ATimer

LEMMA TimerWith ==
    ASSUME NEW t \in ATimer, NEW when \in Int
    PROVE  /\ [t EXCEPT !.open = FALSE, !.expires = when] \in ATimer
           /\ [t EXCEPT !.changed = FALSE, !.expires = when] \in ATimer
<1>1. [t EXCEPT !.open = FALSE, !.expires = when] \in ATimer
  BY DEF ATimer
<1>2. [t EXCEPT !.changed = FALSE, !.expires = when] \in ATimer
  BY DEF ATimer
<1> QED
  BY <1>1, <1>2

LEMMA TimerChanged ==
    ASSUME NEW t \in ATimer, NEW i \in Nat
    PROVE  [t EXCEPT !.expires = i, !.interval = i, !.changed = TRUE] \in ATimer
<1>1. ASSUME NEW v \in ATimer PROVE [v EXCEPT !.expires = i] \in ATimer
  BY DEF ATimer
<1>2. ASSUME NEW v \in ATimer PROVE [v EXCEPT !.interval = i] \in ATimer
  BY DEF ATimer
<1>3. ASSUME NEW v \in ATimer PROVE [v EXCEPT !.changed = TRUE] \in ATimer
  BY DEF ATimer
<1> DEFINE expiring == [t EXCEPT !.expires = i]
           renewed == [expiring EXCEPT !.interval = i]
<1>4. expiring \in ATimer
  BY <1>1
<1>5. renewed \in ATimer
  BY <1>2, <1>4
<1>6. [renewed EXCEPT !.changed = TRUE] \in ATimer
  BY <1>3, <1>5
<1> QED
  BY <1>6

LEMMA TimerTyped == TimerInv => timer \in ATimer
BY DEF TimerInv, TimerType

(* A step that leaves the batch alone.                                     *)
LEMMA BatchUnchanged ==
    ASSUME TimerInv, timer' \in ATimer, batch' = batch,
           \A event \in Events : Reported(event) => Reported(event)'
    PROVE  TimerInv'
<1>1. \A i \in DOMAIN batch : batch[i] \in Events
  BY DEF TimerInv, TimerType
<1>2. TimerType'
  BY DEF TimerInv, TimerType
<1> QED
  BY <1>1, <1>2 DEF TimerInv, EventsSound

LEMMA TimerUnchanged ==
    ASSUME TimerInv, UNCHANGED <<timer, batch>>
    PROVE  TimerInv'
BY DEF TimerInv, TimerType, EventsSound, Reported, TimerReadable

(* epoll_wait puts at most one event of each kind into the batch.          *)
LEMMA WaitSound ==
    ASSUME TimerInv, batch' \in Orders(Ready), UNCHANGED timer
    PROVE  TimerInv'
<1>1. Ready \subseteq {ManagerEvent, TimerEvent}
  BY DEF Ready
<1>2. IsFiniteSet(Ready)
  <2>1. IsFiniteSet({} \cup {ManagerEvent})
    BY FS_EmptySet, FS_AddElement
  <2>2. IsFiniteSet(({} \cup {ManagerEvent}) \cup {TimerEvent})
    BY <2>1, FS_AddElement
  <2>3. Ready \subseteq ({} \cup {ManagerEvent}) \cup {TimerEvent}
    BY <1>1
  <2> QED
    BY <2>2, <2>3, FS_Subset
<1>3. Cardinality(Ready) \in Nat
  BY <1>2, FS_CardinalityType
<1>4. Ready \subseteq Events
  <2>1. timer.gen \in Nat
    BY TimerTyped DEF ATimer
  <2>2. ManagerEvent \in Events /\ TimerEvent \in Events
    BY <2>1 DEF ManagerEvent, TimerEvent, Events
  <2> QED
    BY <1>1, <2>2
<1>5. /\ batch' \in [1 .. Cardinality(Ready) -> Ready]
      /\ \A i, j \in DOMAIN batch' : i # j => batch'[i] # batch'[j]
  BY DEF Orders
<1>6. batch' \in Seq(Events)
  BY <1>3, <1>4, <1>5
<1>7. TimerType'
  BY <1>6 DEF TimerInv, TimerType
<1>8. \A event \in Ready : event.of = "timer" => event = TimerEvent /\ TimerReadable
  BY DEF Ready, ManagerEvent
<1>9. \A i \in DOMAIN batch' : batch'[i] \in Ready
  BY <1>5
<1>10. \A i \in DOMAIN batch' : Reported(batch[i])'
  <2>1. timer.gen \in Nat
    BY TimerTyped DEF ATimer
  <2>2. \A event \in Ready : Reported(event)'
    BY <1>8, <2>1 DEF Reported, TimerEvent, TimerReadable
  <2> QED
    BY <1>9, <2>2 DEF Reported
<1>11. \A i, j \in DOMAIN batch' : batch'[i].of = "timer" /\ batch'[j].of = "timer" => i = j
  BY <1>5, <1>8, <1>9
<1>12. EventsSound'
  BY <1>10, <1>11 DEF EventsSound
<1> QED
  BY <1>7, <1>12 DEF TimerInv

(* An event is taken out of the batch; when it is of the timer, no other   *)
(* is left.                                                                *)
LEMMA HandleSound ==
    ASSUME TimerInv, HandleEvent
    PROVE  TimerInv'
<1>1. batch # << >> /\ batch' = Tail(batch) /\ batch \in Seq(Events)
  BY DEF HandleEvent, TimerInv, TimerType
<1>2. /\ batch' \in Seq(Events)
      /\ DOMAIN batch = 1 .. Len(batch) /\ DOMAIN batch' = 1 .. Len(batch) - 1
      /\ Len(batch) \in Nat \ {0} /\ Head(batch) = batch[1]
      /\ \A i \in DOMAIN batch' : batch'[i] = batch[i + 1] /\ i + 1 \in DOMAIN batch /\ i + 1 # 1
  BY <1>1
<1>3. \A i \in DOMAIN batch' : batch'[i] \in Events /\ Reported(batch'[i])
  BY <1>2 DEF TimerInv, EventsSound
<1>4. \A i, j \in DOMAIN batch' : batch'[i].of = "timer" /\ batch'[j].of = "timer" => i = j
  BY <1>2 DEF TimerInv, EventsSound
<1>5. CASE UNCHANGED timer
  BY <1>2, <1>3, <1>4, <1>5 DEF TimerInv, TimerType, EventsSound, Reported, TimerReadable
<1>6. CASE TimerTick /\ Head(batch).of = "timer"
  <2>1. timer' = [timer EXCEPT !.changed = FALSE,
                               !.expires = IF ~TimerReadable THEN @
                                           ELSE IF timer.singleShot THEN Off ELSE @ + timer.interval]
    BY <1>6 DEF TimerTick
  <2>t. timer' \in ATimer
    <3>1. timer.expires \in Int /\ timer.interval \in Nat
      BY TimerTyped, TimerFields
    <3> DEFINE when == IF ~TimerReadable THEN timer.expires
                       ELSE IF timer.singleShot THEN Off ELSE timer.expires + timer.interval
    <3>2. when \in Int
      BY <3>1 DEF Off
    <3>3. timer' = [timer EXCEPT !.changed = FALSE, !.expires = when]
      BY <2>1
    <3> QED
      BY <3>2, <3>3, TimerTyped, TimerWith
  <2>2. TimerType'
    BY <1>2, <2>t DEF TimerType
  <2>3. \A i \in DOMAIN batch' : batch'[i].of # "timer"
    BY <1>2, <1>6 DEF TimerInv, EventsSound
  <2> QED
    BY <1>4, <2>2, <2>3 DEF TimerInv, EventsSound, Reported
<1>7. UNCHANGED timer \/ (TimerTick /\ Head(batch).of = "timer")
  <2>1. Head(batch).of \in {"manager", "timer"}
    <3>1. Head(batch) \in Events
      BY <1>1
    <3> QED
      BY <3>1 DEF Events
  <2> QED
    BY <2>1 DEF HandleEvent, timerVars, OnTick
<1> QED
  BY <1>5, <1>6, <1>7

LEMMA StoppedTyped == TimerInv => Stopped \in ATimer
<1>1. Off \in Int
  BY DEF Off
<1> QED
  BY <1>1, TimerTyped, TimerWith DEF Stopped

LEMMA TimerCallSound ==
    ASSUME TimerInv, TimerCall, UNCHANGED batch
    PROVE  TimerInv'
<1> USE TimersAssumption DEF TimersAssumption
<1>1. ASSUME NEW interval \in Intervals, NEW singleShot \in BOOLEAN, Start(interval, singleShot)
      PROVE  TimerInv'
  <2>1. timer' = [open |-> TRUE, gen |-> timer.gen + 1, expires |-> interval,
                  interval |-> interval, singleShot |-> singleShot, changed |-> FALSE]
    BY <1>1 DEF Start
  <2>2. timer' \in ATimer
    BY <2>1, TimerTyped DEF ATimer
  <2>3. \A event \in Events : Reported(event) => Reported(event)'
    BY <2>1 DEF Reported, Events, TimerInv, TimerType, ATimer
  <2> QED
    BY <2>2, <2>3, BatchUnchanged
<1>2. CASE timer' = Stopped
  <2>1. timer' \in ATimer
    BY <1>2, StoppedTyped
  <2>2. \A event \in Events : Reported(event) => Reported(event)'
    BY <1>2 DEF Stopped, Reported, Events, TimerInv, TimerType, ATimer
  <2> QED
    BY <2>1, <2>2, BatchUnchanged
<1>3. ASSUME NEW interval \in Intervals, ChangeInterval(interval) PROVE TimerInv'
  <2>1. timer' = [timer EXCEPT !.expires = interval, !.interval = interval, !.changed = TRUE]
    BY <1>3 DEF ChangeInterval
  <2>2. timer' \in ATimer
    <3>1. interval \in Nat
      BY DEF Off
    <3> QED
      BY <2>1, <3>1, TimerTyped, TimerChanged
  <2>3. \A event \in Events : Reported(event) => Reported(event)'
    BY <2>1 DEF Reported, Events, TimerInv, TimerType, ATimer
  <2> QED
    BY <2>2, <2>3, BatchUnchanged
<1> QED
  BY <1>1, <1>2, <1>3 DEF TimerCall

LEMMA TimerStep == TimerInv /\ [Next]_shardVars => TimerInv'
<1> SUFFICES ASSUME TimerInv, [Next]_shardVars PROVE TimerInv'
  OBVIOUS
<1> USE DEF managerVars, timerVars
<1>1. CASE LoopTest \/ EventsDone \/ Stop \/ UNCHANGED shardVars
  BY <1>1, TimerUnchanged DEF LoopTest, EventsDone, Stop, shardVars
<1>2. CASE WaitEnds \/ SocketEvent
  BY <1>2, WaitSound DEF WaitEnds, SocketEvent
<1>3. CASE HandleEvent
  BY <1>3, HandleSound
<1>4. CASE InTimers
  <2>1. CASE TimerReturns /\ timer' = Stopped
    <3>1. timer' \in ATimer
      BY <2>1, StoppedTyped
    <3>2. \A event \in Events : Reported(event) => Reported(event)'
      BY <2>1 DEF Stopped, Reported, Events, TimerInv, TimerType, ATimer
    <3> QED
      BY <1>4, <3>1, <3>2, BatchUnchanged DEF InTimers
  <2>2. CASE UNCHANGED timer
    BY <1>4, <2>2, TimerUnchanged DEF InTimers
  <2> QED
    BY <1>4, <2>1, <2>2 DEF InTimers, NextDue, CallbackReturns, TickEnds, TimerReturns
<1>5. CASE Application
  BY <1>5, TimerCallSound, TimerUnchanged DEF Application, Call, ManagerCall
<1>6. CASE Clock
  <2>1. timer' = [timer EXCEPT !.expires = Earlier(@)] /\ UNCHANGED batch
    BY <1>6 DEF Clock, TimePasses
  <2>2. timer' \in ATimer
    BY <2>1, TimerTyped DEF ATimer, Earlier, Off
  <2>3. \A event \in Events : Reported(event) => Reported(event)'
    BY <2>1 DEF Reported, TimerReadable, Events, TimerInv, TimerType, ATimer, Earlier, Off
  <2> QED
    BY <2>1, <2>2, <2>3, BatchUnchanged
<1> QED
  BY <1>1, <1>2, <1>3, <1>4, <1>5, <1>6 DEF Next, Reactor

-----------------------------------------------------------------------------
(* No callback runs before its time, nor for an event of a timer that was  *)
(* stopped or restarted since it was reported (EpollReactor::run).         *)
LEMMA StepNotEarly ==
    ASSUME ManagerInv, TimerInv, Next
    PROVE  /\ callback' \in Ids /\ callback # callback' => m_timers[callback'].nextExpiration <= 0
           /\ callback' = TheTimer /\ callback # TheTimer => TimerReadable \/ timer.changed
<1> USE DEF timerVars
<1>1. CASE callback' = callback
  BY <1>1
<1>2. CASE NextDue
  <2>1. callback' \in DOMAIN m_timers /\ m_timers[callback'].nextExpiration <= now /\ now # Off
    BY <1>2, NextDueTakes
  <2>2. m_timers[callback'].nextExpiration <= 0
    <3>1. m_timers[callback'] \in TimerRecords /\ now \in -MaxLate .. 0
      BY <2>1 DEF ManagerInv, ManagerType
    <3> QED
      BY <2>1, <3>1, TimersAssumption DEF TimerRecords, Moments, Off, TimersAssumption
  <2>3. callback' # TheTimer
    BY <2>1 DEF ManagerInv, ManagerType, TheTimer
  <2> QED
    BY <2>2, <2>3
<1>3. CASE HandleEvent /\ TimerTick
  <2>1. callback' = TheTimer
    BY <1>3 DEF TimerTick
  <2>2. CASE ~Accepts(Head(batch))
    BY <1>3, <2>2 DEF HandleEvent
  <2>3. CASE Accepts(Head(batch)) /\ Head(batch).of = "manager"
    BY <1>3, <2>3 DEF HandleEvent, OnTick, TimerTick
  <2>4. CASE Accepts(Head(batch)) /\ Head(batch).of = "timer"
    <3>1. batch \in Seq(Events) /\ batch # << >>
      BY <1>3 DEF HandleEvent, TimerInv, TimerType
    <3>2. 1 \in DOMAIN batch /\ Head(batch) = batch[1]
      BY <3>1
    <3>3. TimerReadable \/ timer.changed
      BY <2>4, <3>2 DEF Accepts, TimerInv, EventsSound, Reported
    <3> QED
      BY <2>1, <3>3 DEF Ids, TheTimer
  <2>5. Head(batch).of \in {"manager", "timer"}
    <3>1. Head(batch) \in Events
      BY <1>3 DEF HandleEvent, TimerInv, TimerType
    <3> QED
      BY <3>1 DEF Events
  <2> QED
    BY <2>2, <2>3, <2>4, <2>5
<1>4. CASE callback' = Nobody
  BY <1>4 DEF Nobody, TheTimer, Ids
<1>5. callback' = callback \/ NextDue \/ (HandleEvent /\ TimerTick) \/ callback' = Nobody
  BY DEF Next, Reactor, LoopTest, WaitEnds, HandleEvent, EventsDone, InTimers, SocketEvent, Application,
         Stop, Clock, OnTick, CallbackReturns, TickEnds, TimerReturns, Call, TimePasses
<1> QED
  BY <1>1, <1>2, <1>3, <1>4, <1>5

(* No callback runs early, in any behaviour (Timer::onTick,                *)
(* TimerManager::onTick).                                                  *)
THEOREM NoneEarly == Spec => NeverEarly
<1>1. ManagerInv /\ TimerInv /\ [Next]_shardVars =>
        [/\ callback' \in Ids /\ callback # callback' => m_timers[callback'].nextExpiration <= 0
         /\ callback' = TheTimer /\ callback # TheTimer => TimerReadable \/ timer.changed]_shardVars
  BY StepNotEarly
<1> QED
  BY <1>1, ManagerInit, ManagerStep, TimerInit, TimerStep, PTL DEF Spec, NeverEarly

=============================================================================
