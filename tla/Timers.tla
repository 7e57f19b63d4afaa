------------------------------- MODULE Timers -------------------------------
(***************************************************************************)
(* The timers of a reactor: TimerManager (src/src/clsTimerManager.cpp),    *)
(* many timers behind one timerfd, and Timer (src/src/clsTimer.cpp), one   *)
(* with a timerfd of its own.                                              *)
(*                                                                         *)
(* A point in time is given relative to the present, so that it falls as   *)
(* time passes; what is at or below 0 is due.                              *)
(***************************************************************************)
EXTENDS Integers, FiniteSets, FiniteSetsExt

CONSTANTS Intervals,  \* interval_ms of the timers
          MaxTimers,  \* bound: timers added
          MaxCalls,   \* bound: calls of the application, to the manager and to the timer
          MaxLate     \* bound: how late the reactor may be

Off == 1000   \* no moment: a timerfd that is not set

ASSUME TimersAssumption == /\ Intervals \subseteq 1 .. Off - 1
                           /\ MaxTimers \in Nat /\ MaxCalls \in Nat
                           /\ MaxLate \in Nat \ {0}

VARIABLES m_timers,       \* of the manager, by id
          m_expirations,  \* pairs <<when, id>>
          m_nextId,
          armed,          \* when the timerfd of the manager expires, or Off
          timer,          \* a Timer
          callback,       \* whose callback runs: an id, TheTimer, or Nobody
          now,            \* the present at the start of onTick, or Off outside
          calls           \* calls of the application so far

managerVars == <<m_timers, m_expirations, m_nextId, armed>>
timerVars == <<m_timers, m_expirations, m_nextId, armed, timer, callback, now, calls>>

Ids == 0 .. MaxTimers - 1
TheTimer == -1
Nobody == -2

StoppedTimer == [open |-> FALSE, gen |-> 0, expires |-> Off, interval |-> 0, singleShot |-> FALSE,
                 changed |-> FALSE]   \* ghost: setInterval since the last tick

TimersInit == /\ m_timers = << >> /\ m_expirations = {} /\ m_nextId = 0
              /\ armed = Off
              /\ timer = StoppedTimer
              /\ callback = Nobody /\ now = Off
              /\ calls = 0

-----------------------------------------------------------------------------
(* The library's containers.                                               *)
Known(id) == id \in DOMAIN m_timers
Put(f, id, t) == [i \in DOMAIN f \cup {id} |-> IF i = id THEN t ELSE f[i]]
Dropped(f, id) == [i \in DOMAIN f \ {id} |-> f[i]]
First(expirations) == Min({e[1] : e \in expirations})

DisarmedByZero(expirations) ==   \* wrong: what is due disarms the timerfd
    IF expirations # {} /\ First(expirations) > 0 THEN First(expirations) ELSE Off

(* updateTimerFd: a moment that has passed becomes the next nanosecond.    *)
Armed(expirations) ==
    IF expirations = {} THEN Off
    ELSE IF First(expirations) > 0 THEN First(expirations) ELSE 0

NotRearmed(expirations) ==   \* wrong: the timerfd is left as it is
    /\ m_expirations' = expirations
    /\ UNCHANGED armed
Expire(expirations) ==
    /\ m_expirations' = expirations
    /\ armed' = Armed(expirations)

AddTimer(interval, singleShot) ==
    /\ m_nextId < MaxTimers
    /\ m_nextId' = m_nextId + 1
    /\ m_timers' = Put(m_timers, m_nextId,
                       [interval |-> interval, nextExpiration |-> interval, singleShot |-> singleShot])
    /\ Expire(m_expirations \cup {<<interval, m_nextId>>})

(* The two calls that take the timer's expiration out.  The code does not  *)
(* stop a callback from making them for its own timer; that would leave    *)
(* onTick with an iterator that is gone, or with a second expiration, and  *)
(* the model leaves it out.                                                *)
RemoveTimer(id) ==
    /\ Known(id) /\ id # callback
    /\ m_timers' = Dropped(m_timers, id)
    /\ Expire(m_expirations \ {<<m_timers[id].nextExpiration, id>>})
    /\ UNCHANGED m_nextId

KeepsOldExpiration(id, interval) ==   \* wrong: the old one stays
    /\ Known(id) /\ id # callback
    /\ m_timers' = [m_timers EXCEPT ![id].interval = interval, ![id].nextExpiration = interval]
    /\ Expire(m_expirations \cup {<<interval, id>>})
    /\ UNCHANGED m_nextId
SetInterval(id, interval) ==
    /\ Known(id) /\ id # callback
    /\ m_timers' = [m_timers EXCEPT ![id].interval = interval, ![id].nextExpiration = interval]
    /\ Expire((m_expirations \ {<<m_timers[id].nextExpiration, id>>}) \cup {<<interval, id>>})
    /\ UNCHANGED m_nextId

ManagerCall ==
    /\ \/ \E interval \in Intervals, singleShot \in BOOLEAN : AddTimer(interval, singleShot)
       \/ \E id \in Ids : RemoveTimer(id) \/ \E interval \in Intervals : SetInterval(id, interval)
    /\ UNCHANGED timer

(* The calls to a Timer.  start() and stop() take a fresh descriptor or    *)
(* let go of it, and with it the generation in events.  A callback that    *)
(* restarted its own timer would replace itself while it runs: it may not. *)
Start(interval, singleShot) ==
    /\ callback # TheTimer
    /\ timer' = [open |-> TRUE, gen |-> timer.gen + 1, expires |-> interval,
                 interval |-> interval, singleShot |-> singleShot, changed |-> FALSE]
Stopped == [timer EXCEPT !.open = FALSE, !.expires = Off]
ChangeInterval(interval) ==   \* setInterval
    timer.open /\ timer' = [timer EXCEPT !.expires = interval, !.interval = interval, !.changed = TRUE]

TimerCall ==
    /\ \/ \E interval \in Intervals, singleShot \in BOOLEAN : Start(interval, singleShot)
       \/ timer.open /\ timer' = Stopped
       \/ \E interval \in Intervals : ChangeInterval(interval)
    /\ UNCHANGED managerVars

(* The application calls from callbacks, of timers or of sockets.          *)
Call == /\ calls < MaxCalls /\ calls' = calls + 1
        /\ ManagerCall \/ TimerCall
        /\ UNCHANGED <<callback, now>>

-----------------------------------------------------------------------------
(* onTick of the manager: start, a turn of the loop up to the callback, or *)
(* for an expiration without a timer, what follows the callback, the end.  *)
ManagerReadable == armed <= 0
OnTick == /\ now = Off /\ now' = 0
          /\ armed' = IF ManagerReadable THEN Off ELSE armed
          /\ UNCHANGED <<m_timers, m_expirations, m_nextId, timer, callback, calls>>

Due == now # Off /\ m_expirations # {} /\ First(m_expirations) <= now
Earliest(e) == e \in m_expirations /\ \A d \in m_expirations :
                  e[1] < d[1] \/ (e[1] = d[1] /\ e[2] <= d[2])

NextDue == /\ callback = Nobody /\ Due
           /\ \E e \in m_expirations :
                 /\ Earliest(e)
                 /\ m_expirations' = m_expirations \ {e}
                 /\ callback' = IF Known(e[2]) THEN e[2] ELSE Nobody
           /\ UNCHANGED <<m_timers, m_nextId, armed, timer, now, calls>>

CallbackReturns ==
    /\ callback \in Ids
    /\ LET t == m_timers[callback]
           next == now + t.interval
       IN  IF t.singleShot
           THEN m_timers' = Dropped(m_timers, callback) /\ UNCHANGED m_expirations
           ELSE /\ m_timers' = [m_timers EXCEPT ![callback].nextExpiration = next]
                /\ m_expirations' = m_expirations \cup {<<next, callback>>}
    /\ callback' = Nobody
    /\ UNCHANGED <<m_nextId, armed, timer, now, calls>>

TickEnds == /\ callback = Nobody /\ now # Off /\ ~Due
            /\ now' = Off
            /\ Expire(m_expirations)
            /\ UNCHANGED <<m_timers, m_nextId, timer, callback, calls>>

(* onTick of a Timer: its timerfd is periodic unless singleShot.  What     *)
(* read() gives is not looked at, so the callback runs in any case.        *)
TimerReadable == timer.open /\ timer.expires <= 0
TimerTick ==
    /\ callback' = TheTimer
    /\ timer' = [timer EXCEPT !.changed = FALSE,
                              !.expires = IF ~TimerReadable THEN @
                                          ELSE IF timer.singleShot THEN Off ELSE @ + timer.interval]
    /\ UNCHANGED <<managerVars, now, calls>>
TimerReturns == /\ callback = TheTimer /\ callback' = Nobody
                /\ timer' = IF timer.singleShot THEN Stopped ELSE timer
                /\ UNCHANGED <<managerVars, now, calls>>

-----------------------------------------------------------------------------
(* Time passes, also while callbacks run.                                  *)
Earlier(when) == IF when = Off THEN Off ELSE when - 1
TimePasses ==
    /\ \A e \in m_expirations : e[1] > -MaxLate
    /\ now > -MaxLate /\ timer.expires > -MaxLate /\ armed > -MaxLate
    /\ \A id \in DOMAIN m_timers : m_timers[id].nextExpiration > -MaxLate
    /\ m_timers' = [id \in DOMAIN m_timers |-> [m_timers[id] EXCEPT !.nextExpiration = @ - 1]]
    /\ m_expirations' = {<<e[1] - 1, e[2]>> : e \in m_expirations}
    /\ armed' = Earlier(armed) /\ now' = Earlier(now)
    /\ timer' = [timer EXCEPT !.expires = Earlier(@)]
    /\ UNCHANGED <<m_nextId, callback, calls>>

=============================================================================
