-------------------------------- MODULE Shard --------------------------------
(***************************************************************************)
(* A shard of a Server: the thread that runs EpollReactor::run             *)
(* (src/src/clsEpollReactor.cpp), here with the timers it handles events   *)
(* of, and the thread that stops it (src/src/clsServer.cpp).               *)
(***************************************************************************)
EXTENDS Timers, Sequences

CONSTANT WaitTimeout   \* of epoll_wait, or Off for none

ASSUME ShardAssumption == WaitTimeout \in Nat \ {0}

VARIABLES loop,    \* "test", "wait", "events" or "ended"
          waited,  \* how long epoll_wait has yet to wait
          batch,   \* the events epoll_wait returned, not yet handled
          stopper  \* the thread of Server: "running", "flagged", "joining", "stopped"

shardVars == <<m_timers, m_expirations, m_nextId, armed, timer, callback, now, calls,
               loop, waited, batch, stopper>>

Init == /\ TimersInit
        /\ loop = "test" /\ waited = Off /\ batch = << >>
        /\ stopper = "running"

-----------------------------------------------------------------------------
StopRequested == stopper # "running"   \* m_needToStop
LoopTest == /\ loop = "test"
            /\ loop' = IF StopRequested THEN "ended" ELSE "wait"
            /\ waited' = IF StopRequested THEN Off ELSE WaitTimeout
            /\ UNCHANGED <<timerVars, batch, stopper>>

(* epoll_wait gives the events there are, in any order, or none when it    *)
(* has waited long enough.                                                 *)
ManagerEvent == [of |-> "manager", gen |-> 0]
TimerEvent == [of |-> "timer", gen |-> timer.gen]
Ready == (IF ManagerReadable THEN {ManagerEvent} ELSE {})
         \cup (IF TimerReadable THEN {TimerEvent} ELSE {})
Orders(events) == {s \in [1 .. Cardinality(events) -> events] :
                      \A i, j \in DOMAIN s : i # j => s[i] # s[j]}

WaitsForEvents ==   \* wrong: no timeout
    /\ loop = "wait" /\ Ready # {}
    /\ batch' \in Orders(Ready)
    /\ loop' = "events" /\ waited' = Off
    /\ UNCHANGED <<timerVars, stopper>>
WaitEnds == /\ loop = "wait"
            /\ Ready # {} \/ waited <= 0
            /\ batch' \in Orders(Ready)
            /\ loop' = "events" /\ waited' = Off
            /\ UNCHANGED <<timerVars, stopper>>

(* Something a socket was waiting for happens.                             *)
SocketEvent == /\ loop = "wait"
               /\ batch' \in Orders(Ready)
               /\ loop' = "events" /\ waited' = Off
               /\ UNCHANGED <<timerVars, stopper>>

AcceptsOld(event) == event.of = "timer" => timer.open   \* wrong: of any generation
(* An event whose generation is not the descriptor's any more is dropped.  *)
Accepts(event) == event.of = "timer" => timer.open /\ timer.gen = event.gen

Idle == loop = "events" /\ callback = Nobody /\ now = Off
HandleEvent ==
    /\ Idle /\ batch # << >>
    /\ batch' = Tail(batch)
    /\ IF ~Accepts(Head(batch)) THEN UNCHANGED timerVars
       ELSE IF Head(batch).of = "manager" THEN OnTick ELSE TimerTick
    /\ UNCHANGED <<loop, waited, stopper>>

EventsDone == /\ Idle /\ batch = << >>
              /\ loop' = "test"
              /\ UNCHANGED <<timerVars, waited, batch, stopper>>

(* Callbacks of sockets run when no timer's does.                          *)
InTimers == /\ loop = "events"
            /\ NextDue \/ CallbackReturns \/ TickEnds \/ TimerReturns
            /\ UNCHANGED <<loop, waited, batch, stopper>>
Application == /\ loop = "events" /\ (Idle \/ callback # Nobody)
               /\ Call
               /\ UNCHANGED <<loop, waited, batch, stopper>>

-----------------------------------------------------------------------------
(* Server::stop.  wake() writes to m_wakeupFd, which no epoll instance     *)
(* watches, so the flag alone is what run() comes to see.                  *)
SetFlag == stopper = "running" /\ stopper' = "flagged"
Wake == stopper = "flagged" /\ stopper' = "joining"
Join == stopper = "joining" /\ loop = "ended" /\ stopper' = "stopped"
Stop == (SetFlag \/ Wake \/ Join) /\ UNCHANGED <<timerVars, loop, waited, batch>>

Clock == TimePasses /\ (waited > 0) /\ waited' = Earlier(waited) /\ UNCHANGED <<loop, batch, stopper>>

Reactor == LoopTest \/ WaitEnds \/ HandleEvent \/ EventsDone \/ InTimers
Next == Reactor \/ SocketEvent \/ Application \/ Stop \/ Clock

Spec == Init /\ [][Next]_shardVars

(* The reactor's thread runs, time passes, and stop() goes on once begun.  *)
FairSpec == /\ Spec
            /\ WF_shardVars(Reactor) /\ WF_shardVars(Clock)
            /\ WF_shardVars(Wake /\ Stop) /\ WF_shardVars(Join /\ Stop)

-----------------------------------------------------------------------------
(* Outside of onTick every timer of the manager has one expiration, its    *)
(* own (in onTick, all but the one whose callback runs): no timer is lost, *)
(* and none fires twice, whatever timers but its own a callback adds,      *)
(* removes and changes while the loop is going through the expirations     *)
(* (clsTimerManager.cpp:104).                                              *)
OneExpiration ==
    m_expirations = {<<m_timers[id].nextExpiration, id>> : id \in DOMAIN m_timers \ {callback}}

(* Between ticks the timerfd is set for the first expiration, or has       *)
(* expired and not been read: the reactor neither sleeps past a timer nor  *)
(* wakes for one that was removed (clsTimerManager.cpp:151).               *)
ArmedForFirst ==
    now = Off => IF m_expirations = {} THEN armed = Off
                 ELSE IF First(m_expirations) > 0 THEN armed = First(m_expirations) ELSE armed <= 0

(* No callback runs before its time, nor for a timer that was stopped or   *)
(* started again since epoll_wait reported it; a Timer whose setInterval   *)
(* was called since then is the exception (clsTimer.cpp:54).               *)
NeverEarly ==
    [][/\ callback' \in Ids /\ callback # callback' =>
             m_timers[callback'].nextExpiration <= 0
       /\ callback' = TheTimer /\ callback # TheTimer => TimerReadable \/ timer.changed]_shardVars

(* A timer fires, unless it is removed, or the shard ends.                 *)
TimersFire ==
    /\ \A id \in Ids : Known(id) ~> ~Known(id) \/ callback = id \/ loop = "ended"
    /\ timer.open ~> ~timer.open \/ callback = TheTimer \/ loop = "ended"

(* Server::stop() comes to its end.                                        *)
StopReturns == stopper = "joining" ~> stopper = "stopped"

=============================================================================
