------------------------------ MODULE DNSLookup ------------------------------
(***************************************************************************)
(* The resolver of a reactor (src/src/clsDNSLookup.cpp): lookups that wait *)
(* for UDP answers, retries, timeouts, and a cache of the latest answers.  *)
(*                                                                         *)
(* The network loses, doubles, delays and reorders: asked holds every      *)
(* query that left the current socket, and each may be answered at any     *)
(* time, any number of times, or never.  A callback may look up again, so  *)
(* stack is the call stack of the thread, innermost frame first, and       *)
(* handler what it goes on with when the stack is empty.                   *)
(*                                                                         *)
(* A lookup from a callback may take an id that came round, or make the    *)
(* hash table of pending requests grow.  What the standard leaves open     *)
(* then is what libstdc++ does: a walk goes on from its node, in the new   *)
(* order, and a node that was erased under a handler ends the program.     *)
(*                                                                         *)
(* Only A queries are modelled, the only ones the library itself makes.    *)
(***************************************************************************)
EXTENDS Integers, Sequences, FiniteSets, SequencesExt

CONSTANTS Hosts,
          PoolSize,    \* requests of the pool: 1000
          Sizes,       \* the sizes of the hash table: 13, 29, 59, 127, 257, 541, 1109
          LastQid,     \* the ids go from 1 to LastQid: 65534
          MaxRetries,  \* m_max_retries
          CacheSize,   \* m_cache_max_size
          MaxLookups,  \* bound: calls of resolve
          Wanted,      \* bound: the hosts that each of them may be about
          MaxNesting   \* bound: callbacks within callbacks that still look up

ASSUME LookupAssumption == /\ PoolSize \in Nat \ {0} /\ LastQid \in Nat \ {0}
                           /\ CacheSize \in Nat \ {0} /\ MaxRetries \in Nat
                           /\ Sizes \subseteq Nat \ {0} /\ \E n \in Sizes : n >= PoolSize
                           /\ MaxLookups \in Nat /\ MaxNesting \in Nat
                           /\ Wanted \in [1 .. MaxLookups -> SUBSET Hosts]

VARIABLES pending,     \* m_pending
          buckets,     \* its size as a hash table
          free,        \* the length of m_free_requests
          leaked,      \* ghost: requests overwritten while they were pending
          nextQid,     \* m_next_qid
          age,         \* m_cache_map: for each host in it, how old its entry is
          cacheList,   \* m_cache_list
          fdOpen,      \* whether there is a socket
          asked,       \* queries that left this socket
          stack,
          handler,
          lookups      \* ghost: the calls of resolve and what came of them

pool == <<free, leaked>>
cache == <<age, cacheList>>
vars == <<pending, buckets, pool, nextQid, cache, fdOpen, asked, stack, handler, lookups>>

Qids == 1 .. LastQid
NoQid == 0
None == "no addresses"

Request == [call: 1 .. MaxLookups, host: Hosts, retries: 0 .. MaxRetries]

(* The age of an entry: below its time to live, at it, above it.           *)
Ages == {"fresh", "stale", "old"}

(* The callback that runs, or what resolve still does after it.            *)
Frames == [pc: {"callback"}, call: 1 .. MaxLookups, answer: Hosts \cup {None}]
          \cup [pc: {"touch"}, host: Hosts]

(* on_dns_read holds the node of qid; maintenance is at the node of at,    *)
(* due are the ids it gives up or asks again if its walk meets them, todo  *)
(* those it will still meet, given_up the ids of to_remove; twice: it put  *)
(* one there twice.                                                        *)
Handlers == [pc: {"idle", "crash"}]
            \cup [pc: {"done"}, qid: Qids]
            \cup [pc: {"scan"}, due: SUBSET Qids, todo: SUBSET Qids, given_up: SUBSET Qids,
                  at: Qids \cup {NoQid}, twice: BOOLEAN]

(* A call of resolve: its id, unless the cache answers it.                 *)
Lookup == [host: Hosts, qid: Qids \cup {NoQid}, callbacks: Nat, refused: BOOLEAN]

(* The types of the variables.                                             *)
TypeOK ==
    /\ DOMAIN pending \subseteq Qids /\ \A q \in DOMAIN pending : pending[q] \in Request
    /\ buckets \in Sizes
    /\ free \in Nat /\ leaked \in Nat
    /\ nextQid \in Qids
    /\ DOMAIN age \subseteq Hosts /\ \A h \in DOMAIN age : age[h] \in Ages
    /\ cacheList \in Seq(Hosts)
    /\ fdOpen \in BOOLEAN
    /\ asked \subseteq [qid: Qids, host: Hosts]
    /\ stack \in Seq(Frames) /\ handler \in Handlers
    /\ lookups \in Seq(Lookup)

Idle == [pc |-> "idle"]
Crash == [pc |-> "crash"]
AtRest == stack = << >> /\ handler = Idle

(* The least of the sizes above n.                                         *)
SizeAbove(n) == {m \in Sizes : m > n /\ \A k \in Sizes : k > n => m <= k}

Init == /\ pending = << >>
        /\ buckets \in SizeAbove(0)
        /\ free = PoolSize
        /\ leaked = 0
        /\ nextQid = 1
        /\ age = << >>
        /\ cacheList = << >>
        /\ fdOpen \in BOOLEAN
        /\ asked = {}
        /\ stack = << >>
        /\ handler = Idle
        /\ lookups = << >>

-----------------------------------------------------------------------------
With(f, x, y) == [z \in DOMAIN f \cup {x} |-> IF z = x THEN y ELSE f[z]]
Without(f, S) == [z \in DOMAIN f \ S |-> f[z]]

(* A list without the members of S: SelectSeq, as a function the proofs    *)
(* can unfold.                                                             *)
Minus(s, S) == LET kept[n \in 0 .. Len(s)] == IF n = 0 THEN << >>
                                              ELSE IF s[n] \in S THEN kept[n - 1]
                                              ELSE Append(kept[n - 1], s[n])
               IN  kept[Len(s)]

Running(pc) == stack # << >> /\ Head(stack).pc = pc
Returns == stack' = Tail(stack)
Handling(pc) == stack = << >> /\ handler.pc = pc

(* call_callback, noted in lookups.                                        *)
Callback(call, answer) == [pc |-> "callback", call |-> call, answer |-> answer]
CalledBack(call) == lookups' = [lookups EXCEPT ![call].callbacks = @ + 1]

(* send_query: it fails without a socket, and may fail with one.           *)
Outcomes == {FALSE, fdOpen}
AskedWith(q, host, sent) == IF sent THEN asked \cup {[qid |-> q, host |-> host]} ELSE asked

(* The retry that a timeout, an error or an unusable answer causes.        *)
MayRetry(r) == r.retries < MaxRetries
RetriedUncounted(r) == r   \* wrong: retry_count stays
Retried(r) == [r EXCEPT !.retries = @ + 1]

-----------------------------------------------------------------------------
(* resolve, called by the application or from a callback.                  *)

NextQid(q) == IF q = LastQid THEN 1 ELSE q + 1

CallbacksRunning == SelectSeq(stack, LAMBDA c : c.pc = "callback")
ThisCall == Len(lookups) + 1
MayLookUp(host) == /\ AtRest \/ Running("callback")
                   /\ Len(CallbacksRunning) <= MaxNesting
                   /\ Len(lookups) < MaxLookups /\ host \in Wanted[ThisCall]

Called(host, qid, callbacks, refused) ==
    lookups' = Append(lookups, [host |-> host, qid |-> qid,
                                callbacks |-> callbacks, refused |-> refused])

Cached(host) == host \in DOMAIN age /\ age[host] = "fresh"

ResolveFromCache(host) ==
    /\ MayLookUp(host)
    /\ Cached(host)
    /\ Called(host, NoQid, 1, FALSE)
    /\ stack' = <<Callback(ThisCall, host), [pc |-> "touch", host |-> host]>> \o stack
    /\ UNCHANGED <<pending, buckets, pool, nextQid, cache, fdOpen, asked, handler>>

(* The new entry of the table takes the place of one of the same id, or    *)
(* makes the table grow.                                                   *)
Overwrites == nextQid \in DOMAIN pending
Grows == ~Overwrites /\ Cardinality(DOMAIN pending) >= buckets

(* What that, and erasing it when it was not sent, does to the handler     *)
(* whose callback runs: it finds its own node erased, or its walk meets    *)
(* the nodes of the table that grew in another order, some of them again.  *)
Resumed(sent, met) ==
    IF handler.pc = "done"
    THEN IF handler.qid = nextQid /\ ~sent THEN Crash ELSE handler
    ELSE IF handler.pc # "scan" THEN handler
    ELSE IF handler.at = nextQid /\ ~sent THEN Crash
    ELSE [handler EXCEPT !.due = @ \ {nextQid},
                         !.todo = IF Grows THEN met \cap (handler.due \ {handler.at})
                                  ELSE @ \ {nextQid}]

Resolve(host) ==
    /\ MayLookUp(host)
    /\ ~Cached(host)
    /\ nextQid' = NextQid(nextQid)
    /\ \/ /\ free = 0
          /\ Called(host, nextQid, 0, TRUE)
          /\ UNCHANGED <<pending, buckets, pool, asked, stack, handler>>
       \/ /\ free > 0
          /\ IF Grows THEN buckets' \in SizeAbove(buckets) ELSE UNCHANGED buckets
          /\ leaked' = IF Overwrites THEN leaked + 1 ELSE leaked
          /\ \E sent \in Outcomes :
                /\ asked' = AskedWith(nextQid, host, sent)
                /\ \E met \in SUBSET Qids : handler' = Resumed(sent, met)
                /\ IF sent
                   THEN /\ pending' = With(pending, nextQid, [call |-> ThisCall, host |-> host,
                                                              retries |-> 0])
                        /\ free' = free - 1
                        /\ Called(host, nextQid, 0, FALSE)
                        /\ UNCHANGED stack
                   ELSE /\ pending' = Without(pending, {nextQid})
                        /\ Called(host, nextQid, 1, FALSE)
                        /\ stack' = <<Callback(ThisCall, None)>> \o stack
                        /\ UNCHANGED free
    /\ UNCHANGED <<cache, fdOpen>>

CallbackReturns ==
    /\ Running("callback") /\ Returns
    /\ UNCHANGED <<pending, buckets, pool, nextQid, cache, fdOpen, asked, handler, lookups>>

(* The host of a cached answer becomes the latest.                         *)
Touch == /\ Running("touch") /\ Returns
         /\ LET host == Head(stack).host
            IN  cacheList' = <<host>> \o Minus(cacheList, {host})
         /\ UNCHANGED <<pending, buckets, pool, nextQid, age, fdOpen, asked, handler, lookups>>

-----------------------------------------------------------------------------
(* on_dns_read and what follows its callback.                              *)

(* update_lru_cache                                                        *)
Kept(host) == IF host \in DOMAIN age
              THEN Minus(cacheList, {host})
              ELSE SubSeq(cacheList, 1,
                          IF Len(cacheList) < CacheSize THEN Len(cacheList) ELSE CacheSize - 1)
UpdateList(host) ==   \* wrong: what leaves the list stays in the map
    /\ cacheList' = <<host>> \o Kept(host)
    /\ age' = With(age, host, "fresh")
UpdateCache(host) ==
    /\ cacheList' = <<host>> \o Kept(host)
    /\ age' = With([h \in DOMAIN age \cap ToSet(Kept(host)) |-> age[h]], host, "fresh")

GiveUp(q, answer) == /\ stack' = <<Callback(pending[q].call, answer)>>
                     /\ handler' = [pc |-> "done", qid |-> q]
                     /\ CalledBack(pending[q].call)

(* The answer a to one of the queries: with addresses, ...                 *)
FirstIsAnswered(a) ==   \* wrong: whoever has waited longest, not the id of the answer
    /\ AtRest /\ fdOpen
    /\ a \in asked /\ DOMAIN pending # {}
    /\ LET q == CHOOSE p \in DOMAIN pending : \A r \in DOMAIN pending : p <= r
       IN  UpdateCache(pending[q].host) /\ GiveUp(q, a.host)
    /\ UNCHANGED <<pending, buckets, pool, nextQid, fdOpen, asked>>
AnswerArrives(a) ==
    /\ AtRest /\ fdOpen
    /\ a \in asked /\ a.qid \in DOMAIN pending
    /\ UpdateCache(pending[a.qid].host)
    /\ GiveUp(a.qid, a.host)
    /\ UNCHANGED <<pending, buckets, pool, nextQid, fdOpen, asked>>

(* ... or with an error code, or without a usable address.                 *)
ErrorArrives(a) ==
    LET q == a.qid
    IN  /\ AtRest /\ fdOpen
        /\ a \in asked /\ q \in DOMAIN pending
        /\ \/ /\ MayRetry(pending[q])
              /\ pending' = [pending EXCEPT ![q] = Retried(@)]
              /\ \E sent \in Outcomes :
                    /\ asked' = AskedWith(q, pending[q].host, sent)
                    /\ IF sent THEN UNCHANGED <<stack, handler, lookups>> ELSE GiveUp(q, None)
           \/ /\ ~MayRetry(pending[q])
              /\ GiveUp(q, None)
              /\ UNCHANGED <<pending, asked>>
        /\ UNCHANGED <<buckets, pool, nextQid, cache, fdOpen>>

(* The request it held goes back to the pool, and the entry of the table   *)
(* goes, whatever request it is of by now.                                 *)
DoneUnreleased == /\ Handling("done")   \* wrong: no release_request
                  /\ pending' = Without(pending, {handler.qid})
                  /\ handler' = Idle
                  /\ UNCHANGED <<buckets, pool, nextQid, cache, fdOpen, asked, stack, lookups>>
Done == /\ Handling("done")
        /\ pending' = Without(pending, {handler.qid})
        /\ free' = free + 1
        /\ handler' = Idle
        /\ UNCHANGED <<buckets, leaked, nextQid, cache, fdOpen, asked, stack, lookups>>

(* recvfrom fails: a new socket, if there is one, and all queries again.   *)
ReadFails ==
    LET again == {q \in DOMAIN pending : MayRetry(pending[q])}
    IN  /\ AtRest /\ fdOpen
        /\ fdOpen' \in BOOLEAN
        /\ pending' = [q \in DOMAIN pending |->
                           IF q \in again THEN Retried(pending[q]) ELSE pending[q]]
        /\ \E sent \in SUBSET again :
              /\ fdOpen' \/ sent = {}
              /\ asked' = {[qid |-> q, host |-> pending[q].host] : q \in sent}
        /\ UNCHANGED <<buckets, pool, nextQid, cache, stack, handler, lookups>>

(* EPOLLERR: reset_socket alone; what was asked is asked again in time.    *)
SocketError == /\ AtRest /\ fdOpen
               /\ fdOpen' \in BOOLEAN
               /\ asked' = {}
               /\ UNCHANGED <<pending, buckets, pool, nextQid, cache, stack, handler, lookups>>

-----------------------------------------------------------------------------
(* maintenance, from a timer of the reactor.                               *)

Old == {h \in DOMAIN age : age[h] = "old"}

(* due are the requests whose time has passed.  Where there are none, and  *)
(* nothing in the cache is old, maintenance changes nothing.               *)
Maintenance(due) ==
    /\ AtRest
    /\ due \subseteq DOMAIN pending
    /\ due # {} \/ Old # {}
    /\ handler' = [pc |-> "scan", due |-> due, todo |-> due, given_up |-> {},
                   at |-> NoQid, twice |-> FALSE]
    /\ UNCHANGED <<pending, buckets, pool, nextQid, cache, fdOpen, asked, stack, lookups>>

(* One of the requests that timed out: it is sent again or given up.       *)
GivesUp(q, walk) ==
    /\ stack' = <<Callback(pending[q].call, None)>>
    /\ CalledBack(pending[q].call)
    /\ handler' = [walk EXCEPT !.given_up = @ \cup {q}, !.twice = @ \/ q \in walk.given_up]

ScanRequest ==
    /\ Handling("scan")
    /\ \E q \in handler.todo :
          LET past == [handler EXCEPT !.todo = @ \ {q}, !.at = q]
              again == [past EXCEPT !.due = @ \ {q}]
          IN  \/ /\ MayRetry(pending[q])
                 /\ pending' = [pending EXCEPT ![q] = Retried(@)]
                 /\ \E sent \in Outcomes :
                       /\ asked' = AskedWith(q, pending[q].host, sent)
                       /\ IF sent THEN handler' = again /\ UNCHANGED <<stack, lookups>>
                          ELSE GivesUp(q, again)
              \/ /\ ~MayRetry(pending[q])
                 /\ GivesUp(q, past)
                 /\ UNCHANGED <<pending, asked>>
    /\ UNCHANGED <<buckets, pool, nextQid, cache, fdOpen>>

(* What was given up is erased, and cache entries above their time.        *)
ScanForgets ==   \* wrong: what was given up stays
    /\ Handling("scan") /\ handler.todo = {}
    /\ handler' = Idle
    /\ UNCHANGED <<pending, buckets, pool, nextQid, cache, fdOpen, asked, stack, lookups>>
ScanEnds ==
    /\ Handling("scan") /\ handler.todo = {}
    /\ handler.given_up \subseteq DOMAIN pending /\ ~handler.twice
    /\ pending' = Without(pending, handler.given_up)
    /\ free' = free + Cardinality(handler.given_up)
    /\ age' = Without(age, Old)
    /\ cacheList' = Minus(cacheList, Old)
    /\ handler' = Idle
    /\ UNCHANGED <<buckets, leaked, nextQid, fdOpen, asked, stack, lookups>>

(* One of the ids is no longer in the table, or is erased and released a   *)
(* second time: m_pending[id] is a null pointer.                           *)
ScanFails ==
    /\ Handling("scan") /\ handler.todo = {}
    /\ handler.twice \/ ~(handler.given_up \subseteq DOMAIN pending)
    /\ handler' = Crash
    /\ UNCHANGED <<pending, buckets, pool, nextQid, cache, fdOpen, asked, stack, lookups>>

(* Time passes.                                                            *)
Ageing(h) == /\ h \in DOMAIN age /\ age[h] # "old"
             /\ age' = [age EXCEPT ![h] = IF @ = "fresh" THEN "stale" ELSE "old"]
             /\ UNCHANGED <<pending, buckets, pool, nextQid, cacheList, fdOpen, asked, stack,
                            handler, lookups>>

-----------------------------------------------------------------------------
HandlerStep == Touch \/ Done \/ ScanRequest \/ ScanEnds \/ ScanFails

Next == \/ HandlerStep \/ CallbackReturns
        \/ \E due \in SUBSET DOMAIN pending : Maintenance(due)
        \/ \E host \in Hosts : Resolve(host) \/ ResolveFromCache(host) \/ Ageing(host)
        \/ \E a \in asked : AnswerArrives(a) \/ ErrorArrives(a)
        \/ ReadFails \/ SocketError

Spec == Init /\ [][Next]_vars

(* Handlers run to their end, callbacks return, and the periodic timer of  *)
(* the reactor fires for a request that waits until its time has passed.   *)
FairSpec == /\ Spec
            /\ WF_vars(HandlerStep) /\ WF_vars(CallbackReturns)
            /\ \A q \in Qids :
                  WF_vars(\E due \in SUBSET DOMAIN pending : q \in due /\ Maintenance(due))

-----------------------------------------------------------------------------
(* A request is in the pool, or pending, or it was overwritten when its id *)
(* came round: none else leaks, none is handed out or released twice.      *)
PoolBalanced == free + Cardinality(DOMAIN pending) + leaked = PoolSize

(* The list and the map of the cache have the same hosts, each once, and   *)
(* no more than the cache may hold: erasing from the list always finds.    *)
CacheExact == /\ IsInjective(cacheList)
              /\ ToSet(cacheList) = DOMAIN age
              /\ Len(cacheList) <= CacheSize

(* The walk met a request again that it had given up: the end of this walk *)
(* is the end of the program.                                              *)
Doomed == handler = Crash \/ (handler.pc = "scan" /\ handler.twice)

(* No lookup is called back twice, whatever late or doubled answers come   *)
(* in and whichever ids come round, and none that was refused; except by   *)
(* the walk that meets a request again because a callback made the table   *)
(* grow, and the program does not survive that walk.                       *)
AnsweredOnce == \/ \A c \in DOMAIN lookups :
                        lookups[c].callbacks <= IF lookups[c].refused THEN 0 ELSE 1
                \/ Doomed

(* Other lookups that had the id of c.                                     *)
SameId(c) == {d \in DOMAIN lookups : lookups[d].qid = lookups[c].qid /\ lookups[d].qid # NoQid}

(* Addresses a callback gets are those of the host that was looked up, or  *)
(* of one that was looked up under the same id before it came round.       *)
RightAnswer ==
    \A i \in DOMAIN stack :
        stack[i].pc = "callback" =>
            \/ stack[i].answer \in {None, lookups[stack[i].call].host}
            \/ \E d \in SameId(stack[i].call) : stack[i].answer = lookups[d].host

Waits(c) == c \in DOMAIN lookups /\ lookups[c].callbacks = 0 /\ ~lookups[c].refused
(* Its request left the table for another of the same id.                  *)
Overtaken(c) == /\ c \in DOMAIN lookups /\ SameId(c) # {c}
                /\ \A q \in DOMAIN pending : pending[q].call # c
(* Every lookup that is not refused is called back in the end, even if     *)
(* nothing is ever answered and there is no socket, unless another lookup  *)
(* of the same id took its place or the program ended.                     *)
LookupEnds == \A c \in 1 .. MaxLookups :
                  Waits(c) ~> ~Waits(c) \/ Overtaken(c) \/ Handling("crash")

=============================================================================
