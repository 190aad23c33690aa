------------------------------- MODULE RpcClient -------------------------------
(* The JSON-RPC client of one chain and its pool of endpoints (apps/bridge/    *)
(* server/rpc): a cache of answers, one shared request per key, failover, and  *)
(* the cool-downs of an endpoint that fails or, after a rate limit, of all.    *)
(*                                                                             *)
(* Between a call and its answer any other request may run.  Times are what is *)
(* left of them, in ticks; the age of a value counts from the sending of its   *)
(* call, as what it says was true then or later.  Left out: hedging, which no  *)
(* caller asks for, writes, which none sends, quorums, and the eviction from a *)
(* cache of hundreds of entries.                                               *)
EXTENDS Integers, Sequences, SequencesExt

CONSTANTS
    Slots,           \* bound on the requests at a time, for TLC
    Options,         \* what callers ask: key, read, ttl, stale, and own
    NumEndpoints,    \* in the order of their priority
    CallTimeout,     \* timeoutMs of a call
    BackOff,         \* cool-down after each number of failures in a row
    Threshold,       \* CIRCUIT_FAILURE_THRESHOLD
    RateLimitRest,   \* RATE_LIMIT_COOLDOWN_MS
    MaxActive        \* maxConcurrency

(* own: with a signal or a budget of the caller, which may abort it. *)
ASSUME RpcClientAssumption ==
    /\ \A o \in Options : o.read \in BOOLEAN /\ o.own \in BOOLEAN /\ o.ttl \in Nat /\ o.stale \in Nat
    /\ {NumEndpoints, CallTimeout, Threshold, RateLimitRest, MaxActive} \subseteq Nat \ {0}
    /\ Len(BackOff) >= Threshold /\ \A i \in DOMAIN BackOff : BackOff[i] \in Nat

VARIABLES
    pool,            \* consecutive failures and cool-down of each endpoint
    poolRest,        \* what is left of the pool's cool-down
    cached,          \* the read cache
    requests,        \* the requests under way
    given,           \* the answers of the last step, for a property
    limit            \* the last rate limit and who else was calling, for a property

rpcVars == <<pool, poolRest, cached, requests, given, limit>>

Endpoints == 1 .. NumEndpoints

RpcKeys == {o.key : o \in Options}

Ttl(o)   == IF o.read THEN o.ttl ELSE 0
Stale(o) == IF o.read THEN o.stale ELSE 0

(* The callers whose answers one entry of the cache serves. *)
OfKey(k) == {o \in Options : o.key = k}

(* Nobody asks for an endless time.  Of those who share a call with others for *)
(* the same thing (at this commit the one read of getSlot without a budget)    *)
(* either all or none take a stale value.                                      *)
ASSUME OptionsAssumption ==
    /\ \A k \in RpcKeys : \E longest, stalest \in OfKey(k) :
         \A o \in OfKey(k) : Ttl(o) <= Ttl(longest) /\ Stale(o) <= Stale(stalest)
    /\ \A o, p \in Options :
         o.key = p.key /\ o.read /\ ~o.own /\ ~p.own /\ Stale(p) > 0 => Stale(o) > 0

(* fresh, keep: until expiresAt and staleUntil. *)
NoEntry == [age |-> 0, fresh |-> 0, keep |-> 0]

Free == [stage |-> "free"]

RpcInit ==
    /\ pool = [e \in Endpoints |-> [failures |-> 0, rest |-> 0]]
    /\ poolRest = 0
    /\ cached = [k \in RpcKeys |-> NoEntry]
    /\ requests = [r \in Slots |-> Free]
    /\ given = {}
    /\ limit = [rest |-> 0, others |-> {}]

-------------------------------------------------------------------------------
(* The pool *)

Healthy(e) == pool[e].failures < Threshold

Preferred(a, b) == IF Healthy(a) = Healthy(b) THEN a < b ELSE Healthy(a)

Candidates ==
    IF poolRest > 0 THEN <<>> ELSE SetToSortSeq({e \in Endpoints : pool[e].rest = 0}, Preferred)

(* Faulty: it ends the pool's cool-down as well. *)
SucceedsForAll(e) ==
    /\ pool' = [pool EXCEPT ![e] = [failures |-> 0, rest |-> 0]]
    /\ poolRest' = 0

(* success *)
Succeeds(e) ==
    /\ pool' = [pool EXCEPT ![e] = [failures |-> 0, rest |-> 0]]
    /\ UNCHANGED poolRest

(* One more failure; BackOff goes no further than its last. *)
Failures(e) == IF pool[e].failures < Len(BackOff) THEN pool[e].failures + 1 ELSE Len(BackOff)

(* failure *)
FailsAgain(e) ==
    /\ pool' = [pool EXCEPT ![e] = [failures |-> Failures(e), rest |-> BackOff[Failures(e)]]]
    /\ UNCHANGED poolRest

(* failure, with rateLimited. *)
IsLimited(e) ==
    /\ pool' = [pool EXCEPT ![e] = [failures |-> Failures(e), rest |-> RateLimitRest]]
    /\ poolRest' = RateLimitRest

-------------------------------------------------------------------------------
(* Requests *)

Calling == {r \in Slots : requests[r].stage = "calling"}

(* r and those that joined it. *)
Party(r) == {q \in Slots : q = r \/ (requests[q].stage = "joined" /\ requests[q].host = r)}

AnswerTo(q, source, age) ==
    [source |-> source, age |-> age, asks |-> q.asks, joined |-> q.stage = "joined"]

(* Every request of r's party ends with this value, or with an error. *)
EndWith(r, source, age) ==
    /\ given' = {AnswerTo(requests[q], source, age) : q \in Party(r)}
    /\ requests' = [q \in Slots |-> IF q \in Party(r) THEN Free ELSE requests[q]]

EndInError(r) ==
    /\ given' = {}
    /\ requests' = [q \in Slots |-> IF q \in Party(r) THEN Free ELSE requests[q]]

(* Faulty: whatever the cache has will do, asked for or not. *)
HasAny(o) == cached[o.key].keep > 0

(* The catch of requestWithMeta. *)
MayFallBack(o) == Stale(o) > 0 /\ cached[o.key].keep > 0

GiveUp(r) ==
    LET o == requests[r].asks IN
    IF MayFallBack(o) THEN EndWith(r, "stale-cache", cached[o.key].age) ELSE EndInError(r)

(* A request that goes on to the next endpoint. *)
Onward(q, aborted) == [q EXCEPT !.ahead = Tail(@), !.age = 0, !.aborted = aborted]

(* The catch of requestNetwork's loop. *)
TryNext(r, aborted) ==
    IF Len(requests[r].ahead) = 1 THEN GiveUp(r)
    ELSE /\ requests' = [requests EXCEPT ![r] = Onward(@, aborted)]
         /\ given' = {}

Hits(o) == Ttl(o) > 0 /\ cached[o.key].fresh > 0

New(o) == [stage |-> "calling", asks |-> o, ahead |-> <<>>, age |-> 0, aborted |-> FALSE]

HitCache(r, o) ==
    /\ requests[r] = Free /\ Hits(o)
    /\ given' = {AnswerTo(New(o), "cache", cached[o.key].age)}
    /\ UNCHANGED <<pool, poolRest, cached, requests, limit>>

(* The requests an equal one may share. *)
Shareable(o) ==
    {h \in Calling : o.read /\ ~o.own /\ ~requests[h].asks.own /\ requests[h].asks.key = o.key}

Join(r, o) ==
    /\ requests[r] = Free /\ ~Hits(o)
    /\ \E h \in Shareable(o) :
         requests' = [requests EXCEPT ![r] = [stage |-> "joined", asks |-> o, host |-> h]]
    /\ given' = {}
    /\ UNCHANGED <<pool, poolRest, cached, limit>>

(* A request of its own, unless too many run (RpcConcurrencyError). *)
Admitted(r, o) ==
    requests[r] = Free /\ ~Hits(o) /\ Shareable(o) = {} /\ Cardinality(Calling) < MaxActive

(* usable: a method not known as a read is sent to one endpoint. *)
Usable(o) == IF o.read \/ Candidates = <<>> THEN Candidates ELSE <<Head(Candidates)>>

Begin(r, o) ==
    /\ Admitted(r, o) /\ Usable(o) # <<>>
    /\ requests' = [requests EXCEPT ![r] = [New(o) EXCEPT !.ahead = Usable(o)]]
    /\ given' = {}
    /\ UNCHANGED <<pool, poolRest, cached, limit>>

(* The pool is cooling down: a stale value, or an error. *)
CoolDown(r, o) ==
    /\ Admitted(r, o) /\ Usable(o) = <<>>
    /\ MayFallBack(o)
    /\ given' = {AnswerTo(New(o), "stale-cache", cached[o.key].age)}
    /\ UNCHANGED <<pool, poolRest, cached, requests, limit>>

(* The result of r's call, stored over whatever the cache has by now. *)
Answers(r) ==
    LET q == requests[r]
        o == q.asks
        entry == [age |-> q.age, fresh |-> Ttl(o), keep |-> Ttl(o) + Stale(o)]
    IN
    /\ r \in Calling
    /\ Succeeds(Head(q.ahead))
    /\ cached' = IF Ttl(o) > 0 \/ Stale(o) > 0 THEN [cached EXCEPT ![o.key] = entry] ELSE cached
    /\ EndWith(r, "network", q.age)
    /\ UNCHANGED limit

(* A payload with an error: the endpoint is well, the request fails over. *)
AnswersError(r) ==
    /\ r \in Calling
    /\ Succeeds(Head(requests[r].ahead))
    /\ TryNext(r, requests[r].aborted)
    /\ UNCHANGED <<cached, limit>>

(* The call's timeout, a refused connection, an HTTP status or a body without  *)
(* a result.  The first two are not held against the endpoint once aborted.    *)
CallFails(r) ==
    /\ r \in Calling
    /\ \/ FailsAgain(Head(requests[r].ahead))
       \/ requests[r].aborted /\ UNCHANGED <<pool, poolRest>>
    /\ TryNext(r, requests[r].aborted)
    /\ UNCHANGED <<cached, limit>>

(* HTTP 429: the pool rests and the loop ends. *)
RateLimited(r) ==
    /\ r \in Calling
    /\ IsLimited(Head(requests[r].ahead))
    /\ GiveUp(r)
    /\ limit' = [rest |-> RateLimitRest, others |-> Calling \ {r}]
    /\ UNCHANGED cached

(* The caller's signal or the budget.  It ends the call under way; the call to *)
(* the next endpoint starts from a signal that has fired and never hears it.   *)
Abort(r) ==
    /\ r \in Calling /\ requests[r].asks.own /\ ~requests[r].aborted
    /\ TryNext(r, TRUE)
    /\ UNCHANGED <<pool, poolRest, cached, limit>>

Less(n) == IF n > 0 THEN n - 1 ELSE 0

(* An entry past staleUntil is as none: nothing reads it. *)
Aged(c) == IF c.keep <= 1 THEN NoEntry ELSE [age |-> c.age + 1, fresh |-> Less(c.fresh), keep |-> c.keep - 1]

TimePasses ==
    /\ \A r \in Calling : requests[r].age < CallTimeout
    /\ pool' = [e \in Endpoints |-> [pool[e] EXCEPT !.rest = Less(@)]]
    /\ poolRest' = Less(poolRest)
    /\ cached' = [k \in RpcKeys |-> Aged(cached[k])]
    /\ requests' = [r \in Slots |-> IF r \in Calling THEN [requests[r] EXCEPT !.age = @ + 1] ELSE requests[r]]
    /\ given' = {}
    /\ limit' = [rest |-> Less(limit.rest), others |-> IF limit.rest > 1 THEN limit.others ELSE {}]

RpcNext ==
    \/ \E r \in Slots :
         \/ \E o \in Options : HitCache(r, o) \/ Join(r, o) \/ Begin(r, o) \/ CoolDown(r, o)
         \/ Answers(r) \/ AnswersError(r) \/ CallFails(r) \/ RateLimited(r) \/ Abort(r)
    \/ TimePasses

RpcSpec == RpcInit /\ [][RpcNext]_rpcVars

-------------------------------------------------------------------------------
(* Properties *)

(* The longest times with which the callers of k store an answer. *)
MaxTtl(k)   == Max({Ttl(o) : o \in OfKey(k)})
MaxStale(k) == Max({Stale(o) : o \in OfKey(k)})

(* How old an answer may be.  A read that asks for no cache (the readiness of  *)
(* chains and programs) has it from a call of its own; one that shares a call  *)
(* from a call that was still under way; a cached value is no older than the   *)
(* call that fetched it and the longest time for which callers of the same key *)
(* store an answer, also after requests that failed, were aborted or overtook  *)
(* each other; and only those who said so are given a cached or a stale one.   *)
(* A caller's own time is no bound: it reads entries as long as they live, and *)
(* another caller of the key may have stored one for longer (line 159).        *)
FreshEnough ==
    \A a \in given :
        /\ a.age <= CallTimeout + CASE a.source = "network"     -> 0
                                    [] a.source = "cache"       -> MaxTtl(a.asks.key)
                                    [] a.source = "stale-cache" -> MaxTtl(a.asks.key) + MaxStale(a.asks.key)
        /\ a.source = "cache" => Ttl(a.asks) > 0
        /\ a.source = "stale-cache" => Stale(a.asks) > 0
        /\ a.asks.own => ~a.joined

Sends(r) ==
    /\ requests'[r].stage = "calling"
    /\ requests[r].stage # "calling" \/ requests'[r].ahead # requests[r].ahead

(* After a rate limit no call is sent until the cool-down is over, whichever   *)
(* endpoint answers well meanwhile.  Only requests that were calling already   *)
(* may go on through the endpoints they had chosen.                            *)
LimitRespected ==
    [][\A r \in Slots : Sends(r) /\ limit.rest > 0 => r \in limit.others]_rpcVars
===============================================================================
