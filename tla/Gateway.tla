------------------------------- MODULE Gateway -------------------------------
(***************************************************************************)
(* A proxy server, from the request of a client to the status it is        *)
(* answered with (src/src/server.rs, Server::serve): the timeout layer,    *)
(* the response cache (src/src/cache.rs, CacheService, on top of           *)
(* DeadlineCacher), the handler (src/src/proxy.rs, MetricsProxier::handle) *)
(* and the backend it scrapes (src/src/client.rs, scrape).                 *)
(*                                                                         *)
(* The server has two paths, one with a cache_duration and one without:    *)
(* the router gives a cache layer of its own to each path of the first     *)
(* kind, and a request for one of the second kind is a fetch from the      *)
(* start.  The module composes DeadlineCacher: it says what is asked of    *)
(* the cache, what the fetches return, and when a call is dropped.  The    *)
(* clock is the one of the cache.                                          *)
(***************************************************************************)
EXTENDS Naturals, FiniteSets

CONSTANTS
    Requests,        \* the requests
    Asks,            \* what a request may ask for
    Results,         \* how the backend may end a fetch within the timeout
    Staleness,       \* cache_duration of the path that has one
    ConnectTimeout,  \* timeout of connect_to
    RequestTimeout,  \* request_response_timeout of listen_on
    LastArrival,     \* bound: no request comes in after this time
    Nobody,
    NoKey,
    Absent           \* no such header, no query string

\* The backend answers 200 with metrics, or with a body that is not UTF-8 text
\* of metrics, or with another status, or the exchange fails.
Metrics == [kind |-> "metrics"]
Garbage == [kind |-> "garbage"]
Status(code) == [kind |-> "status", code |-> code]
Down    == [kind |-> "down"]
Late    == [kind |-> "late"]
NoResult == [kind |-> "none"]

\* What the cache files a response under.
CacheKey(a) == <<a.query, a.authorization>>

ASSUME ConstantsAssumption ==
    /\ Results \subseteq {Metrics, Garbage, Down} \union {Status(c) : c \in 100..599 \ {200}}
    /\ \A a \in Asks : a.cached \in BOOLEAN
    /\ Staleness \in Nat \ {0}
    /\ ConnectTimeout \in Nat \ {0}
    /\ RequestTimeout \in Nat \ {0}
    /\ LastArrival \in Nat
    /\ Nobody \notin Requests
    /\ NoKey \notin {CacheKey(a) : a \in Asks}
    /\ Absent \notin Asks

VARIABLES
    now, pc, key, arrivedAt, queue, mutex, variants, guard, fetchedAt, reaper,
    answer,     \* see DeadlineCacher
    asked,      \* what each request asks for
    direct,     \* where each request is that meets no cache
    sentAt,     \* when each request's fetch was begun
    result,     \* how each request's fetch ended
    status,     \* the status each client has got, 0 before
    hits,       \* the counters of CacheMetrics
    misses

cacheVars == <<now, pc, key, arrivedAt, queue, mutex, variants, guard, fetchedAt,
               reaper, answer>>
vars == <<cacheVars, asked, direct, sentAt, result, status, hits, misses>>

Cache == INSTANCE DeadlineCacher WITH
            Keys <- {CacheKey(a) : a \in Asks}, Outcomes <- BOOLEAN, MaxLag <- 0,
            Prompt <- TRUE, MaxTime <- LastArrival + RequestTimeout

TypeOK ==
    /\ Cache!TypeOK
    /\ asked \in [Requests -> Asks \union {Absent}]
    /\ direct \in [Requests -> {"none", "fetching", "done", "cancelled"}]
    /\ sentAt \in [Requests -> Nat]
    /\ result \in [Requests -> Results \union {Late, NoResult}]
    /\ status \in [Requests -> {0} \union 100..599]
    /\ hits \in Nat
    /\ misses \in Nat

Init ==
    /\ Cache!Init
    /\ asked = [r \in Requests |-> Absent]
    /\ direct = [r \in Requests |-> "none"]
    /\ sentAt = [r \in Requests |-> 0]
    /\ result = [r \in Requests |-> NoResult]
    /\ status = [r \in Requests |-> 0]
    /\ hits = 0
    /\ misses = 0

-----------------------------------------------------------------------------
(***************************************************************************)
(* The handler.                                                            *)
(***************************************************************************)
\* What of a request reaches the backend: the URL is the one of connect_to, and
\* of the headers only Accept is relayed.
Forwarded(a) == [query |-> Absent, authorization |-> Absent, accept |-> a.accept]

\* The status of the handler's response.
HandlerStatus(res) ==
    CASE res.kind = "metrics" -> 200
      [] res.kind = "garbage" -> 500
      [] res.kind = "status"  -> res.code
      [] res.kind = "down"    -> 502
      [] res.kind = "late"    -> 504

\* Variant: the backend's own fault is what must not be cached.
IsNotServerError(code) == code < 500

\* StatusCode::is_success: such a response is cached.
IsSuccess(code) == code \in 200..299

\* Variant: whatever the client did wrong is taken for a timeout.
GatewayTimeoutOfClientErrors(code) == IF code \in 400..499 THEN 504 ELSE code

\* The outermost layer: 408, from the timeout layer, becomes 504.
GatewayTimeout(code) == IF code = 408 THEN 504 ELSE code

Fetching(r) == pc[r] = "fetching" \/ direct[r] = "fetching"
Running(r)  == pc[r] \in {"locking", "reading"} \/ Fetching(r)

\* A request that meets no cache is sent on when it comes in.
OwnDeadline(r) ==
    (IF direct[r] = "none" THEN arrivedAt[r] ELSE sentAt[r]) + RequestTimeout
FetchDeadline(r) == sentAt[r] + ConnectTimeout

(***************************************************************************)
(* The requests.                                                           *)
(***************************************************************************)
\* A request is routed to the cache or, where there is none, to the handler.
Arrive(r, a) ==
    /\ now <= LastArrival
    /\ pc[r] = "idle" /\ direct[r] = "none"
    /\ \/ /\ a.cached
          /\ Cache!Call(r, CacheKey(a))
          /\ UNCHANGED <<direct, sentAt>>
       \/ /\ ~a.cached
          /\ direct' = [direct EXCEPT ![r] = "fetching"]
          /\ sentAt' = [sentAt EXCEPT ![r] = now]
          /\ UNCHANGED cacheVars
    /\ asked' = [asked EXCEPT ![r] = a]
    /\ UNCHANGED <<result, status, hits, misses>>

\* Variant: a request is counted when it is looked up, not when it is answered.
CountedAtOnce(r) ==
    /\ Cache!LookUp(r) \/ Cache!GuardReleased(r)
    /\ sentAt' = IF pc'[r] = "fetching" THEN [sentAt EXCEPT ![r] = now] ELSE sentAt
    /\ status' = IF pc'[r] = "done"
                   THEN [status EXCEPT ![r] = GatewayTimeout(HandlerStatus(result[answer'[r]]))]
                   ELSE status
    /\ hits' = IF pc[r] = "locking" /\ pc'[r] # "fetching" THEN hits + 1 ELSE hits
    /\ UNCHANGED <<asked, direct, result, misses>>

\* The cache answers the request with what another one fetched, has it fetch, or
\* has it wait.  An answer of the cache is a hit.
CacheMoves(r) ==
    /\ Cache!LookUp(r) \/ Cache!GuardReleased(r)
    /\ sentAt' = IF pc'[r] = "fetching" THEN [sentAt EXCEPT ![r] = now] ELSE sentAt
    /\ status' = IF pc'[r] = "done"
                   THEN [status EXCEPT ![r] = GatewayTimeout(HandlerStatus(result[answer'[r]]))]
                   ELSE status
    /\ hits' = IF pc'[r] = "done" THEN hits + 1 ELSE hits
    /\ UNCHANGED <<asked, direct, result, misses>>

\* The fetch of a request ends: the response goes to the client and, if it is a
\* success, into the cache.  What the cache had to fetch is a miss.
FetchEnds(r, res) ==
    /\ \/ /\ Cache!FetchDone(r)
          /\ guard'[r] = "value" <=> IsSuccess(HandlerStatus(res))
          /\ misses' = misses + 1
          /\ UNCHANGED direct
       \/ /\ direct[r] = "fetching"
          /\ direct' = [direct EXCEPT ![r] = "done"]
          /\ UNCHANGED <<cacheVars, misses>>
    /\ result' = [result EXCEPT ![r] = res]
    /\ status' = [status EXCEPT ![r] = GatewayTimeout(HandlerStatus(res))]
    /\ UNCHANGED <<asked, sentAt, hits>>

BackendAnswers(r) ==
    /\ now < FetchDeadline(r)
    /\ \E res \in Results : FetchEnds(r, res)

\* The backend has been given the time that connect_to says, body included.
BackendIsLate(r) ==
    /\ now >= FetchDeadline(r)
    /\ FetchEnds(r, Late)

\* Variant: a request that is dropped with the Mutex in its hands keeps it.
AbortKeepsMutex(r) ==
    \/ /\ pc[r] = "reading"
       /\ pc' = [pc EXCEPT ![r] = "cancelled"]
       /\ UNCHANGED <<now, key, arrivedAt, queue, mutex, variants, guard, fetchedAt,
                      reaper, answer, direct>>
    \/ pc[r] # "reading" /\ Cache!Cancel(r) /\ UNCHANGED direct
    \/ /\ direct[r] = "fetching"
       /\ direct' = [direct EXCEPT ![r] = "cancelled"]
       /\ UNCHANGED cacheVars

\* The future of the request is dropped wherever it is.
Abort(r) ==
    \/ Cache!Cancel(r) /\ UNCHANGED direct
    \/ /\ direct[r] = "fetching"
       /\ direct' = [direct EXCEPT ![r] = "cancelled"]
       /\ UNCHANGED cacheVars

\* The timeout layer gives up on the request, and answers 408.
TimeOut(r) ==
    /\ Running(r)
    /\ now >= OwnDeadline(r)
    /\ Abort(r)
    /\ status' = [status EXCEPT ![r] = GatewayTimeout(408)]
    /\ UNCHANGED <<asked, sentAt, result, hits, misses>>

\* The client goes away, or the handler panics: there is no response.
Drop(r) ==
    /\ Abort(r)
    /\ UNCHANGED <<asked, sentAt, result, status, hits, misses>>

Evict(r) ==
    /\ Cache!ReaperWake(r) \/ Cache!ReaperRun(r)
    /\ UNCHANGED <<asked, direct, sentAt, result, status, hits, misses>>

\* Time passes; the timers of requests and fetches fire when they are due.
Tick ==
    /\ \A r \in Requests : Running(r) => now < OwnDeadline(r)
    /\ \A r \in Requests : Fetching(r) => now < FetchDeadline(r)
    /\ Cache!Tick
    /\ UNCHANGED <<asked, direct, sentAt, result, status, hits, misses>>

\* No client waits or is to come: the server may rest.
AtRest ==
    /\ \A r \in Requests : /\ ~Running(r)
                           /\ asked[r] = Absent => now > LastArrival
    /\ UNCHANGED vars

Next ==
    \/ \E r \in Requests, a \in Asks : Arrive(r, a)
    \/ \E r \in Requests : CacheMoves(r)
    \/ \E r \in Requests : BackendAnswers(r)
    \/ \E r \in Requests : BackendIsLate(r)
    \/ \E r \in Requests : TimeOut(r)
    \/ \E r \in Requests : Drop(r)
    \/ \E r \in Requests : Evict(r)
    \/ Tick
    \/ AtRest

Spec == Init /\ [][Next]_vars

(***************************************************************************)
(* The timers fire and the tasks that are ready run.  The backend need     *)
(* never answer, and no client need ever ask or go away.                   *)
(***************************************************************************)
Fairness ==
    /\ \A r \in Requests : /\ WF_vars(CacheMoves(r))
                           /\ WF_vars(BackendIsLate(r))
                           /\ WF_vars(TimeOut(r))
                           /\ WF_vars(Evict(r))
    /\ WF_vars(Tick)

FairSpec == Spec /\ Fairness
-----------------------------------------------------------------------------
\* "Successful metrics fetches from the backend" are cached (README), and none
\* but those: what a client is served from the fetch of another one is a
\* success, even if the failure came back while both were waiting.
ErrorsAreNotShared ==
    \A r \in Requests :
        answer[r] \notin {Nobody, r} => result[answer[r]].kind \notin {"down", "late", "garbage"}
                                        /\ status[r] \in 200..299

\* A request that waits for the fetch of another one has the Mutex of the whole
\* cache in its hands meanwhile.  It gives it back, even if the backend never
\* answers and whoever is dropped.
CacheComesFree ==
    \A r \in Requests : mutex = r ~> mutex # r

\* The cache has asked the backend on behalf of r, and the answer has come back; or it
\* is still on its way.
Returned(r) == result[r] # NoResult /\ direct[r] = "none"
Fetches(r)  == pc[r] = "fetching" \/ Returned(r)

\* The fetches for a key of the cache that came back were all successes.
Succeeds(k) == \A e \in Requests : Returned(e) /\ key[e] = k => status[e] \in 200..299

\* "Parallel requests to the same resource are consolidated into a single backend
\* request" (cache.rs), and successes are "cached for that duration of time" (README):
\* a backend that has answered all fetches of a resource with success is not asked for
\* it again before cache_duration has passed since its last answer, whatever was
\* dropped or timed out and however the requests came in.
BackendIsSpared ==
    \A r, q \in Requests :
        r # q /\ Fetches(r) /\ Fetches(q) /\ key[r] = key[q] /\ Succeeds(key[r]) =>
            \/ Returned(r) /\ sentAt[q] >= fetchedAt[r] + Staleness
            \/ Returned(q) /\ sentAt[r] >= fetchedAt[q] + Staleness

(***************************************************************************)
(* The server as its clients and its backend see it: what can be served    *)
(* for a key is the entry of a client that got a success for its own       *)
(* fetch, and a key is failing once a client got anything else for one.    *)
(***************************************************************************)
CacheKeys == {CacheKey(a) : a \in Asks}

asking == [r \in Requests |->
              CASE pc[r] \in {"locking", "reading"} -> "waiting"
                [] pc[r] \in {"done", "cancelled"}  -> "ended"
                [] OTHER                            -> pc[r]]

servable == [k \in CacheKeys |->
                IF variants[k] # Nobody /\ status[variants[k]] \in 200..299
                  THEN variants[k] ELSE Nobody]

failing == {k \in CacheKeys : ~Succeeds(k)}

Coalescing == INSTANCE CoalescingCache WITH
                Keys <- CacheKeys, Lag <- 0, call <- asking, madeAt <- arrivedAt,
                store <- servable, readyAt <- fetchedAt, uncacheable <- failing

\* The cached path keeps the promises of a coalescing cache in the terms of its clients
\* (server.rs, Server::serve, over cache.rs), with timeouts dropping them anywhere: who
\* is answered without a fetch of its own gets the entry of a client that got a success,
\* in date when it asked; the backend is asked only for what cannot be served, by one
\* client at a time; and an entry that can be served goes when its time is over, not
\* before, until a client has got anything but a success for the key.
ClientsShareSuccesses == Coalescing!Spec

\* What the telemetry says of a cached path adds up, whoever is dropped on the way:
\* each answer that came out of the cache layer was counted once, and the misses are
\* the requests the backend was asked for and that ended.  What the timeout layer
\* answers, and the fetches that were dropped, are in neither counter.
CountsAddUp ==
    /\ hits + misses = Cardinality({r \in Requests : pc[r] = "done"})
    /\ misses = Cardinality({r \in Requests : Returned(r)})

\* "504 status codes indicate the backend server failed to respond on time"
\* (README): a request that meets no cache gets one only if its fetch used up the
\* timeout of connect_to (or the shorter one of listen_on), or the backend has
\* said as much itself, 408 included.  A request for a cached path may have spent
\* its timeout waiting for the cache instead.
LateMeansLate ==
    \A r \in Requests :
        status[r] = 504 =>
            \/ result[r] \in {Late, Status(504), Status(408)}
            \/ /\ result[r] = NoResult
               /\ now >= OwnDeadline(r)
               /\ asked[r].cached \/ RequestTimeout <= ConnectTimeout

\* "Backends that generate different contents based on these headers and query
\* strings will be cached correctly" (README): what a client is served was
\* generated for its own query string and authorization.
CachedCorrectly ==
    \A r \in Requests :
        answer[r] # Nobody =>
            CacheKey(Forwarded(asked[answer[r]])) = CacheKey(asked[r])
=============================================================================
