---------------------------- MODULE GatewayProofs ----------------------------
(***************************************************************************)
(* Proofs about Gateway, for any requests, timeouts and backend.           *)
(***************************************************************************)
EXTENDS Gateway, Sequences, FiniteSetTheorems, TLAPS

\* Every step of the server (server.rs, Server::serve) is a step of the cache, or
\* leaves it alone.
LEMMA CacheStep ==
    ASSUME [Next]_vars
    PROVE  [Cache!Next]_(Cache!vars)
<1> USE DEF cacheVars, Cache!vars
<1>1. ASSUME NEW r \in Requests, NEW a \in Asks, Arrive(r, a)
      PROVE  [Cache!Next]_(Cache!vars)
  BY <1>1 DEF Arrive, Cache!Next
<1>2. ASSUME NEW r \in Requests, CacheMoves(r)
      PROVE  Cache!Next
  BY <1>2 DEF CacheMoves, Cache!Next
<1>3. ASSUME NEW r \in Requests, NEW res, FetchEnds(r, res)
      PROVE  [Cache!Next]_(Cache!vars)
  BY <1>3 DEF FetchEnds, Cache!Next
<1>4. ASSUME NEW r \in Requests, Abort(r)
      PROVE  [Cache!Next]_(Cache!vars)
  BY <1>4 DEF Abort, Cache!Next
<1>5. ASSUME NEW r \in Requests, Evict(r)
      PROVE  Cache!Next
  BY <1>5 DEF Evict, Cache!Next
<1>6. CASE Tick
  BY <1>6 DEF Tick, Cache!Next
<1>7. CASE UNCHANGED vars
  BY <1>7 DEF vars
<1>8. QED
  BY <1>1, <1>2, <1>3, <1>4, <1>5, <1>6, <1>7
     DEF Next, BackendAnswers, BackendIsLate, TimeOut, Drop, AtRest

\* The theorems about the cache, for the cache the server runs.
Proved == INSTANCE RefinementProofs WITH
             Keys <- {CacheKey(a) : a \in Asks}, Outcomes <- BOOLEAN, MaxLag <- 0,
             Prompt <- TRUE, MaxTime <- LastArrival + RequestTimeout

\* The cache that is run and the cache the theorems are about are one.
LEMMA SameCache ==
    /\ Cache!Init => Proved!Init
    /\ [Cache!Next]_(Cache!vars) => [Proved!Next]_(Proved!vars)
    /\ Proved!HitsAreFresh => Cache!HitsAreFresh
<1>1. Cache!Init => Proved!Init
  BY DEF Cache!Init, Proved!Init
<1>2. Proved!HitsAreFresh => Cache!HitsAreFresh
  BY DEF Proved!HitsAreFresh, Cache!HitsAreFresh, Cache!Deadline, Proved!Deadline
<1>3. ASSUME Cache!Next PROVE Proved!Next
  <2>1. ASSUME NEW r \in Requests, NEW k \in {CacheKey(a) : a \in Asks}, Cache!Call(r, k)
        PROVE  Proved!Call(r, k)
    BY <2>1 DEF Cache!Call, Cache!Request, Proved!Call, Proved!Request
  <2>2. ASSUME NEW r \in Requests, Cache!LookUp(r)
        PROVE  Proved!LookUp(r)
    BY <2>2
       DEF Cache!LookUp, Cache!Turn, Cache!Hit, Cache!Miss, Cache!AwaitGuard,
           Cache!Cached, Cache!InFlight, Cache!Entry, Cache!Request,
           Proved!LookUp, Proved!Turn, Proved!Hit, Proved!Miss,
           Proved!AwaitGuard, Proved!Cached, Proved!InFlight, Proved!Entry,
           Proved!Request
  <2>3. ASSUME NEW r \in Requests, Cache!GuardReleased(r)
        PROVE  Proved!GuardReleased(r)
    BY <2>3
       DEF Cache!GuardReleased, Cache!Hit, Cache!Miss, Cache!Cached,
           Cache!InFlight, Cache!Entry, Proved!GuardReleased, Proved!Hit,
           Proved!Miss, Proved!Cached, Proved!InFlight, Proved!Entry
  <2>4. ASSUME NEW r \in Requests, Cache!FetchDone(r)
        PROVE  Proved!FetchDone(r)
    BY <2>4 DEF Cache!FetchDone, Proved!FetchDone
  <2>5. ASSUME NEW r \in Requests, Cache!Cancel(r)
        PROVE  Proved!Cancel(r)
    BY <2>5 DEF Cache!Cancel, Cache!Request, Cache!RemoveAt,
                 Proved!Cancel, Proved!Request, Proved!RemoveAt
  <2>6. ASSUME NEW r \in Requests, Cache!ReaperWake(r)
        PROVE  Proved!ReaperWake(r)
    BY <2>6 DEF Cache!ReaperWake, Cache!Reaper, Proved!ReaperWake, Proved!Reaper
  <2>7. ASSUME NEW r \in Requests, Cache!ReaperRun(r)
        PROVE  Proved!ReaperRun(r)
    BY <2>7
       DEF Cache!ReaperRun, Cache!Reaper, Cache!Turn, Proved!ReaperRun,
           Proved!Reaper, Proved!Turn
  <2>8. ASSUME Cache!Tick
        PROVE  Proved!Tick
    BY <2>8
       DEF Cache!Tick, Cache!Ready, Cache!Deadline, Cache!InFlight,
           Cache!Entry, Proved!Tick, Proved!Ready, Proved!Deadline,
           Proved!InFlight, Proved!Entry
  <2>9. ASSUME Cache!AtRest
        PROVE  Proved!AtRest
    BY <2>9 DEF Cache!AtRest, Cache!vars, Proved!AtRest, Proved!vars
  <2>10. QED
    BY <1>3, <2>1, <2>2, <2>3, <2>4, <2>5, <2>6, <2>7, <2>8, <2>9
       DEF Cache!Next, Proved!Next
<1>4. QED
  BY <1>1, <1>2, <1>3 DEF Cache!vars, Proved!vars

\* The invariant of the cache, in the server.
LEMMA CacheInvariance == Spec => []Proved!IInv
<1>1. Proved!ConstantsAssumption
  BY ConstantsAssumption DEF Proved!ConstantsAssumption
<1>2. Init => Proved!IInv
  BY <1>1, SameCache, Proved!InitIInv DEF Init
<1>3. Proved!IInv /\ [Next]_vars => Proved!IInv'
  BY <1>1, CacheStep, SameCache, Proved!NextIInv
<1>4. QED
  BY <1>2, <1>3, PTL DEF Spec

\* A client is served from the cache only what was fetched for its own query string
\* and credentials by a fetch worth caching, and had not outlived cache_duration
\* when the request came in.
THEOREM ServedFresh == Spec => []Cache!HitsAreFresh
<1>1. Proved!IInv => Cache!HitsAreFresh
  BY SameCache DEF Proved!IInv
<1>2. QED
  BY <1>1, CacheInvariance, PTL

-----------------------------------------------------------------------------
(***************************************************************************)
(* Statuses and counters.                                                  *)
(***************************************************************************)

\* The request is over: it was answered, or dropped.
Over(r) == pc[r] \in {"done", "cancelled"} \/ direct[r] \in {"done", "cancelled"}

\* A request takes one of the two paths.  It has a status and a result only when it
\* is over, and a fetch without a cache is ended by the connector's timeout.
RequestInv ==
    \A r \in Requests :
        /\ direct[r] # "none" => pc[r] = "idle"
        /\ pc[r] # "idle" => asked[r] \in Asks /\ asked[r].cached
        /\ direct[r] = "fetching" => now <= FetchDeadline(r)
        /\ status[r] # 0 => Over(r)
        /\ result[r] # NoResult => pc[r] = "done" \/ direct[r] = "done"

\* The response of e may be shared.
Shareable(e) == pc[e] = "done" /\ IsSuccess(HandlerStatus(result[e]))

\* What stands in the cache, and what came out of it, may be shared.
ServedInv ==
    \A r \in Requests :
        /\ guard[r] = "value" => Shareable(r)
        /\ answer[r] \notin {Nobody, r} => Shareable(answer[r]) /\ status[r] \in 200..299

StatusInv == TypeOK /\ RequestInv /\ ServedInv /\ LateMeansLate

\* What is used here of the cache's invariant.
LEMMA CacheFacts ==
    ASSUME Proved!IInv
    PROVE  /\ Cache!TypeOK
           /\ \A r \in Requests : pc[r] # "done" => answer[r] = Nobody
           /\ \A r \in Requests : guard[r] = "value" => pc[r] = "done"
           /\ \A r \in Requests : \A i \in 1..Len(queue) :
                 queue[i] = Cache!Request(r) => pc[r] = "locking"
           /\ \A r \in Requests : pc[r] # "idle" => key[r] \in {CacheKey(a) : a \in Asks}
<1>1. Cache!TypeOK
  BY DEF Proved!IInv, Proved!TypeOK, Cache!TypeOK, Proved!PcLabels, Cache!PcLabels,
         Proved!GuardStates, Cache!GuardStates, Proved!ReaperStates,
         Cache!ReaperStates, Proved!Waiters, Cache!Waiters
<1>2. QED
  BY <1>1 DEF Proved!IInv, Proved!GuardInv, Proved!QueueInv, Proved!Request, Cache!Request

\* What the cache may do for a request that waits for it.
LEMMA MoveEffect ==
    ASSUME Proved!IInv, NEW r \in Requests, Cache!LookUp(r) \/ Cache!GuardReleased(r)
    PROVE  /\ pc[r] \in {"locking", "reading"}
           /\ \E p \in {"done", "fetching", "reading"} : pc' = [pc EXCEPT ![r] = p]
           /\ UNCHANGED <<now, arrivedAt>>
           /\ \A e \in Requests : guard'[e] = "value" => guard[e] = "value"
           /\ pc'[r] # "done" => UNCHANGED answer
           /\ pc'[r] = "done" => \E e \in Requests : /\ guard[e] = "value"
                                                     /\ answer' = [answer EXCEPT ![r] = e]
<1>1. pc[r] \in {"locking", "reading"}
  <2>1. CASE Cache!LookUp(r)
    <3>1. queue # << >> /\ queue \in Seq(Cache!Waiters) /\ queue[1] = Cache!Request(r)
      BY <2>1, CacheFacts DEF Cache!LookUp, Cache!Turn, Cache!TypeOK
    <3>2. 1 \in 1..Len(queue)
      BY <3>1
    <3>3. QED
      BY <3>1, <3>2, CacheFacts
  <2>2. CASE Cache!GuardReleased(r)
    BY <2>2 DEF Cache!GuardReleased
  <2>3. QED
    BY <2>1, <2>2
<1>2. /\ Cache!Hit(r) \/ Cache!Miss(r) \/ Cache!AwaitGuard(r)
      /\ UNCHANGED <<now, arrivedAt>>
  BY DEF Cache!LookUp, Cache!GuardReleased
<1>3. /\ pc \in [Requests -> Cache!PcLabels]
      /\ guard \in [Requests -> Cache!GuardStates]
      /\ Cache!Entry(r) \in Requests \union {Nobody}
  BY <1>1, CacheFacts DEF Cache!TypeOK, Cache!Entry
<1>4. CASE Cache!Hit(r)
  BY <1>1, <1>2, <1>3, <1>4 DEF Cache!Hit, Cache!Cached
<1>5. CASE Cache!Miss(r)
  BY <1>1, <1>2, <1>3, <1>5 DEF Cache!Miss
<1>6. CASE Cache!AwaitGuard(r)
  BY <1>1, <1>2, <1>3, <1>6 DEF Cache!AwaitGuard
<1>7. QED
  BY <1>2, <1>4, <1>5, <1>6

\* What the drop of a request does to the two paths.
LEMMA AbortEffect ==
    ASSUME Proved!IInv, TypeOK, RequestInv, NEW r \in Requests, Abort(r)
    PROVE  /\ Running(r) /\ ~Over(r)
           /\ Over(r)'
           /\ \/ pc' = [pc EXCEPT ![r] = "cancelled"] /\ pc[r] # "idle" /\ UNCHANGED direct
              \/ direct' = [direct EXCEPT ![r] = "cancelled"] /\ direct[r] = "fetching" /\ UNCHANGED pc
           /\ UNCHANGED <<now, arrivedAt, answer>>
           /\ \A e \in Requests : guard'[e] = "value" => guard[e] = "value"
<1>1. /\ pc \in [Requests -> Cache!PcLabels]
      /\ guard \in [Requests -> Cache!GuardStates]
      /\ direct \in [Requests -> {"none", "fetching", "done", "cancelled"}]
      /\ direct[r] # "none" => pc[r] = "idle"
  BY DEF TypeOK, Cache!TypeOK, RequestInv
<1>2. CASE Cache!Cancel(r) /\ UNCHANGED direct
  BY <1>1, <1>2 DEF Cache!Cancel, Running, Fetching, Over
<1>3. CASE /\ direct[r] = "fetching"
           /\ direct' = [direct EXCEPT ![r] = "cancelled"]
           /\ UNCHANGED cacheVars
  BY <1>1, <1>3 DEF cacheVars, Running, Fetching, Over
<1>4. QED
  BY <1>2, <1>3 DEF Abort

\* The status a fetch ends with.
LEMMA HandlerStatuses ==
    ASSUME NEW res \in Results \union {Late}
    PROVE  /\ HandlerStatus(res) \in 100..599
           /\ GatewayTimeout(HandlerStatus(res)) \in 100..599
           /\ GatewayTimeout(HandlerStatus(res)) = 504 => res \in {Late, Status(504), Status(408)}
           /\ IsSuccess(HandlerStatus(res)) => res.kind \notin {"down", "late", "garbage"}
           /\ res # NoResult
<1>1. \/ res = Metrics \/ res = Garbage \/ res = Down \/ res = Late
      \/ \E c \in 100..599 : res = Status(c)
  BY ConstantsAssumption
<1>2. CASE res \in {Metrics, Garbage, Down, Late}
  BY <1>2 DEF HandlerStatus, GatewayTimeout, IsSuccess, Metrics, Garbage, Down, Late, NoResult
<1>3. ASSUME NEW c \in 100..599, res = Status(c)
      PROVE  HandlerStatus(res) = c /\ res.kind = "status"
  BY <1>3 DEF HandlerStatus, Status
<1>4. CASE \E c \in 100..599 : res = Status(c)
  <2>1. PICK c \in 100..599 : res = Status(c)
    BY <1>4
  <2>2. HandlerStatus(res) = c /\ res.kind = "status"
    BY <1>3, <2>1
  <2>3. /\ GatewayTimeout(c) \in 100..599
        /\ GatewayTimeout(c) = 504 => c \in {504, 408}
    BY DEF GatewayTimeout
  <2>4. res # NoResult
    BY <2>2 DEF NoResult
  <2>5. QED
    BY <2>1, <2>2, <2>3, <2>4
<1>5. QED
  BY <1>1, <1>2, <1>4

LEMMA TypeFacts ==
    ASSUME TypeOK
    PROVE  /\ pc \in [Requests -> Cache!PcLabels]
           /\ guard \in [Requests -> Cache!GuardStates]
           /\ answer \in [Requests -> Requests \union {Nobody}]
           /\ arrivedAt \in [Requests -> Nat]
           /\ now \in Nat
           /\ asked \in [Requests -> Asks \union {Absent}]
           /\ direct \in [Requests -> {"none", "fetching", "done", "cancelled"}]
           /\ sentAt \in [Requests -> Nat]
           /\ result \in [Requests -> Results \union {Late, NoResult}]
           /\ status \in [Requests -> {0} \union 100..599]
           /\ hits \in Nat
           /\ misses \in Nat
  BY DEF TypeOK, Cache!TypeOK

LEMMA InitStatus == Init => StatusInv
<1> SUFFICES ASSUME Init PROVE StatusInv
  OBVIOUS
<1>1. Cache!TypeOK
  <2>1. Proved!IInv
    BY SameCache, Proved!InitIInv, ConstantsAssumption DEF Init, Proved!ConstantsAssumption
  <2>2. QED
    BY <2>1, CacheFacts
<1>2. QED
  BY <1>1 DEF Init, Cache!Init, StatusInv, TypeOK, RequestInv, ServedInv, LateMeansLate, Over

LEMMA ArriveKeepsStatuses ==
    ASSUME Proved!IInv, Cache!TypeOK', StatusInv,
           NEW r \in Requests, NEW a \in Asks, Arrive(r, a)
    PROVE  StatusInv'
<1> USE DEF StatusInv
<1>1. /\ now' = now /\ guard' = guard /\ answer' = answer
      /\ pc[r] = "idle" /\ direct[r] = "none"
      /\ asked' = [asked EXCEPT ![r] = a]
      /\ UNCHANGED <<result, status, hits, misses>>
      /\ \/ /\ a.cached
            /\ pc' = [pc EXCEPT ![r] = "locking"]
            /\ arrivedAt' = [arrivedAt EXCEPT ![r] = now]
            /\ UNCHANGED <<direct, sentAt>>
         \/ /\ direct' = [direct EXCEPT ![r] = "fetching"]
            /\ sentAt' = [sentAt EXCEPT ![r] = now]
            /\ UNCHANGED <<pc, arrivedAt>>
  BY DEF Arrive, Cache!Call, cacheVars
<1>2. TypeOK'
  BY <1>1, TypeFacts DEF TypeOK
<1>3. RequestInv'
  BY <1>1, TypeFacts, ConstantsAssumption DEF RequestInv, Over, FetchDeadline
<1>4. ServedInv'
  BY <1>1, TypeFacts DEF ServedInv, Shareable
<1>5. LateMeansLate'
  <2>1. status[r] = 0
    BY <1>1 DEF RequestInv, Over
  <2>2. ASSUME NEW q \in Requests, q # r
        PROVE  asked'[q] = asked[q] /\ OwnDeadline(q)' = OwnDeadline(q)
    BY <1>1, <2>2, TypeFacts DEF OwnDeadline
  <2>3. QED
    BY <1>1, <2>1, <2>2 DEF LateMeansLate
<1>6. QED
  BY <1>2, <1>3, <1>4, <1>5

LEMMA MovesKeepStatuses ==
    ASSUME Proved!IInv, Cache!TypeOK', StatusInv, NEW r \in Requests, CacheMoves(r)
    PROVE  StatusInv'
<1> USE DEF StatusInv
<1>1. PICK p \in {"done", "fetching", "reading"} : pc' = [pc EXCEPT ![r] = p]
  BY MoveEffect DEF CacheMoves
<1>2. /\ pc'[r] = p
      /\ pc[r] \in {"locking", "reading"}
      /\ UNCHANGED <<now, arrivedAt>>
      /\ \A e \in Requests : guard'[e] = "value" => guard[e] = "value"
      /\ p # "done" => UNCHANGED answer
      /\ p = "done" => \E e \in Requests : /\ guard[e] = "value"
                                           /\ answer' = [answer EXCEPT ![r] = e]
  BY ZenonT(30), <1>1, MoveEffect, TypeFacts DEF CacheMoves
<1>3. /\ sentAt' = IF p = "fetching" THEN [sentAt EXCEPT ![r] = now] ELSE sentAt
      /\ status' = IF p = "done"
                     THEN [status EXCEPT ![r] = GatewayTimeout(HandlerStatus(result[answer'[r]]))]
                     ELSE status
      /\ hits' = IF p = "done" THEN hits + 1 ELSE hits
      /\ UNCHANGED <<asked, direct, result, misses>>
  BY <1>2 DEF CacheMoves
<1>4. direct[r] = "none" /\ status[r] = 0 /\ result[r] = NoResult
  BY <1>2, TypeFacts DEF RequestInv, Over
<1>5. p = "done" => status'[r] \in 200..299
  <2>1. SUFFICES ASSUME p = "done" PROVE status'[r] \in 200..299
    OBVIOUS
  <2>2. PICK e \in Requests : guard[e] = "value" /\ answer' = [answer EXCEPT ![r] = e]
    BY <1>2, <2>1
  <2>3. status'[r] = GatewayTimeout(HandlerStatus(result[e]))
    BY <1>3, <2>1, <2>2, TypeFacts
  <2>4. IsSuccess(HandlerStatus(result[e]))
    BY <2>2 DEF ServedInv, Shareable
  <2>5. QED
    BY <2>3, <2>4 DEF IsSuccess, GatewayTimeout
<1>6. \A q \in Requests : q # r => status'[q] = status[q]
  BY <1>3, TypeFacts
<1>7. TypeOK'
  <2>1. status' \in [Requests -> {0} \union 100..599]
    <3>1. CASE p # "done"
      BY <1>3, <3>1, TypeFacts
    <3>2. ASSUME p = "done", NEW v, status' = [status EXCEPT ![r] = v]
          PROVE  status' \in [Requests -> {0} \union 100..599]
      <4>1. v \in 200..299
        BY <1>5, <3>2, TypeFacts
      <4>2. QED
        BY <3>2, <4>1, TypeFacts
    <3>3. QED
      BY <1>3, <3>1, <3>2
  <2>2. QED
    <3>1. sentAt' \in [Requests -> Nat] /\ hits' \in Nat
      <4>1. now \in Nat /\ sentAt \in [Requests -> Nat] /\ hits \in Nat
        BY TypeFacts
      <4>2. QED
        BY <1>3, <4>1
    <3>2. QED
      BY <1>3, <2>1, <3>1 DEF TypeOK
<1>8. RequestInv'
  BY <1>1, <1>2, <1>3, <1>4, <1>6, TypeFacts, ConstantsAssumption DEF RequestInv, Over, FetchDeadline
<1>9. ServedInv'
  <2>1. \A e \in Requests : Shareable(e) => Shareable(e)'
    BY <1>1, <1>2, <1>3, TypeFacts DEF Shareable
  <2>2. \A q \in Requests : q # r => answer'[q] = answer[q]
    BY <1>2, TypeFacts
  <2>3. answer'[r] # Nobody => p = "done" /\ Shareable(answer'[r])
    <3>1. answer[r] = Nobody
      BY <1>2, CacheFacts
    <3>2. QED
      BY <1>2, <3>1, TypeFacts DEF ServedInv
  <2>4. answer'[r] \in Requests \union {Nobody}
    BY <1>2, TypeFacts
  <2>5. \A q \in Requests : answer[q] \in Requests \union {Nobody}
    BY TypeFacts
  <2>6. QED
    BY <1>2, <1>5, <1>6, <2>1, <2>2, <2>3, <2>4, <2>5 DEF ServedInv
<1>10. LateMeansLate'
  <2>1. status'[r] # 504
    BY <1>3, <1>4, <1>5
  <2>2. ASSUME NEW q \in Requests, q # r
        PROVE  OwnDeadline(q)' = OwnDeadline(q)
    BY <1>2, <1>3, <2>2, TypeFacts DEF OwnDeadline
  <2>3. QED
    BY <1>2, <1>3, <1>6, <2>1, <2>2 DEF LateMeansLate
<1>11. QED
  BY <1>7, <1>8, <1>9, <1>10

LEMMA FetchesKeepStatuses ==
    ASSUME Proved!IInv, Cache!TypeOK', StatusInv,
           NEW r \in Requests, NEW res \in Results \union {Late}, FetchEnds(r, res)
    PROVE  StatusInv'
<1> USE DEF StatusInv
<1>1. /\ UNCHANGED <<now, arrivedAt, asked, sentAt, hits>>
      /\ result' = [result EXCEPT ![r] = res]
      /\ status' = [status EXCEPT ![r] = GatewayTimeout(HandlerStatus(res))]
      /\ \/ /\ pc[r] = "fetching"
            /\ pc' = [pc EXCEPT ![r] = "done"]
            /\ answer' = [answer EXCEPT ![r] = r]
            /\ guard'[r] = "value" => IsSuccess(HandlerStatus(res))
            /\ \A e \in Requests : e # r => guard'[e] = guard[e]
            /\ misses' = misses + 1
            /\ UNCHANGED direct
         \/ /\ direct[r] = "fetching"
            /\ direct' = [direct EXCEPT ![r] = "done"]
            /\ UNCHANGED <<pc, answer, guard, misses>>
  BY TypeFacts DEF FetchEnds, Cache!FetchDone, cacheVars
<1>2. result[r] = NoResult /\ status[r] = 0 /\ ~Shareable(r)
  BY <1>1, TypeFacts DEF RequestInv, Over, Shareable
<1>3. TypeOK'
  BY <1>1, HandlerStatuses, TypeFacts DEF TypeOK
<1>4. RequestInv'
  BY <1>1, TypeFacts DEF RequestInv, Over, FetchDeadline
<1>5. ServedInv'
  <2>1. \A e \in Requests : Shareable(e) => Shareable(e)' /\ e # r
    BY <1>1, <1>2, TypeFacts DEF Shareable
  <2>2. guard'[r] = "value" => Shareable(r)'
    BY <1>1, <1>2, TypeFacts DEF Shareable, ServedInv
  <2>3. answer'[r] \in {Nobody, r}
    BY <1>1, <1>2, CacheFacts, TypeFacts DEF RequestInv
  <2>4. \A q \in Requests : q # r => answer'[q] = answer[q] /\ status'[q] = status[q]
                                     /\ guard'[q] = guard[q]
    BY <1>1, TypeFacts
  <2>5. \A q \in Requests : answer[q] \in Requests \union {Nobody}
    BY TypeFacts
  <2>6. QED
    BY <2>1, <2>2, <2>3, <2>4, <2>5 DEF ServedInv
<1>6. LateMeansLate'
  <2>1. status'[r] = 504 => result'[r] \in {Late, Status(504), Status(408)}
    BY <1>1, HandlerStatuses, TypeFacts
  <2>2. ASSUME NEW q \in Requests, q # r
        PROVE  /\ status'[q] = status[q] /\ result'[q] = result[q]
               /\ OwnDeadline(q)' = OwnDeadline(q)
    BY <1>1, <2>2, TypeFacts DEF OwnDeadline
  <2>3. QED
    BY <1>1, <2>1, <2>2 DEF LateMeansLate
<1>7. QED
  BY <1>3, <1>4, <1>5, <1>6

LEMMA AbortsKeepStatuses ==
    ASSUME Proved!IInv, Cache!TypeOK', StatusInv, NEW r \in Requests, TimeOut(r) \/ Drop(r)
    PROVE  StatusInv'
<1> USE DEF StatusInv
<1>1. /\ Running(r) /\ ~Over(r) /\ Over(r)'
      /\ \/ pc' = [pc EXCEPT ![r] = "cancelled"] /\ pc[r] # "idle" /\ UNCHANGED direct
         \/ direct' = [direct EXCEPT ![r] = "cancelled"] /\ direct[r] = "fetching" /\ UNCHANGED pc
      /\ UNCHANGED <<now, arrivedAt, answer>>
      /\ \A e \in Requests : guard'[e] = "value" => guard[e] = "value"
      /\ UNCHANGED <<asked, sentAt, result, hits, misses>>
      /\ \/ now >= OwnDeadline(r) /\ status' = [status EXCEPT ![r] = 504]
         \/ UNCHANGED status
  BY AbortEffect DEF TimeOut, Drop, GatewayTimeout
<1>2. /\ status[r] = 0 /\ result[r] = NoResult /\ ~Shareable(r)
      /\ answer[r] = Nobody
  BY <1>1, CacheFacts DEF RequestInv, Over, Shareable
<1>3. TypeOK'
  BY <1>1, TypeFacts DEF TypeOK
<1>4. RequestInv'
  <2>1. \A q \in Requests : /\ q # r => status'[q] = status[q]
                            /\ Over(q) => Over(q)'
    BY <1>1, TypeFacts DEF Over
  <2>2. ASSUME NEW q \in Requests
        PROVE  /\ direct'[q] # "none" => pc'[q] = "idle"
               /\ pc'[q] # "idle" => asked'[q] \in Asks /\ asked'[q].cached
               /\ direct'[q] = "fetching" => now' <= FetchDeadline(q)'
               /\ result'[q] # NoResult => pc'[q] = "done" \/ direct'[q] = "done"
    BY <1>1, <1>2, TypeFacts DEF RequestInv, Running, Fetching, FetchDeadline
  <2>3. QED
    BY <1>1, <2>1, <2>2 DEF RequestInv
<1>5. ServedInv'
  <2>1. \A e \in Requests : Shareable(e) => Shareable(e)'
    BY <1>1, <1>2, TypeFacts DEF Shareable
  <2>2. \A q \in Requests : q # r => status'[q] = status[q]
    BY <1>1, TypeFacts
  <2>3. \A q \in Requests : answer[q] \in Requests \union {Nobody}
    BY TypeFacts
  <2>4. QED
    BY <1>1, <1>2, <2>1, <2>2, <2>3 DEF ServedInv
<1>6. LateMeansLate'
  <2>1. \A q \in Requests : OwnDeadline(q)' = OwnDeadline(q)
    BY <1>1, TypeFacts DEF OwnDeadline
  <2>2. asked[r].cached \/ now <= sentAt[r] + ConnectTimeout
    BY <1>1, TypeFacts DEF RequestInv, Running, Fetching, FetchDeadline
  <2>3. now >= OwnDeadline(r) => asked[r].cached \/ RequestTimeout <= ConnectTimeout
    BY <1>1, <2>2, TypeFacts, ConstantsAssumption
       DEF OwnDeadline, RequestInv, Running, Fetching, FetchDeadline
  <2>4. \A q \in Requests : q # r => status'[q] = status[q]
    BY <1>1, TypeFacts
  <2>5. QED
    BY <1>1, <1>2, <2>1, <2>3, <2>4 DEF LateMeansLate
<1>7. QED
  BY <1>3, <1>4, <1>5, <1>6

LEMMA EvictsKeepStatuses ==
    ASSUME Cache!TypeOK', StatusInv, NEW r \in Requests, Evict(r)
    PROVE  StatusInv'
<1>1. UNCHANGED <<now, pc, guard, arrivedAt, answer, asked, direct, sentAt, result, status,
                  hits, misses>>
  BY DEF Evict, Cache!ReaperWake, Cache!ReaperRun
<1>2. QED
  BY <1>1 DEF StatusInv, TypeOK, RequestInv, ServedInv, LateMeansLate, Over, Shareable,
              FetchDeadline, OwnDeadline

LEMMA TicksKeepStatuses ==
    ASSUME Cache!TypeOK', StatusInv, Tick
    PROVE  StatusInv'
<1>1. /\ now' = now + 1
      /\ UNCHANGED <<pc, guard, arrivedAt, answer, asked, direct, sentAt, result, status,
                     hits, misses>>
      /\ \A r \in Requests : Fetching(r) => now < FetchDeadline(r)
  BY DEF Tick, Cache!Tick
<1>2. TypeOK' /\ ServedInv'
  BY <1>1 DEF StatusInv, TypeOK, ServedInv, Shareable
<1>3. RequestInv'
  BY <1>1, TypeFacts, ConstantsAssumption
     DEF StatusInv, RequestInv, Over, Fetching, FetchDeadline
<1>4. LateMeansLate'
  <2>1. \A r \in Requests : /\ OwnDeadline(r)' = OwnDeadline(r)
                            /\ now >= OwnDeadline(r) => now' >= OwnDeadline(r)
    BY <1>1, TypeFacts, ConstantsAssumption DEF StatusInv, OwnDeadline
  <2>2. QED
    BY <1>1, <2>1 DEF StatusInv, LateMeansLate
<1>5. QED
  BY <1>2, <1>3, <1>4 DEF StatusInv

LEMMA NextStatus ==
    ASSUME Proved!IInv, Proved!IInv', StatusInv, [Next]_vars
    PROVE  StatusInv'
<1>1. Cache!TypeOK'
  BY DEF Proved!IInv, Proved!TypeOK, Cache!TypeOK, Proved!PcLabels, Cache!PcLabels,
         Proved!GuardStates, Cache!GuardStates, Proved!ReaperStates,
         Cache!ReaperStates, Proved!Waiters, Cache!Waiters
<1>2. CASE UNCHANGED vars
  BY <1>1, <1>2 DEF vars, cacheVars, StatusInv, TypeOK, RequestInv, ServedInv,
              LateMeansLate, Over, Shareable, FetchDeadline, OwnDeadline
<1>3. ASSUME NEW r \in Requests, BackendAnswers(r) \/ BackendIsLate(r)
      PROVE  StatusInv'
  BY <1>1, <1>3, FetchesKeepStatuses DEF BackendAnswers, BackendIsLate
<1>4. QED
  BY <1>1, <1>2, <1>3, ArriveKeepsStatuses, MovesKeepStatuses, AbortsKeepStatuses,
     EvictsKeepStatuses, TicksKeepStatuses DEF Next, AtRest

\* The inductive invariant of the server, above that of the cache.
THEOREM StatusInvariance == Spec => []StatusInv
<1>1. Proved!IInv /\ Proved!IInv' /\ StatusInv /\ [Next]_vars => StatusInv'
  BY NextStatus
<1>2. QED
  BY <1>1, InitStatus, CacheInvariance, PTL DEF Spec

\* Every variable of the server keeps its type: every status a client gets is one.
THEOREM TypeCorrect == Spec => []TypeOK
<1>1. StatusInv => TypeOK
  BY DEF StatusInv
<1>2. QED
  BY <1>1, StatusInvariance, PTL

\* Whatever the backend answers and whoever waits, times out or is dropped (cache.rs,
\* CacheService::call): only successes are served from the cache.
THEOREM OnlySuccessesAreShared == Spec => []ErrorsAreNotShared
<1>1. ASSUME StatusInv PROVE ErrorsAreNotShared
  <2>1. SUFFICES ASSUME NEW r \in Requests, answer[r] \notin {Nobody, r}
                 PROVE  /\ result[answer[r]].kind \notin {"down", "late", "garbage"}
                        /\ status[r] \in 200..299
    BY DEF ErrorsAreNotShared
  <2>2. answer[r] \in Requests /\ Shareable(answer[r]) /\ status[r] \in 200..299
    BY <1>1, <2>1, TypeFacts DEF StatusInv, ServedInv
  <2>3. result[answer[r]] \in Results \union {Late} \/ result[answer[r]] = NoResult
    BY <1>1, <2>2, TypeFacts DEF StatusInv
  <2>4. QED
    BY <2>2, <2>3, HandlerStatuses DEF Shareable, NoResult
<1>2. QED
  BY <1>1, StatusInvariance, PTL

\* Whatever the timeouts of listen_on and connect_to (server.rs, client.rs): a 504 is
\* answered only when one of them has been used up, or the backend says so.
THEOREM LateIsLate == Spec => []LateMeansLate
<1>1. StatusInv => LateMeansLate
  BY DEF StatusInv
<1>2. QED
  BY <1>1, StatusInvariance, PTL

(***************************************************************************)
(* The counters.                                                           *)
(***************************************************************************)
Answered == {r \in Requests : pc[r] = "done"}
Fetched  == {r \in Requests : Returned(r)}

LEMMA OneMore ==
    ASSUME IsFiniteSet(Requests), NEW S \in SUBSET Requests, NEW r \in Requests \ S,
           NEW n \in Nat, n = Cardinality(S)
    PROVE  Cardinality(S \union {r}) = n + 1
<1>1. IsFiniteSet(S)
  BY FS_Subset
<1>2. QED
  BY <1>1, FS_AddElement

LEMMA NextCounts ==
    ASSUME IsFiniteSet(Requests), Proved!IInv, StatusInv, CountsAddUp, [Next]_vars
    PROVE  CountsAddUp'
<1>1. /\ hits \in Nat /\ misses \in Nat
      /\ hits + misses = Cardinality(Answered)
      /\ misses = Cardinality(Fetched)
  BY TypeFacts DEF StatusInv, CountsAddUp, Answered, Fetched, Returned
<1>2. SUFFICES /\ hits' + misses' = Cardinality(Answered')
               /\ misses' = Cardinality(Fetched')
  BY DEF CountsAddUp, Answered, Fetched, Returned
<1>3. ASSUME UNCHANGED <<hits, misses>>, Answered' = Answered, Fetched' = Fetched
      PROVE  /\ hits' + misses' = Cardinality(Answered')
             /\ misses' = Cardinality(Fetched')
  BY <1>1, <1>3
<1>4. ASSUME NEW r \in Requests, NEW a \in Asks, Arrive(r, a)
      PROVE  UNCHANGED <<hits, misses>> /\ Answered' = Answered /\ Fetched' = Fetched
  <2>1. /\ UNCHANGED <<hits, misses, result>>
        /\ pc[r] = "idle" /\ direct[r] = "none"
        /\ \/ pc' = [pc EXCEPT ![r] = "locking"] /\ UNCHANGED direct
           \/ direct' = [direct EXCEPT ![r] = "fetching"] /\ UNCHANGED pc
    BY <1>4 DEF Arrive, Cache!Call, cacheVars
  <2>2. result[r] = NoResult
    BY <2>1 DEF StatusInv, RequestInv
  <2>3. QED
    BY <2>1, <2>2, TypeFacts DEF StatusInv, Answered, Fetched, Returned
<1>5. ASSUME NEW r \in Requests, TimeOut(r) \/ Drop(r)
      PROVE  UNCHANGED <<hits, misses>> /\ Answered' = Answered /\ Fetched' = Fetched
  <2>1. /\ UNCHANGED <<hits, misses, result>>
        /\ Running(r) /\ ~Over(r)
        /\ \/ pc' = [pc EXCEPT ![r] = "cancelled"] /\ UNCHANGED direct
           \/ direct' = [direct EXCEPT ![r] = "cancelled"] /\ direct[r] = "fetching" /\ UNCHANGED pc
    BY <1>5, AbortEffect DEF StatusInv, TimeOut, Drop
  <2>2. QED
    BY <2>1, TypeFacts DEF StatusInv, Over, Answered, Fetched, Returned
<1>6. ASSUME NEW r \in Requests, CacheMoves(r)
      PROVE  /\ hits' + misses' = Cardinality(Answered')
             /\ misses' = Cardinality(Fetched')
  <2>1. PICK p \in {"done", "fetching", "reading"} : pc' = [pc EXCEPT ![r] = p]
    BY <1>6, MoveEffect DEF CacheMoves
  <2>2. /\ pc'[r] = p /\ pc[r] # "done"
        /\ hits' = IF p = "done" THEN hits + 1 ELSE hits
        /\ UNCHANGED <<direct, result, misses>>
    BY <1>6, <2>1, MoveEffect, TypeFacts DEF StatusInv, CacheMoves
  <2>3. Fetched' = Fetched
    BY <2>2 DEF Fetched, Returned
  <2>4. CASE p = "done"
    <3>1. Answered' = Answered \union {r} /\ r \notin Answered
      BY <2>1, <2>2, <2>4, TypeFacts DEF StatusInv, Answered
    <3>2. Cardinality(Answered') = hits + misses + 1
      BY <1>1, <3>1, OneMore DEF Answered
    <3>3. QED
      BY <1>1, <2>2, <2>3, <2>4, <3>2
  <2>5. CASE p # "done"
    <3>1. Answered' = Answered
      BY <2>1, <2>2, <2>5, TypeFacts DEF StatusInv, Answered
    <3>2. QED
      BY <1>1, <2>2, <2>3, <2>5, <3>1
  <2>6. QED
    BY <2>4, <2>5
<1>7. ASSUME NEW r \in Requests, NEW res \in Results \union {Late}, FetchEnds(r, res)
      PROVE  /\ hits' + misses' = Cardinality(Answered')
             /\ misses' = Cardinality(Fetched')
  <2>1. /\ hits' = hits
        /\ result' = [result EXCEPT ![r] = res]
        /\ res # NoResult
    BY <1>7, HandlerStatuses DEF FetchEnds
  <2>2. CASE direct[r] = "fetching" /\ direct' = [direct EXCEPT ![r] = "done"]
             /\ UNCHANGED <<cacheVars, misses>>
    <3>1. Answered' = Answered /\ Fetched' = Fetched
      BY <2>1, <2>2, TypeFacts DEF StatusInv, Answered, Fetched, Returned, cacheVars
    <3>2. QED
      BY <1>3, <2>1, <2>2, <3>1
  <2>3. CASE Cache!FetchDone(r) /\ misses' = misses + 1 /\ UNCHANGED direct
    <3>1. pc[r] = "fetching" /\ pc' = [pc EXCEPT ![r] = "done"]
      BY <2>3 DEF Cache!FetchDone
    <3>2. result[r] = NoResult /\ direct[r] = "none"
      BY <3>1 DEF StatusInv, RequestInv
    <3>3. /\ Answered' = Answered \union {r} /\ r \notin Answered
          /\ Fetched' = Fetched \union {r} /\ r \notin Fetched
      BY <2>1, <2>3, <3>1, <3>2, TypeFacts DEF StatusInv, Answered, Fetched, Returned
    <3>4. /\ Cardinality(Answered') = hits + misses + 1
          /\ Cardinality(Fetched') = misses + 1
      BY <1>1, <3>3, OneMore DEF Answered, Fetched, Returned
    <3>5. QED
      BY <1>1, <2>1, <2>3, <3>4
  <2>4. QED
    BY <1>7, <2>2, <2>3 DEF FetchEnds
<1>8. ASSUME NEW r \in Requests, Evict(r)
      PROVE  UNCHANGED <<hits, misses>> /\ Answered' = Answered /\ Fetched' = Fetched
  BY <1>8 DEF Evict, Cache!ReaperWake, Cache!ReaperRun, Answered, Fetched, Returned
<1>9. ASSUME Tick \/ UNCHANGED vars
      PROVE  UNCHANGED <<hits, misses>> /\ Answered' = Answered /\ Fetched' = Fetched
  BY <1>9 DEF Tick, Cache!Tick, vars, cacheVars, Answered, Fetched, Returned
<1>10. QED
  BY <1>3, <1>4, <1>5, <1>6, <1>7, <1>8, <1>9 DEF Next, BackendAnswers, BackendIsLate, AtRest

\* Whatever is dropped or times out (cache.rs, CacheMetrics): hits and misses are the
\* answers that came out of the cache layer, and misses the fetches that ended.  There
\* are finitely many requests.
THEOREM CountersAddUp ==
    ASSUME IsFiniteSet(Requests)
    PROVE  Spec => []CountsAddUp
<1>1. ASSUME Init PROVE CountsAddUp
  <2>1. Answered = {} /\ Fetched = {}
    BY <1>1 DEF Init, Cache!Init, Answered, Fetched, Returned
  <2>2. hits = 0 /\ misses = 0
    BY <1>1 DEF Init
  <2>3. QED
    BY <2>1, <2>2, FS_EmptySet DEF CountsAddUp, Answered, Fetched, Returned
<1>2. Proved!IInv /\ StatusInv /\ CountsAddUp /\ [Next]_vars => CountsAddUp'
  BY NextCounts
<1>3. QED
  BY <1>1, <1>2, CacheInvariance, StatusInvariance, PTL DEF Spec
-----------------------------------------------------------------------------
(***************************************************************************)
(* A backend that answers with successes is spared.                        *)
(***************************************************************************)
\* The invariants that the refinement of CoalescingCache rests on.
LEMMA PromisesInvariance == Spec => []Proved!Inv
<1>1. Proved!ConstantsAssumption
  BY ConstantsAssumption DEF Proved!ConstantsAssumption
<1>2. Init => Proved!Inv
  BY <1>1, SameCache, Proved!InitRefines DEF Init
<1>3. Proved!Inv /\ [Next]_vars => Proved!Inv'
  BY <1>1, CacheStep, SameCache, Proved!NextRefines
<1>4. QED
  BY <1>2, <1>3, PTL DEF Spec

\* A fetch that came back has left a guard, and a value in it if its client got a
\* success.
ReturnInv ==
    \A e \in Requests :
        /\ Returned(e) => pc[e] = "done" /\ guard[e] \in {"value", "empty"}
        /\ pc[e] = "done" /\ guard[e] = "empty" => Returned(e)
        /\ guard[e] = "empty" => status[e] \notin 200..299
        /\ guard[e] = "value" => status[e] \in 200..299

SparedInv == ReturnInv /\ BackendIsSpared

\* For the cache, a key whose fetches were all successes has no uncacheable fetch.
LEMMA SucceedsIsCacheable ==
    ASSUME ReturnInv, NEW r \in Requests, Succeeds(key[r]),
           key[r] \in {CacheKey(a) : a \in Asks}
    PROVE  key[r] \in Proved!CacheableKeys
  BY DEF ReturnInv, Succeeds, Proved!CacheableKeys

\* What is said of e is not changed by the step.
Same(e) ==
    /\ pc'[e] = pc[e] /\ key'[e] = key[e] /\ guard'[e] = guard[e]
    /\ fetchedAt'[e] = fetchedAt[e] /\ direct'[e] = direct[e] /\ sentAt'[e] = sentAt[e]
    /\ result'[e] = result[e] /\ status'[e] = status[e]

LEMMA SameIsSame ==
    ASSUME NEW e \in Requests, Same(e)
    PROVE  (Returned(e)' <=> Returned(e)) /\ (Fetches(e)' <=> Fetches(e))
  BY DEF Same, Returned, Fetches

\* A step that changes one request at most, and makes no fetch of it.
LEMMA OthersStay ==
    ASSUME SparedInv, NEW r \in Requests, \A q \in Requests \ {r} : Same(q),
           ~Returned(r), ~Fetches(r)', guard'[r] # "value",
           guard'[r] = "empty" => pc'[r] # "done" /\ status'[r] \notin 200..299
    PROVE  SparedInv'
<1>1. ReturnInv'
  BY SameIsSame DEF SparedInv, ReturnInv, Same, Fetches
<1>2. ASSUME NEW p \in Requests, NEW q \in Requests, p # q, Fetches(p)', Fetches(q)',
             key'[p] = key'[q], Succeeds(key[p])'
      PROVE  \/ Returned(p)' /\ sentAt'[q] >= fetchedAt'[p] + Staleness
             \/ Returned(q)' /\ sentAt'[p] >= fetchedAt'[q] + Staleness
  <2>1. p # r /\ q # r
    BY <1>2
  <2>2. Fetches(p) /\ Fetches(q) /\ key[p] = key[q]
    BY <1>2, <2>1, SameIsSame DEF Same
  <2>3. Succeeds(key[p])
    BY <1>2, <2>1, SameIsSame DEF Succeeds, Same
  <2>4. QED
    BY <1>2, <2>1, <2>2, <2>3, SameIsSame DEF SparedInv, BackendIsSpared, Same
<1>3. QED
  BY <1>1, <1>2 DEF SparedInv, BackendIsSpared

LEMMA ArriveSpares ==
    ASSUME Proved!IInv, StatusInv, SparedInv, NEW r \in Requests, NEW a \in Asks,
           Arrive(r, a)
    PROVE  SparedInv'
<1>1. /\ pc[r] = "idle" /\ direct[r] = "none"
      /\ UNCHANGED <<guard, fetchedAt, result, status>>
      /\ \/ /\ pc' = [pc EXCEPT ![r] = "locking"]
            /\ key' = [key EXCEPT ![r] = CacheKey(a)]
            /\ UNCHANGED <<direct, sentAt>>
         \/ /\ direct' = [direct EXCEPT ![r] = "fetching"]
            /\ sentAt' = [sentAt EXCEPT ![r] = now]
            /\ UNCHANGED <<pc, key>>
  BY DEF Arrive, Cache!Call, cacheVars
<1>2. result[r] = NoResult /\ guard'[r] = "none"
  BY <1>1 DEF StatusInv, RequestInv, Proved!IInv, Proved!GuardInv
<1>3. pc'[r] \in {"locking", "idle"}
  BY <1>1, TypeFacts DEF StatusInv
<1>4. \A q \in Requests \ {r} : Same(q)
  BY <1>1, TypeFacts DEF StatusInv, TypeOK, Cache!TypeOK, Same
<1>5. QED
  BY <1>1, <1>2, <1>3, <1>4, OthersStay DEF Fetches, Returned

\* The cache answers r, has it wait, or has it fetch; in the last case there is neither
\* a value under its key nor a fetch of one.
LEMMA MoveParts ==
    ASSUME Proved!IInv, StatusInv, NEW r \in Requests, CacheMoves(r)
    PROVE  /\ pc[r] \in {"locking", "reading"} /\ result[r] = NoResult
           /\ guard[r] = "none"
           /\ \E p \in {"done", "fetching", "reading"} : pc' = [pc EXCEPT ![r] = p]
           /\ UNCHANGED <<now, key, fetchedAt, direct, result>>
           /\ \A q \in Requests \ {r} : Same(q)
           /\ pc'[r] # "fetching" => guard'[r] = "none"
           /\ pc'[r] = "fetching" =>
                 /\ sentAt'[r] = now /\ guard'[r] = "write"
                 /\ variants[key[r]] = Nobody \/ guard[variants[key[r]]] \notin {"value", "write"}
<1>1. pc[r] \in {"locking", "reading"} /\ result[r] = NoResult
  BY MoveEffect DEF CacheMoves, StatusInv, RequestInv
<1>2. guard[r] = "none"
  BY <1>1 DEF Proved!IInv, Proved!GuardInv
<1>3. PICK p \in {"done", "fetching", "reading"} : pc' = [pc EXCEPT ![r] = p]
  BY MoveEffect DEF CacheMoves
<1>4. pc'[r] = p /\ \A q \in Requests \ {r} : pc'[q] = pc[q]
  BY <1>3, TypeFacts DEF StatusInv
<1>5. /\ UNCHANGED <<now, key, fetchedAt, direct, result>>
      /\ \A q \in Requests \ {r} : sentAt'[q] = sentAt[q] /\ status'[q] = status[q]
      /\ p = "fetching" => sentAt'[r] = now
  BY <1>4, TypeFacts DEF StatusInv, CacheMoves, Cache!LookUp, Cache!GuardReleased
<1>6. /\ \/ p # "fetching" /\ UNCHANGED guard
         \/ p = "fetching" /\ guard' = [guard EXCEPT ![r] = "write"]
      /\ p = "fetching" => ~Cache!Cached(r) /\ ~Cache!InFlight(r)
  <2>1. Cache!Hit(r) \/ Cache!Miss(r) \/ Cache!AwaitGuard(r)
    BY DEF CacheMoves, Cache!LookUp, Cache!GuardReleased
  <2>2. ASSUME NEW x \in {"done", "fetching", "reading"}, pc' = [pc EXCEPT ![r] = x]
        PROVE  x = p
    BY <1>3, <2>2, TypeFacts DEF StatusInv
  <2>3. CASE Cache!Hit(r)
    BY <2>2, <2>3 DEF Cache!Hit
  <2>4. CASE Cache!Miss(r)
    BY <2>2, <2>4 DEF Cache!Miss
  <2>5. CASE Cache!AwaitGuard(r)
    BY <2>2, <2>5 DEF Cache!AwaitGuard
  <2>6. QED
    BY <2>1, <2>3, <2>4, <2>5
<1>7. /\ \A q \in Requests \ {r} : guard'[q] = guard[q]
      /\ guard'[r] = IF p = "fetching" THEN "write" ELSE "none"
  BY <1>2, <1>6, TypeFacts DEF StatusInv
<1>8. \A q \in Requests \ {r} : Same(q)
  BY <1>4, <1>5, <1>7 DEF Same
<1>9. p = "fetching" =>
        variants[key[r]] = Nobody \/ guard[variants[key[r]]] \notin {"value", "write"}
  BY <1>6 DEF Cache!Cached, Cache!InFlight, Cache!Entry
<1>10. QED
  BY <1>1, <1>2, <1>3, <1>4, <1>5, <1>7, <1>8, <1>9

\* The entry of q is the one that a request for its key finds, or its time is over.
LEMMA FoundOrOver ==
    ASSUME Proved!Inv, StatusInv, ReturnInv, NEW r \in Requests, pc[r] # "idle",
           Succeeds(key[r]), NEW q \in Requests, key[q] = key[r], Fetches(q)
    PROVE  \/ variants[key[r]] = q /\ guard[q] \in {"value", "write"}
           \/ Returned(q) /\ now >= fetchedAt[q] + Staleness
<1>1. /\ \A e \in Requests : guard[e] = "write" <=> pc[e] = "fetching"
      /\ key[r] \in {CacheKey(a) : a \in Asks}
      /\ reaper[q] \in {"none", "sleeping", "locking", "done"}
  BY DEF Proved!Inv, Proved!IInv, Proved!GuardInv, Proved!TypeOK, Proved!ReaperStates
<1>2. key[q] \in Proved!CacheableKeys
  BY <1>1, SucceedsIsCacheable
<1>3. pc[q] = "fetching" \/ reaper[q] \in {"sleeping", "locking"} => variants[key[r]] = q
  BY <1>2 DEF Proved!Inv, Proved!OwnerInv, Proved!Owns
<1>4. CASE pc[q] = "fetching"
  BY <1>1, <1>3, <1>4
<1>5. CASE Returned(q)
  <2>1. guard[q] = "value"
    BY <1>5 DEF ReturnInv, Succeeds
  <2>2. /\ reaper[q] # "none"
        /\ reaper[q] = "done" => now >= fetchedAt[q] + Staleness
    BY <2>1 DEF Proved!Inv, Proved!ReapInv
  <2>3. QED
    BY <1>1, <1>3, <1>5, <2>1, <2>2
<1>6. QED
  BY <1>4, <1>5 DEF Fetches

LEMMA MovesSpare ==
    ASSUME Proved!Inv, StatusInv, SparedInv, NEW r \in Requests, CacheMoves(r)
    PROVE  SparedInv'
<1>1. /\ pc[r] \in {"locking", "reading"} /\ result[r] = NoResult
      /\ pc'[r] \in {"done", "fetching", "reading"}
      /\ UNCHANGED <<now, key, fetchedAt, direct, result>>
      /\ \A q \in Requests \ {r} : Same(q)
      /\ pc'[r] # "fetching" => guard'[r] = "none"
      /\ pc'[r] = "fetching" =>
            /\ sentAt'[r] = now /\ guard'[r] = "write"
            /\ variants[key[r]] = Nobody \/ guard[variants[key[r]]] \notin {"value", "write"}
  BY MoveParts, TypeFacts DEF Proved!Inv, StatusInv
<1>2. ~Returned(r) /\ ~Returned(r)'
  BY <1>1 DEF Returned
<1>3. CASE pc'[r] # "fetching"
  BY <1>1, <1>2, <1>3, OthersStay DEF Fetches
<1>4. CASE pc'[r] = "fetching"
  <2>1. ReturnInv'
    BY <1>1, <1>2, <1>4, SameIsSame DEF SparedInv, ReturnInv, Same
  <2>2. ASSUME NEW q \in Requests \ {r}, Fetches(q)', key'[q] = key'[r], Succeeds(key[r])'
        PROVE  Returned(q)' /\ sentAt'[r] >= fetchedAt'[q] + Staleness
    <3>1. Fetches(q) /\ key[q] = key[r] /\ Succeeds(key[r])
      BY <1>1, <1>2, <2>2, SameIsSame DEF Succeeds, Same
    <3>2. q # Nobody
      BY ConstantsAssumption
    <3>3. Returned(q) /\ now >= fetchedAt[q] + Staleness
      BY <1>1, <1>4, <3>1, <3>2, FoundOrOver DEF SparedInv
    <3>4. QED
      BY <1>1, <1>4, <2>2, <3>3, SameIsSame
  <2>3. ASSUME NEW p \in Requests \ {r}, NEW q \in Requests \ {r}, p # q,
               Fetches(p)', Fetches(q)', key'[p] = key'[q], Succeeds(key[p])'
        PROVE  \/ Returned(p)' /\ sentAt'[q] >= fetchedAt'[p] + Staleness
               \/ Returned(q)' /\ sentAt'[p] >= fetchedAt'[q] + Staleness
    <3>1. Fetches(p) /\ Fetches(q) /\ key[p] = key[q] /\ Succeeds(key[p])
      BY <1>1, <1>2, <2>3, SameIsSame DEF Succeeds, Same
    <3>2. QED
      BY <1>1, <2>3, <3>1, SameIsSame DEF SparedInv, BackendIsSpared, Same
  <2>4. BackendIsSpared'
    <3>1. ASSUME NEW q \in Requests, key'[q] = key'[r], Succeeds(key[q])'
          PROVE  Succeeds(key[r])'
      BY <3>1 DEF Succeeds
    <3>2. QED
      BY <2>2, <2>3, <3>1 DEF BackendIsSpared
  <2>5. QED
    BY <2>1, <2>4 DEF SparedInv
<1>5. QED
  BY <1>3, <1>4

LEMMA FetchesSpare ==
    ASSUME Proved!IInv, StatusInv, SparedInv, NEW r \in Requests,
           NEW res \in Results \union {Late}, FetchEnds(r, res)
    PROVE  SparedInv'
<1>1. /\ sentAt' = sentAt
      /\ result' = [result EXCEPT ![r] = res]
      /\ status' = [status EXCEPT ![r] = GatewayTimeout(HandlerStatus(res))]
  BY DEF FetchEnds
<1>2. CASE /\ direct[r] = "fetching"
           /\ direct' = [direct EXCEPT ![r] = "done"]
           /\ UNCHANGED <<cacheVars, misses>>
  <2>1. pc[r] = "idle" /\ pc' = pc /\ direct'[r] = "done" /\ guard'[r] = "none"
    BY <1>2, TypeFacts DEF StatusInv, RequestInv, cacheVars, Proved!IInv, Proved!GuardInv
  <2>2. \A q \in Requests \ {r} : Same(q)
    BY <1>1, <1>2, TypeFacts DEF StatusInv, Same, cacheVars
  <2>3. QED
    BY <1>2, <2>1, <2>2, OthersStay DEF Fetches, Returned
<1>3. CASE /\ Cache!FetchDone(r)
           /\ guard'[r] = "value" <=> IsSuccess(HandlerStatus(res))
           /\ UNCHANGED direct
  <2>1. /\ pc[r] = "fetching" /\ pc' = [pc EXCEPT ![r] = "done"] /\ key' = key
        /\ fetchedAt' = [fetchedAt EXCEPT ![r] = now]
        /\ \E g \in {"value", "empty"} : guard' = [guard EXCEPT ![r] = g]
    BY <1>3 DEF Cache!FetchDone
  <2>2. result[r] = NoResult /\ direct[r] = "none" /\ ~Returned(r) /\ Fetches(r)
    BY <2>1 DEF StatusInv, RequestInv, Returned, Fetches
  <2>3. \A q \in Requests \ {r} : Same(q)
    BY <1>1, <1>3, <2>1, TypeFacts DEF StatusInv, TypeOK, Cache!TypeOK, Same
  <2>4. /\ pc'[r] = "done" /\ guard'[r] \in {"value", "empty"}
        /\ result'[r] = res /\ direct'[r] = "none"
        /\ status'[r] = GatewayTimeout(HandlerStatus(res))
    BY <1>1, <1>3, <2>1, <2>2, TypeFacts DEF StatusInv
  <2>5. guard'[r] = "value" <=> status'[r] \in 200..299
    BY <1>3, <2>4 DEF IsSuccess, GatewayTimeout
  <2>6. Returned(r)'
    BY <2>4, HandlerStatuses DEF Returned
  <2>7. ReturnInv'
    BY <2>3, <2>4, <2>5, <2>6, SameIsSame DEF SparedInv, ReturnInv, Same
  <2>8. ASSUME NEW p \in Requests, NEW q \in Requests, p # q, Fetches(p)', Fetches(q)',
               key'[p] = key'[q], Succeeds(key[p])'
        PROVE  \/ Returned(p)' /\ sentAt'[q] >= fetchedAt'[p] + Staleness
               \/ Returned(q)' /\ sentAt'[p] >= fetchedAt'[q] + Staleness
    <3>1. Fetches(p) /\ Fetches(q) /\ key[p] = key[q]
      BY <2>1, <2>2, <2>3, <2>8, SameIsSame
    <3>2. Succeeds(key[p])
      BY <2>1, <2>2, <2>3, <2>8, SameIsSame DEF Succeeds, Same
    <3>3. \/ Returned(p) /\ sentAt[q] >= fetchedAt[p] + Staleness
          \/ Returned(q) /\ sentAt[p] >= fetchedAt[q] + Staleness
      BY <2>8, <3>1, <3>2 DEF SparedInv, BackendIsSpared
    <3>4. ASSUME NEW e \in Requests, Returned(e)
          PROVE  Returned(e)' /\ fetchedAt'[e] = fetchedAt[e]
      BY <2>2, <2>3, <3>4, SameIsSame DEF Same
    <3>5. QED
      BY <1>1, <3>3, <3>4
  <2>9. QED
    BY <2>7, <2>8 DEF SparedInv, BackendIsSpared
<1>4. QED
  BY <1>2, <1>3 DEF FetchEnds

LEMMA AbortsSpare ==
    ASSUME Proved!IInv, StatusInv, SparedInv, NEW r \in Requests, TimeOut(r) \/ Drop(r)
    PROVE  SparedInv'
<1>1. /\ Abort(r) /\ UNCHANGED <<sentAt, result>>
      /\ \A q \in Requests \ {r} : status'[q] = status[q]
  BY TypeFacts DEF StatusInv, TimeOut, Drop
<1>2. result[r] = NoResult /\ result'[r] = NoResult
  BY <1>1, AbortEffect DEF StatusInv, RequestInv, Over
<1>3. pc'[r] \in {"idle", "cancelled"}
  <2>1. CASE pc' = [pc EXCEPT ![r] = "cancelled"]
    BY <2>1, TypeFacts DEF StatusInv
  <2>2. CASE direct[r] = "fetching" /\ UNCHANGED pc
    BY <2>2 DEF StatusInv, RequestInv
  <2>3. QED
    BY <1>1, <2>1, <2>2, AbortEffect DEF StatusInv
<1>4. guard'[r] # "value" /\ status'[r] \notin 200..299
  <2>1. Running(r) /\ ~Over(r)
    BY <1>1, AbortEffect DEF StatusInv
  <2>2. guard[r] # "value" /\ status[r] = 0
    BY <2>1 DEF StatusInv, RequestInv, Over, Proved!IInv, Proved!GuardInv
  <2>3. guard'[r] # "value"
    BY <1>1, <2>2, AbortEffect DEF StatusInv
  <2>4. status'[r] \in {0, 504}
    BY <2>2, TypeFacts DEF StatusInv, TimeOut, Drop, GatewayTimeout
  <2>5. QED
    BY <2>3, <2>4
<1>5. \A q \in Requests \ {r} : Same(q)
  <2>1. CASE Cache!Cancel(r) /\ UNCHANGED direct
    <3>1. /\ pc' = [pc EXCEPT ![r] = "cancelled"] /\ UNCHANGED <<key, fetchedAt, direct>>
          /\ guard' = guard \/ guard' = [guard EXCEPT ![r] = "empty"]
      BY <2>1 DEF Cache!Cancel
    <3>2. QED
      BY <1>1, <3>1, TypeFacts DEF StatusInv, Same
  <2>2. CASE direct' = [direct EXCEPT ![r] = "cancelled"] /\ UNCHANGED cacheVars
    BY <1>1, <2>2, TypeFacts DEF StatusInv, Same, cacheVars
  <2>3. QED
    BY <1>1, <2>1, <2>2 DEF Abort
<1>6. QED
  BY <1>2, <1>3, <1>4, <1>5, OthersStay DEF Fetches, Returned

LEMMA NextSpares ==
    ASSUME Proved!Inv, StatusInv, SparedInv, [Next]_vars
    PROVE  SparedInv'
<1>1. ASSUME UNCHANGED <<pc, key, guard, fetchedAt, direct, sentAt, result, status>>
      PROVE  SparedInv'
  BY <1>1 DEF SparedInv, ReturnInv, BackendIsSpared, Fetches, Returned, Succeeds
<1>2. ASSUME NEW r \in Requests, Evict(r)
      PROVE  SparedInv'
  BY <1>1, <1>2 DEF Evict, Cache!ReaperWake, Cache!ReaperRun
<1>3. CASE Tick \/ UNCHANGED vars
  BY <1>1, <1>3 DEF Tick, Cache!Tick, vars, cacheVars
<1>4. Proved!IInv
  BY DEF Proved!Inv
<1>5. ASSUME NEW r \in Requests, BackendAnswers(r) \/ BackendIsLate(r)
      PROVE  SparedInv'
  BY <1>4, <1>5, FetchesSpare DEF BackendAnswers, BackendIsLate
<1>6. QED
  BY <1>2, <1>3, <1>4, <1>5, ArriveSpares, MovesSpare, AbortsSpare DEF Next, AtRest

\* What the server has seen of its fetches is so in every reachable state.
LEMMA SparedInvariance == Spec => []SparedInv
<1>1. Init => SparedInv
  BY DEF Init, Cache!Init, SparedInv, ReturnInv, BackendIsSpared, Fetches, Returned
<1>2. Proved!Inv /\ StatusInv /\ SparedInv /\ [Next]_vars => SparedInv'
  BY NextSpares
<1>3. QED
  BY <1>1, <1>2, PromisesInvariance, StatusInvariance, PTL DEF Spec

\* Whatever is dropped or times out, and however requests come in: as long as its answers
\* for a resource are successes, the backend is asked for it once per cache_duration.
THEOREM BackendSpared == Spec => []BackendIsSpared
<1>1. SparedInv => BackendIsSpared
  BY DEF SparedInv
<1>2. QED
  BY <1>1, SparedInvariance, PTL

-----------------------------------------------------------------------------
(***************************************************************************)
(* The server as a coalescing cache.                                       *)
(***************************************************************************)

\* What clients and backend see of the server is what the cache has to say of itself.
View ==
    /\ asking = Proved!call
    /\ servable = Proved!store
    /\ failing = Proved!uncacheable

LEMMA ViewHolds ==
    ASSUME Proved!Inv, StatusInv, ReturnInv
    PROVE  View
<1>1. /\ Proved!TypeOK /\ Proved!GuardInv /\ Proved!MapInv
      /\ \A e \in Requests : guard[e] \in {"none", "write", "empty", "value"}
  BY DEF Proved!Inv, Proved!IInv, Proved!TypeOK, Proved!GuardStates
<1>2. asking = Proved!call
  BY DEF asking, Proved!call
<1>3. ASSUME NEW k \in CacheKeys, variants[k] # Nobody
      PROVE  status[variants[k]] \in 200..299 <=> guard[variants[k]] = "value"
  <2>1. variants[k] \in Requests /\ guard[variants[k]] # "none"
    BY <1>1, <1>3 DEF Proved!TypeOK, Proved!MapInv, CacheKeys
  <2>2. CASE guard[variants[k]] = "write"
    BY <1>1, <2>1, <2>2 DEF Proved!GuardInv, StatusInv, RequestInv, Over
  <2>3. CASE guard[variants[k]] \in {"empty", "value"}
    BY <2>1, <2>3 DEF ReturnInv
  <2>4. QED
    BY <1>1, <2>1, <2>2, <2>3
<1>4. servable = Proved!store
  BY <1>3 DEF servable, Proved!store, CacheKeys
<1>5. ASSUME NEW k \in CacheKeys
      PROVE  Succeeds(k) <=> k \in Proved!CacheableKeys
  BY <1>5 DEF Succeeds, ReturnInv, Proved!CacheableKeys, CacheKeys
<1>6. failing = Proved!uncacheable
  BY <1>5 DEF failing, Proved!uncacheable, CacheKeys
<1>7. QED
  BY <1>2, <1>4, <1>6 DEF View

\* A step of the promised cache under the one view is a step under the other.
LEMMA ViewSteps ==
    ASSUME View, View', [Proved!Promised!Next]_(Proved!Promised!vars)
    PROVE  [Coalescing!Next]_(Coalescing!vars)
<1> USE DEF View
<1>1. ASSUME NEW r \in Requests, NEW k \in CacheKeys, Proved!Promised!Ask(r, k)
      PROVE  Coalescing!Next
  BY <1>1 DEF Proved!Promised!Ask, Coalescing!Ask, Coalescing!Next
<1>2. ASSUME NEW r \in Requests, Proved!Promised!Fetch(r)
      PROVE  Coalescing!Next
  BY <1>2 DEF Proved!Promised!Fetch, Coalescing!Fetch, Coalescing!Next
<1>3. ASSUME NEW r \in Requests, Proved!Promised!FetchEnds(r)
      PROVE  Coalescing!Next
  BY <1>3 DEF Proved!Promised!FetchEnds, Coalescing!FetchEnds, Coalescing!Next
<1>4. ASSUME NEW r \in Requests, Proved!Promised!Serve(r)
      PROVE  Coalescing!Next
  BY <1>4 DEF Proved!Promised!Serve, Coalescing!Serve, Coalescing!Next
<1>5. ASSUME NEW r \in Requests, Proved!Promised!GiveUp(r)
      PROVE  Coalescing!Next
  BY <1>5 DEF Proved!Promised!GiveUp, Coalescing!GiveUp, Coalescing!Next
<1>6. ASSUME NEW k \in CacheKeys, Proved!Promised!Expire(k)
      PROVE  Coalescing!Next
  BY <1>6 DEF Proved!Promised!Expire, Coalescing!Expire, Coalescing!Next
<1>7. ASSUME Proved!Promised!Tick
      PROVE  Coalescing!Next
  BY <1>7 DEF Proved!Promised!Tick, Coalescing!Tick, Coalescing!Next
<1>8. CASE UNCHANGED Proved!Promised!vars
  BY <1>8 DEF Proved!Promised!vars, Coalescing!vars
<1>9. QED
  BY <1>1, <1>2, <1>3, <1>4, <1>5, <1>6, <1>7, <1>8
     DEF Proved!Promised!Next, CacheKeys

\* Towards the clients of its cached path and its backend the server, with timeouts
\* dropping requests anywhere and any backend, implements CoalescingCache.
THEOREM ServerCoalesces == Spec => ClientsShareSuccesses
<1>1. Proved!ConstantsAssumption
  BY ConstantsAssumption DEF Proved!ConstantsAssumption
<1>2. Init => Proved!Promised!Init
  BY <1>1, SameCache, Proved!InitRefines DEF Init
<1>3. View /\ Proved!Promised!Init => Coalescing!Init
  BY DEF View, Proved!Promised!Init, Coalescing!Init, CacheKeys
<1>4. Proved!Inv /\ StatusInv /\ SparedInv => View
  BY ViewHolds DEF SparedInv
<1>5. Proved!Inv /\ View /\ View' /\ [Next]_vars => [Coalescing!Next]_(Coalescing!vars)
  BY <1>1, CacheStep, SameCache, Proved!NextRefines, ViewSteps
<1>6. QED
  BY <1>2, <1>3, <1>4, <1>5, PromisesInvariance, StatusInvariance, SparedInvariance, PTL
     DEF Spec, ClientsShareSuccesses, Coalescing!Spec

=============================================================================
