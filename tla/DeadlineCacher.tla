--------------------------- MODULE DeadlineCacher ---------------------------
(***************************************************************************)
(* The coalescing response cache of metrics-proxy (src/src/cache.rs,       *)
(* DeadlineCacher::get_or_insert_with).                                    *)
(*                                                                         *)
(* Every call of get_or_insert_with is a request of its own, so a request  *)
(* creates at most one entry guard (the Arc<RwLock<Option<..>>> stored in  *)
(* the hash map) and at most one removal task: both bear the request's     *)
(* name.  The global tokio Mutex around the hash map is fair, and so its   *)
(* waiters are a FIFO queue of requests and of removal tasks ("reapers").  *)
(* A request that finds a guard locked for writing waits for it with the   *)
(* global Mutex still in its hands, as the code does.                      *)
(***************************************************************************)
EXTENDS Naturals, SequencesExt

CONSTANTS
    Requests,   \* the calls of get_or_insert_with
    Keys,       \* the cache keys: URI, Authorization, Proxy-Authorization
    Outcomes,   \* the values of cache_it a fetch may come back with
    Staleness,  \* cache_duration, in ticks
    MaxLag,     \* how many ticks late the runtime may fire a timer
    Prompt,     \* TRUE: no tick passes while a task is ready to run
    MaxTime,    \* bound: when nothing is scheduled the clock stops here
    Nobody,     \* no request
    NoKey       \* the key of a request that has not been made

ASSUME ConstantsAssumption ==
    /\ Outcomes \subseteq BOOLEAN
    /\ Staleness \in Nat \ {0}     \* server.rs adds no cache layer for 0
    /\ MaxLag \in Nat
    /\ Prompt \in BOOLEAN
    /\ MaxTime \in Nat
    /\ Nobody \notin Requests
    /\ NoKey \notin Keys

VARIABLES
    now,        \* the clock
    pc,         \* where each request is
    key,        \* its cache key
    arrivedAt,  \* when it was made
    queue,      \* who waits for the global Mutex, in order
    mutex,      \* the request that waits for a guard with the Mutex held
    variants,   \* the hash map: the request whose guard is stored per key
    guard,      \* the guard each request made: its lock and its content
    fetchedAt,  \* when each request's fetch came back
    reaper,     \* where each request's removal task is
    answer      \* the request whose fetch produced each request's response

vars == <<now, pc, key, arrivedAt, queue, mutex, variants, guard, fetchedAt,
          reaper, answer>>

-----------------------------------------------------------------------------
Request(r) == [kind |-> "request", of |-> r]
Reaper(e)  == [kind |-> "reaper", of |-> e]
Waiters    == [kind : {"request", "reaper"}, of : Requests]

PcLabels     == {"idle", "locking", "reading", "fetching", "done", "cancelled"}
GuardStates  == {"none", "write", "empty", "value"}
ReaperStates == {"none", "sleeping", "locking", "done"}

TypeOK ==
    /\ now \in Nat
    /\ pc \in [Requests -> PcLabels]
    /\ key \in [Requests -> Keys \union {NoKey}]
    /\ arrivedAt \in [Requests -> Nat]
    /\ queue \in Seq(Waiters)
    /\ mutex \in Requests \union {Nobody}
    /\ variants \in [Keys -> Requests \union {Nobody}]
    /\ guard \in [Requests -> GuardStates]
    /\ fetchedAt \in [Requests -> Nat]
    /\ reaper \in [Requests -> ReaperStates]
    /\ answer \in [Requests -> Requests \union {Nobody}]

Init ==
    /\ now = 0
    /\ pc = [r \in Requests |-> "idle"]
    /\ key = [r \in Requests |-> NoKey]
    /\ arrivedAt = [r \in Requests |-> 0]
    /\ queue = << >>
    /\ mutex = Nobody
    /\ variants = [k \in Keys |-> Nobody]
    /\ guard = [r \in Requests |-> "none"]
    /\ fetchedAt = [r \in Requests |-> 0]
    /\ reaper = [r \in Requests |-> "none"]
    /\ answer = [r \in Requests |-> Nobody]

-----------------------------------------------------------------------------
(***************************************************************************)
(* What a request finds in the map under its key.                          *)
(***************************************************************************)
Entry(r)    == variants[key[r]]
\* Variant: the new guard is stored before it is locked, so nobody waits for it.
NeverInFlight(r) == FALSE

InFlight(r) == Entry(r) # Nobody /\ guard[Entry(r)] = "write"
\* Variant: any unlocked guard counts as a hit, also one without a value.
CachedIfUnlocked(r) == Entry(r) # Nobody /\ guard[Entry(r)] # "write"

Cached(r)   == Entry(r) # Nobody /\ guard[Entry(r)] = "value"

\* w is next in line and the Mutex is free.
Turn(w) == mutex = Nobody /\ queue # << >> /\ Head(queue) = w

\* The deadline by which the reaper of e has left its sleep.
Deadline(e) == fetchedAt[e] + Staleness + MaxLag

(***************************************************************************)
(* The requests.                                                           *)
(***************************************************************************)
\* A call joins the queue of the global Mutex.
Call(r, k) ==
    /\ pc[r] = "idle"
    /\ pc' = [pc EXCEPT ![r] = "locking"]
    /\ key' = [key EXCEPT ![r] = k]
    /\ arrivedAt' = [arrivedAt EXCEPT ![r] = now]
    /\ queue' = Append(queue, Request(r))
    /\ UNCHANGED <<now, mutex, variants, guard, fetchedAt, reaper, answer>>

\* The cached value is returned; the fetch future is dropped, never polled.
Hit(r) ==
    /\ Cached(r)
    /\ pc' = [pc EXCEPT ![r] = "done"]
    /\ answer' = [answer EXCEPT ![r] = Entry(r)]
    /\ UNCHANGED <<variants, guard>>

\* No entry, or an entry without a value: a new guard, locked for writing,
\* takes the place of whatever was there, and the fetch begins.
Miss(r) ==
    /\ ~Cached(r)
    /\ ~InFlight(r)
    /\ pc' = [pc EXCEPT ![r] = "fetching"]
    /\ guard' = [guard EXCEPT ![r] = "write"]
    /\ variants' = [variants EXCEPT ![key[r]] = r]
    /\ UNCHANGED answer

\* The guard is locked by a fetch: wait for it, keeping the Mutex.
AwaitGuard(r) ==
    /\ InFlight(r)
    /\ pc' = [pc EXCEPT ![r] = "reading"]
    /\ mutex' = r
    /\ UNCHANGED <<variants, guard, answer>>

\* The request gets the Mutex and looks its key up.
LookUp(r) ==
    /\ Turn(Request(r))
    /\ queue' = Tail(queue)
    /\ \/ Hit(r) /\ UNCHANGED mutex
       \/ Miss(r) /\ UNCHANGED mutex
       \/ AwaitGuard(r)
    /\ UNCHANGED <<now, key, arrivedAt, fetchedAt, reaper>>

\* Variant: the value is looked for before the wait, and not again after it.
GuardReleasedRefetches(r) ==
    /\ pc[r] = "reading"
    /\ mutex = r
    /\ ~InFlight(r)
    /\ mutex' = Nobody
    /\ pc' = [pc EXCEPT ![r] = "fetching"]
    /\ guard' = [guard EXCEPT ![r] = "write"]
    /\ variants' = [variants EXCEPT ![key[r]] = r]
    /\ UNCHANGED <<now, key, arrivedAt, queue, fetchedAt, reaper, answer>>

\* The guard the request waited for is released; the Mutex is dropped on
\* return, or once the new guard is in the map.
GuardReleased(r) ==
    /\ pc[r] = "reading"
    /\ mutex = r
    /\ mutex' = Nobody
    /\ Hit(r) \/ Miss(r)
    /\ UNCHANGED <<now, key, arrivedAt, queue, fetchedAt, reaper>>

\* Variant: the removal is scheduled for cacheable responses only.
FetchDoneReapsValuesOnly(r) ==
    /\ pc[r] = "fetching"
    /\ \E cacheIt \in Outcomes :
          /\ guard' = [guard EXCEPT ![r] = IF cacheIt THEN "value" ELSE "empty"]
          /\ reaper' = [reaper EXCEPT ![r] = IF cacheIt THEN "sleeping" ELSE "none"]
    /\ fetchedAt' = [fetchedAt EXCEPT ![r] = now]
    /\ pc' = [pc EXCEPT ![r] = "done"]
    /\ answer' = [answer EXCEPT ![r] = r]
    /\ UNCHANGED <<now, key, arrivedAt, queue, mutex, variants>>

\* The fetch comes back: the value is stored only if cache_it, the removal
\* task is spawned either way, and the guard is released.
FetchDone(r) ==
    /\ pc[r] = "fetching"
    /\ \E cacheIt \in Outcomes :
          guard' = [guard EXCEPT ![r] = IF cacheIt THEN "value" ELSE "empty"]
    /\ reaper' = [reaper EXCEPT ![r] = "sleeping"]
    /\ fetchedAt' = [fetchedAt EXCEPT ![r] = now]
    /\ pc' = [pc EXCEPT ![r] = "done"]
    /\ answer' = [answer EXCEPT ![r] = r]
    /\ UNCHANGED <<now, key, arrivedAt, queue, mutex, variants>>

\* Variant: a fetch that panics poisons its guard, as a std RwLock would.
CancelPoisons(r) ==
    /\ pc[r] = "fetching"
    /\ guard' = [guard EXCEPT ![r] = "poisoned"]
    /\ pc' = [pc EXCEPT ![r] = "cancelled"]
    /\ UNCHANGED <<now, key, arrivedAt, queue, mutex, variants, fetchedAt, reaper,
                   answer>>

\* Variant: the Mutex is not released when its holder is dropped.
CancelKeepsMutex(r) ==
    /\ \/ /\ pc[r] = "locking"
          /\ queue' = SelectSeq(queue, LAMBDA w : w # Request(r))
          /\ UNCHANGED guard
       \/ /\ pc[r] = "reading"
          /\ UNCHANGED <<queue, guard>>
       \/ /\ pc[r] = "fetching"
          /\ guard' = [guard EXCEPT ![r] = "empty"]
          /\ UNCHANGED queue
    /\ pc' = [pc EXCEPT ![r] = "cancelled"]
    /\ UNCHANGED <<now, key, arrivedAt, mutex, variants, fetchedAt, reaper, answer>>

\* The future is dropped at an await point: the timeout layer fired, the
\* client went away, or the fetch panicked.  Its locks are released by their
\* destructors; nothing after the await is run.
Cancel(r) ==
    /\ \/ /\ pc[r] = "locking"
          /\ \E i \in 1..Len(queue) : /\ queue[i] = Request(r)
                                      /\ queue' = RemoveAt(queue, i)
          /\ UNCHANGED <<mutex, guard>>
       \/ /\ pc[r] = "reading"
          /\ mutex' = Nobody
          /\ UNCHANGED <<queue, guard>>
       \/ /\ pc[r] = "fetching"
          /\ guard' = [guard EXCEPT ![r] = "empty"]
          /\ UNCHANGED <<queue, mutex>>
    /\ pc' = [pc EXCEPT ![r] = "cancelled"]
    /\ UNCHANGED <<now, key, arrivedAt, variants, fetchedAt, reaper, answer>>

(***************************************************************************)
(* The removal tasks and the clock.                                        *)
(***************************************************************************)
\* Variant: the sleep is counted from the request, not from the end of the fetch.
ReaperWakeFromArrival(e) ==
    /\ reaper[e] = "sleeping"
    /\ now >= arrivedAt[e] + Staleness
    /\ reaper' = [reaper EXCEPT ![e] = "locking"]
    /\ queue' = Append(queue, Reaper(e))
    /\ UNCHANGED <<now, pc, key, arrivedAt, mutex, variants, guard, fetchedAt,
                   answer>>

\* Variant: the removal task tries the Mutex and gives up when it is taken.
ReaperWakeTryLock(e) ==
    /\ reaper[e] = "sleeping"
    /\ now >= fetchedAt[e] + Staleness
    /\ IF mutex = Nobody
         THEN /\ reaper' = [reaper EXCEPT ![e] = "locking"]
              /\ queue' = Append(queue, Reaper(e))
         ELSE /\ reaper' = [reaper EXCEPT ![e] = "done"]
              /\ UNCHANGED queue
    /\ UNCHANGED <<now, pc, key, arrivedAt, mutex, variants, guard, fetchedAt,
                   answer>>

\* The sleep is over: the reaper joins the queue of the Mutex.
ReaperWake(e) ==
    /\ reaper[e] = "sleeping"
    /\ now >= fetchedAt[e] + Staleness
    /\ reaper' = [reaper EXCEPT ![e] = "locking"]
    /\ queue' = Append(queue, Reaper(e))
    /\ UNCHANGED <<now, pc, key, arrivedAt, mutex, variants, guard, fetchedAt,
                   answer>>

\* The reaper removes whatever is stored under its key by now.
ReaperRun(e) ==
    /\ Turn(Reaper(e))
    /\ queue' = Tail(queue)
    /\ variants' = [variants EXCEPT ![key[e]] = Nobody]
    /\ reaper' = [reaper EXCEPT ![e] = "done"]
    /\ UNCHANGED <<now, pc, key, arrivedAt, mutex, guard, fetchedAt, answer>>

\* A task that has been granted the lock it waited for.
Ready == IF mutex = Nobody THEN queue # << >> ELSE ~InFlight(mutex)

\* Time passes, but no sleeping timer is overdue by more than MaxLag.
Tick ==
    /\ now < MaxTime \/ \E e \in Requests : reaper[e] = "sleeping"
    /\ \A e \in Requests : reaper[e] = "sleeping" => now < Deadline(e)
    /\ Prompt => ~Ready
    /\ now' = now + 1
    /\ UNCHANGED <<pc, key, arrivedAt, queue, mutex, variants, guard, fetchedAt,
                   reaper, answer>>

\* Every call has ended: only then may the cache come to rest.
AtRest ==
    /\ \A r \in Requests : pc[r] \in {"done", "cancelled"}
    /\ UNCHANGED vars

-----------------------------------------------------------------------------
Next ==
    \/ \E r \in Requests, k \in Keys : Call(r, k)
    \/ \E r \in Requests : LookUp(r)
    \/ \E r \in Requests : GuardReleased(r)
    \/ \E r \in Requests : FetchDone(r)
    \/ \E r \in Requests : Cancel(r)
    \/ \E e \in Requests : ReaperWake(e)
    \/ \E e \in Requests : ReaperRun(e)
    \/ Tick
    \/ AtRest

Spec == Init /\ [][Next]_vars

(***************************************************************************)
(* The runtime polls a task that was woken, a fetch ends within the        *)
(* connector's timeout, and timers fire.  Nobody has to make a call or to  *)
(* give one up.                                                            *)
(***************************************************************************)
Fairness ==
    /\ \A r \in Requests : /\ WF_vars(LookUp(r))
                           /\ WF_vars(GuardReleased(r))
                           /\ WF_vars(FetchDone(r))
                           /\ WF_vars(ReaperWake(r))
                           /\ WF_vars(ReaperRun(r))
    /\ WF_vars(Tick)

FairSpec == Spec /\ Fairness
-----------------------------------------------------------------------------
(***************************************************************************)
(* What the cache gets right, whatever the fetches return.                 *)
(***************************************************************************)

\* A guard that stands unlocked in the map is going to be removed: its own
\* reaper is still to come.  The one exception is the empty guard left behind
\* by a fetch that was dropped (get_or_insert_with spawns the removal only
\* after the await).  Every cached value therefore has a removal pending.
EntryHasReaper ==
    \A k \in Keys : LET e == variants[k] IN
        (e # Nobody /\ guard[e] # "write") =>
            \/ reaper[e] \in {"sleeping", "locking"}
            \/ pc[e] = "cancelled" /\ guard[e] = "empty"

\* A request that is not answered by its own fetch gets a response that was
\* fetched for its own key by a fetch worth caching, and that had not outlived
\* cache_duration when the request came in (timers being late by MaxLag at
\* most): the queue of the Mutex puts the reaper before any later request.
HitsAreFresh ==
    \A r \in Requests : LET e == answer[r] IN
        e \notin {Nobody, r} => /\ key[e] = key[r]
                                /\ guard[e] = "value"
                                /\ arrivedAt[r] <= Deadline(e)

\* Nobody waits for ever: a request that has been made is answered or dropped.
EveryCallEnds ==
    \A r \in Requests :
        pc[r] = "locking" ~> pc[r] \in {"done", "cancelled"}

\* A cached value does not stay: it leaves the map for good.
ValuesAreEvicted ==
    \A e \in Requests :
        guard[e] = "value" ~> [](\A k \in Keys : variants[k] # e)

(***************************************************************************)
(* What it gets right as long as every fetch is worth caching.             *)
(***************************************************************************)

\* The keys of which no fetch has come back with something not to be cached.
CacheableKeys ==
    {k \in Keys : \A e \in Requests :
        ~(key[e] = k /\ pc[e] = "done" /\ guard[e] = "empty")}

\* Parallel requests to the same resource are consolidated into one backend
\* request (cache.rs, DeadlineCacher), until the first fetch of that resource
\* that is not cacheable; fetches that are dropped do no harm.
ConsolidatedWhileCacheable ==
    \A r, q \in Requests :
        /\ pc[r] = "fetching" /\ pc[q] = "fetching"
        /\ key[r] = key[q] /\ key[r] \in CacheableKeys
        => r = q

\* A successful fetch stays in the cache for cache_duration (README, proxy), with
\* the same reservation.
CachedForDuration ==
    \A e \in Requests :
        /\ guard[e] = "value" /\ now < fetchedAt[e] + Staleness
        /\ key[e] \in CacheableKeys
        => variants[key[e]] = e

(***************************************************************************)
(* What the comments say of it and it does not do.                         *)
(***************************************************************************)

\* "To ensure that parallel requests to the same resource are consolidated into
\* a single backend request, there is an additional lock per resource"
\* (cache.rs): whatever came back before, no two fetches of one resource run at
\* a time.
SingleFlight ==
    \A r, q \in Requests :
        (pc[r] = "fetching" /\ pc[q] = "fetching" /\ key[r] = key[q]) => r = q

\* "parallel requests to multiple resources can proceed without lock
\* contention" (cache.rs): no request waits for the Mutex while its holder
\* waits for the fetch of another resource.
NoContention ==
    \A r, q \in Requests :
        (mutex = q /\ InFlight(q) /\ pc[r] = "locking") => key[r] = key[q]
=============================================================================
