--------------------------- MODULE CoalescingCache ---------------------------
(***************************************************************************)
(* What a coalescing cache with a time limit promises, in terms of its     *)
(* callers and of the values it can serve, and without a word of locks,    *)
(* guards and removal tasks.  DeadlineCacher is shown to implement it.     *)
(*                                                                         *)
(* A caller that fetches gives its name to the value it fetched.  All      *)
(* promises about a key hold until a fetch of that key comes back with     *)
(* something that is not to be cached; after that, the cache may fetch in  *)
(* parallel and lose values, but what it serves is right all the same.     *)
(***************************************************************************)
EXTENDS Naturals

CONSTANTS
    Requests,   \* the callers
    Keys,       \* what they may ask for
    Staleness,  \* for how long a value is to be served
    Lag,        \* by how much it may be too long
    Nobody,     \* no caller, no value
    NoKey

VARIABLES
    now,
    call,         \* where each caller is
    key,          \* what it asked for
    madeAt,       \* when it asked
    store,        \* the value that can be served for each key
    readyAt,      \* when each value was fetched
    answer,       \* the value each caller got
    uncacheable   \* the keys the promises about keys are off for

vars == <<now, call, key, madeAt, store, readyAt, answer, uncacheable>>

Init ==
    /\ now = 0
    /\ call = [r \in Requests |-> "idle"]
    /\ key = [r \in Requests |-> NoKey]
    /\ madeAt = [r \in Requests |-> 0]
    /\ store = [k \in Keys |-> Nobody]
    /\ readyAt = [r \in Requests |-> 0]
    /\ answer = [r \in Requests |-> Nobody]
    /\ uncacheable = {}

\* Somebody asks.
Ask(r, k) ==
    /\ call[r] = "idle"
    /\ call' = [call EXCEPT ![r] = "waiting"]
    /\ key' = [key EXCEPT ![r] = k]
    /\ madeAt' = [madeAt EXCEPT ![r] = now]
    /\ UNCHANGED <<now, store, readyAt, answer, uncacheable>>

\* A caller fetches only what the cache does not have, and nobody else fetches.
Fetch(r) ==
    /\ call[r] = "waiting"
    /\ store[key[r]] = Nobody
    /\ \/ key[r] \in uncacheable
       \/ \A q \in Requests : ~(call[q] = "fetching" /\ key[q] = key[r])
    /\ call' = [call EXCEPT ![r] = "fetching"]
    /\ UNCHANGED <<now, key, madeAt, store, readyAt, answer, uncacheable>>

\* Who fetched gets what it fetched.  If that may be cached it can be served from
\* now on, to others too.
FetchEnds(r) ==
    /\ call[r] = "fetching"
    /\ call' = [call EXCEPT ![r] = "ended"]
    /\ answer' = [answer EXCEPT ![r] = r]
    /\ readyAt' = [readyAt EXCEPT ![r] = now]
    /\ \/ /\ store' = [store EXCEPT ![key[r]] = r]
          /\ UNCHANGED uncacheable
       \/ /\ uncacheable' = uncacheable \union {key[r]}
          /\ UNCHANGED store
       \/ /\ key[r] \in uncacheable
          /\ UNCHANGED <<store, uncacheable>>
    /\ UNCHANGED <<now, key, madeAt>>

\* A caller gets the value that can be served for its key, which had not outlived
\* its time when the caller asked.
Serve(r) ==
    /\ call[r] = "waiting"
    /\ store[key[r]] # Nobody
    /\ madeAt[r] <= readyAt[store[key[r]]] + Staleness + Lag
    /\ call' = [call EXCEPT ![r] = "ended"]
    /\ answer' = [answer EXCEPT ![r] = store[key[r]]]
    /\ UNCHANGED <<now, key, madeAt, store, readyAt, uncacheable>>

\* A caller gives up, or its fetch does.
GiveUp(r) ==
    /\ call[r] \in {"waiting", "fetching"}
    /\ call' = [call EXCEPT ![r] = "ended"]
    /\ UNCHANGED <<now, key, madeAt, store, readyAt, answer, uncacheable>>

\* A value is served for as long as it should be, and then no more.
Expire(k) ==
    /\ store[k] # Nobody
    /\ k \in uncacheable \/ now >= readyAt[store[k]] + Staleness
    /\ store' = [store EXCEPT ![k] = Nobody]
    /\ UNCHANGED <<now, call, key, madeAt, readyAt, answer, uncacheable>>

Tick ==
    /\ now' = now + 1
    /\ UNCHANGED <<call, key, madeAt, store, readyAt, answer, uncacheable>>

Next ==
    \/ \E r \in Requests, k \in Keys : Ask(r, k)
    \/ \E r \in Requests : Fetch(r)
    \/ \E r \in Requests : FetchEnds(r)
    \/ \E r \in Requests : Serve(r)
    \/ \E r \in Requests : GiveUp(r)
    \/ \E k \in Keys : Expire(k)
    \/ Tick

Spec == Init /\ [][Next]_vars
=============================================================================
