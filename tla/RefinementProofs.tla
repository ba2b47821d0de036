-------------------------- MODULE RefinementProofs --------------------------
(***************************************************************************)
(* DeadlineCacher implements CoalescingCache, for any set of requests and  *)
(* keys, any cache_duration and any lag of the timers.                     *)
(***************************************************************************)
EXTENDS DeadlineCacherRefines, DeadlineCacherProofs

\* What holds in every reachable state of the cache.
Inv == IInv /\ ReapInv /\ OwnerInv

\* Keys only lose their promises when a fetch ends (cache.rs, the branch in which
\* cache_it is false).
LEMMA UncacheableStays ==
    ASSUME Inv, [Next]_vars,
           \A e \in Requests : (pc'[e] = "done" /\ guard'[e] = "empty") => pc[e] = "done"
    PROVE  uncacheable' = uncacheable
<1>1. CacheableKeys' \subseteq CacheableKeys
  BY CacheableKeysShrink DEF Inv
<1>2. ASSUME NEW k \in CacheableKeys, NEW e \in Requests,
             key'[e] = k, pc'[e] = "done", guard'[e] = "empty"
      PROVE  FALSE
  <2>1. key[e] = k /\ pc[e] = "done" /\ guard[e] = "empty"
    BY <1>2, DoneStays DEF Inv
  <2>2. QED
    BY <1>2, <2>1 DEF CacheableKeys
<1>3. CacheableKeys \subseteq CacheableKeys'
  BY <1>2 DEF CacheableKeys
<1>4. QED
  BY <1>1, <1>3 DEF uncacheable

\* What a request waits for and what it fetches, seen from outside.
LEMMA CallIs ==
    ASSUME Inv, NEW r \in Requests
    PROVE  /\ call[r] = "waiting" <=> pc[r] \in {"locking", "reading"}
           /\ call[r] = "fetching" <=> pc[r] = "fetching"
           /\ call[r] = "idle" <=> pc[r] = "idle"
  BY DEF Inv, IInv, TypeOK, PcLabels, call

\* One request moves, and the others do not.
LEMMA CallMoves ==
    ASSUME Inv, NEW r \in Requests, NEW l \in PcLabels, pc' = [pc EXCEPT ![r] = l]
    PROVE  call' = [call EXCEPT ![r] = CASE l \in {"locking", "reading"} -> "waiting"
                                          [] l \in {"done", "cancelled"} -> "ended"
                                          [] OTHER                       -> l]
  BY DEF Inv, IInv, TypeOK, call
-----------------------------------------------------------------------------
\* A call of the cache is somebody who asks.
LEMMA AskStep ==
    ASSUME Inv, NEW r \in Requests, NEW k \in Keys, Call(r, k)
    PROVE  Promised!Ask(r, k)
<1>1. call[r] = "idle"
  BY CallIs DEF Call
<1>2. call' = [call EXCEPT ![r] = "waiting"]
  BY CallMoves DEF Call, PcLabels
<1>3. uncacheable' = uncacheable
  BY UncacheableStays DEF Inv, IInv, TypeOK, Call, Next
<1>4. store' = store
  BY DEF Call, store
<1>5. QED
  BY <1>1, <1>2, <1>3, <1>4 DEF Call, Promised!Ask

\* A hit serves what the map has under the caller's key, in date.
LEMMA ServeStep ==
    ASSUME Inv, IInv', [Next]_vars, NEW r \in Requests, pc[r] \in {"locking", "reading"},
           Hit(r), UNCHANGED <<now, key, arrivedAt, fetchedAt>>
    PROVE  Promised!Serve(r)
<1>1. TypeOK /\ GuardInv /\ MapInv /\ HitsAreFresh'
  BY DEF Inv, IInv
<1>2. key[r] \in Keys
  BY <1>1 DEF GuardInv
<1>3. /\ Entry(r) \in Requests /\ guard[Entry(r)] = "value"
      /\ store[key[r]] = Entry(r)
  BY <1>1, <1>2 DEF TypeOK, Hit, Cached, Entry, store
<1>4. Entry(r) # r
  BY <1>1, <1>3 DEF GuardInv
<1>5. arrivedAt[r] <= Deadline(Entry(r))
  <2>1. answer'[r] = Entry(r)
    BY <1>1 DEF TypeOK, Hit
  <2>2. Entry(r) # Nobody
    BY DEF Hit, Cached
  <2>3. arrivedAt'[r] <= fetchedAt'[Entry(r)] + Staleness + MaxLag
    BY <1>1, <1>4, <2>1, <2>2 DEF HitsAreFresh, Deadline
  <2>4. QED
    BY <2>3 DEF Deadline
<1>6. call[r] = "waiting" /\ call' = [call EXCEPT ![r] = "ended"]
  BY CallIs, CallMoves DEF Hit, PcLabels
<1>7. store' = store
  BY DEF Hit, store
<1>8. uncacheable' = uncacheable
  BY <1>1, UncacheableStays DEF TypeOK, GuardInv, Hit
<1>9. answer' = [answer EXCEPT ![r] = store[key[r]]]
  BY <1>3 DEF Hit
<1>10. store[key[r]] # Nobody
  BY <1>3, ConstantsAssumption
<1>11. arrivedAt[r] <= fetchedAt[store[key[r]]] + Staleness + MaxLag
  BY <1>3, <1>5 DEF Deadline
<1>12. QED
  BY <1>6, <1>7, <1>8, <1>9, <1>10, <1>11 DEF Promised!Serve

\* A miss is a fetch of what the cache does not have and nobody fetches.
LEMMA FetchStep ==
    ASSUME Inv, [Next]_vars, NEW r \in Requests, pc[r] \in {"locking", "reading"},
           Miss(r), UNCHANGED <<now, key, arrivedAt, fetchedAt>>
    PROVE  Promised!Fetch(r)
<1>1. TypeOK /\ GuardInv /\ MapInv /\ OwnerInv
  BY DEF Inv, IInv
<1>2. key[r] \in Keys /\ guard[r] = "none"
  BY <1>1 DEF GuardInv
<1>3. store[key[r]] = Nobody
  BY <1>1, <1>2 DEF Miss, Cached, Entry, store
<1>4. ASSUME NEW q \in Requests, call[q] = "fetching", key[q] = key[r],
             key[r] \notin uncacheable
      PROVE  FALSE
  <2>1. pc[q] = "fetching" /\ guard[q] = "write"
    BY <1>1, <1>4, CallIs DEF GuardInv
  <2>2. variants[key[r]] = q
    BY <1>1, <1>2, <1>4, <2>1 DEF OwnerInv, Owns, uncacheable
  <2>3. QED
    BY <2>1, <2>2, ConstantsAssumption DEF Miss, InFlight, Entry
<1>5. store' = store
  <2>1. ASSUME NEW k \in Keys
        PROVE  store'[k] = store[k]
    <3>1. CASE k = key[r]
      BY <1>1, <1>2, <1>3, <3>1 DEF TypeOK, Miss, store
    <3>2. CASE k # key[r]
      <4>1. variants[k] # r
        BY <1>1, <1>2, ConstantsAssumption DEF MapInv
      <4>2. variants'[k] = variants[k]
        BY <1>1, <3>2 DEF TypeOK, Miss
      <4>3. variants[k] # Nobody => guard'[variants[k]] = guard[variants[k]]
        BY <1>1, <4>1 DEF TypeOK, Miss
      <4>4. QED
        BY <4>2, <4>3 DEF store
    <3>3. QED
      BY <3>1, <3>2
  <2>2. QED
    BY <2>1 DEF store
<1>6. call[r] = "waiting" /\ call' = [call EXCEPT ![r] = "fetching"]
  BY CallIs, CallMoves DEF Miss, PcLabels
<1>7. uncacheable' = uncacheable
  BY <1>1, UncacheableStays DEF TypeOK, GuardInv, Miss
<1>8. QED
  BY <1>3, <1>4, <1>5, <1>6, <1>7 DEF Miss, Promised!Fetch

\* A fetch that ends gives its caller what it fetched; the cache has it too, or the
\* key has lost its promises.
LEMMA FetchEndsStep ==
    ASSUME Inv, [Next]_vars, NEW r \in Requests, FetchDone(r)
    PROVE  Promised!FetchEnds(r)
<1>1. TypeOK /\ GuardInv /\ MapInv /\ OwnerInv
  BY DEF Inv, IInv
<1>2. pc[r] = "fetching" /\ guard[r] = "write" /\ key[r] \in Keys
  BY <1>1 DEF GuardInv, FetchDone
<1>3. call[r] = "fetching" /\ call' = [call EXCEPT ![r] = "ended"]
  BY CallIs, CallMoves DEF FetchDone, PcLabels
<1>4. \A k \in Keys : variants[k] = r => k = key[r]
  BY <1>1, ConstantsAssumption DEF MapInv
<1>5. CASE guard' = [guard EXCEPT ![r] = "value"]
  <2>1. uncacheable' = uncacheable
    BY <1>1, <1>5, UncacheableStays DEF TypeOK, FetchDone
  <2>2. CASE variants[key[r]] = r
    <3>1. ASSUME NEW k \in Keys
          PROVE  store'[k] = [store EXCEPT ![key[r]] = r][k]
      <4>1. CASE k = key[r]
        BY <1>1, <1>2, <1>5, <2>2, <4>1, ConstantsAssumption DEF TypeOK, FetchDone, store
      <4>2. CASE k # key[r]
        BY <1>1, <1>4, <1>5, <4>2 DEF TypeOK, FetchDone, store
      <4>3. QED
        BY <4>1, <4>2
    <3>2. store' = [store EXCEPT ![key[r]] = r]
      BY <3>1 DEF store
    <3>3. QED
      BY <1>3, <2>1, <3>2 DEF FetchDone, Promised!FetchEnds
  <2>3. CASE variants[key[r]] # r
    <3>1. key[r] \in uncacheable
      BY <1>1, <1>2, <2>3 DEF OwnerInv, Owns, uncacheable
    <3>2. store' = store
      BY <1>1, <1>4, <1>5, <2>3 DEF TypeOK, FetchDone, store
    <3>3. QED
      BY <1>3, <2>1, <3>1, <3>2 DEF FetchDone, Promised!FetchEnds
  <2>4. QED
    BY <2>2, <2>3
<1>6. CASE guard' = [guard EXCEPT ![r] = "empty"]
  <2>1. store' = store
    BY <1>1, <1>2, <1>6 DEF TypeOK, FetchDone, store
  <2>2. uncacheable' = uncacheable \union {key[r]}
    <3>1. pc'[r] = "done" /\ guard'[r] = "empty" /\ key' = key
      BY <1>1, <1>6 DEF TypeOK, FetchDone
    <3>2. key[r] \notin CacheableKeys'
      BY <3>1 DEF CacheableKeys
    <3>3. \A e \in Requests : e # r => pc'[e] = pc[e] /\ guard'[e] = guard[e]
      BY <1>1, <1>6 DEF TypeOK, FetchDone
    <3>4. CacheableKeys \subseteq CacheableKeys' \union {key[r]}
      BY <3>1, <3>3 DEF CacheableKeys
    <3>5. CacheableKeys' \subseteq CacheableKeys
      BY CacheableKeysShrink DEF Inv
    <3>6. QED
      BY <1>2, <3>2, <3>4, <3>5 DEF uncacheable
  <2>3. QED
    BY <1>3, <2>1, <2>2 DEF FetchDone, Promised!FetchEnds
<1>7. QED
  BY <1>5, <1>6 DEF FetchDone

\* A call that is dropped is somebody who gives up.
LEMMA GiveUpStep ==
    ASSUME Inv, [Next]_vars, NEW r \in Requests, Cancel(r)
    PROVE  Promised!GiveUp(r)
<1>1. TypeOK /\ GuardInv /\ MapInv
  BY DEF Inv, IInv
<1>2. /\ call[r] \in {"waiting", "fetching"}
      /\ call' = [call EXCEPT ![r] = "ended"]
  BY CallIs, CallMoves DEF Cancel, PcLabels
<1>3. store' = store
  <2>1. guard' = guard \/ (guard[r] = "write" /\ guard' = [guard EXCEPT ![r] = "empty"])
    BY <1>1 DEF GuardInv, Cancel
  <2>2. QED
    BY <1>1, <2>1 DEF TypeOK, Cancel, store
<1>4. uncacheable' = uncacheable
  <2>1. \A e \in Requests : pc'[e] = "done" => pc[e] = "done"
    BY <1>1 DEF TypeOK, Cancel
  <2>2. QED
    BY <2>1, UncacheableStays
<1>5. QED
  BY <1>2, <1>3, <1>4 DEF Cancel, Promised!GiveUp

\* A removal task takes a value away when its time is over, or finds nothing.
LEMMA ExpireStep ==
    ASSUME Inv, [Next]_vars, NEW e \in Requests, ReaperRun(e)
    PROVE  Promised!Expire(key[e]) \/ UNCHANGED Promised!vars
<1>1. TypeOK /\ QueueInv /\ GuardInv /\ MapInv /\ OwnerInv /\ ReapInv
  BY DEF Inv, IInv
<1>2. 1 \in 1..Len(queue) /\ queue[1] = Reaper(e)
  BY <1>1, LenProperties, EmptySeq, HeadTailProperties DEF ReaperRun, Turn, TypeOK
<1>3. reaper[e] = "locking" /\ pc[e] = "done" /\ key[e] \in Keys
  BY <1>1, <1>2 DEF QueueInv, GuardInv
<1>4. store' = [store EXCEPT ![key[e]] = Nobody]
  <2>1. ASSUME NEW k \in Keys
        PROVE  store'[k] = [store EXCEPT ![key[e]] = Nobody][k]
    BY <1>1, <1>3 DEF TypeOK, ReaperRun, store
  <2>2. QED
    BY <2>1 DEF store
<1>5. call' = call
  BY DEF ReaperRun, call
<1>6. uncacheable' = uncacheable
  BY UncacheableStays DEF ReaperRun
<1>7. CASE store[key[e]] = Nobody
  <2>1. store' = store
    BY <1>4, <1>7 DEF store
  <2>2. QED
    BY <1>5, <1>6, <2>1 DEF ReaperRun, Promised!vars
<1>8. CASE store[key[e]] # Nobody
  <2>1. key[e] \in uncacheable \/ now >= fetchedAt[store[key[e]]] + Staleness
    <3>1. CASE key[e] \notin uncacheable
      <4>1. variants[key[e]] = e
        BY <1>1, <1>3, <3>1 DEF OwnerInv, Owns, uncacheable
      <4>2. store[key[e]] = e
        BY <1>3, <1>8, <4>1 DEF store
      <4>3. QED
        BY <1>1, <1>3, <4>2 DEF ReapInv
    <3>2. QED
      BY <3>1
  <2>2. QED
    BY <1>4, <1>5, <1>6, <1>8, <2>1 DEF ReaperRun, Promised!Expire
<1>9. QED
  BY <1>7, <1>8

-----------------------------------------------------------------------------
\* Every step of the cache is one the promise allows, or cannot be seen.
LEMMA RefinesStep ==
    ASSUME Inv, IInv', [Next]_vars
    PROVE  [Promised!Next]_(Promised!vars)
<1>1. TypeOK /\ QueueInv
  BY DEF Inv, IInv
<1>2. ASSUME NEW r \in Requests, NEW k \in Keys, Call(r, k)
      PROVE  Promised!Next
  BY <1>2, AskStep DEF Promised!Next
<1>3. ASSUME NEW r \in Requests, LookUp(r)
      PROVE  [Promised!Next]_(Promised!vars)
  <2>1. 1 \in 1..Len(queue) /\ queue[1] = Request(r)
    BY <1>1, <1>3, LenProperties, EmptySeq, HeadTailProperties DEF LookUp, Turn, TypeOK
  <2>2. pc[r] = "locking"
    BY <1>1, <2>1 DEF QueueInv
  <2>3. CASE Hit(r)
    BY <1>3, <2>2, <2>3, ServeStep DEF LookUp, Promised!Next
  <2>4. CASE Miss(r)
    BY <1>3, <2>2, <2>4, FetchStep DEF LookUp, Promised!Next
  <2>5. CASE AwaitGuard(r)
    <3>1. pc' = [pc EXCEPT ![r] = "reading"]
      BY <2>5 DEF AwaitGuard
    <3>2. call' = call
      BY <1>1, <2>2, <3>1 DEF TypeOK, call
    <3>3. store' = store
      BY <2>5 DEF AwaitGuard, store
    <3>4. uncacheable' = uncacheable
      BY <1>1, <3>1, UncacheableStays DEF TypeOK
    <3>5. QED
      BY <1>3, <2>5, <3>2, <3>3, <3>4 DEF LookUp, AwaitGuard, Promised!vars
  <2>6. QED
    BY <1>3, <2>3, <2>4, <2>5 DEF LookUp
<1>4. ASSUME NEW r \in Requests, GuardReleased(r)
      PROVE  Promised!Next
  <2>1. CASE Hit(r)
    BY <1>4, <2>1, ServeStep DEF GuardReleased, Promised!Next
  <2>2. CASE Miss(r)
    BY <1>4, <2>2, FetchStep DEF GuardReleased, Promised!Next
  <2>3. QED
    BY <1>4, <2>1, <2>2 DEF GuardReleased
<1>5. ASSUME NEW r \in Requests, FetchDone(r)
      PROVE  Promised!Next
  BY <1>5, FetchEndsStep DEF Promised!Next
<1>6. ASSUME NEW r \in Requests, Cancel(r)
      PROVE  Promised!Next
  BY <1>6, GiveUpStep DEF Promised!Next
<1>7. ASSUME NEW e \in Requests, ReaperWake(e)
      PROVE  UNCHANGED Promised!vars
  BY <1>7 DEF ReaperWake, Promised!vars, call, store, uncacheable, CacheableKeys
<1>8. ASSUME NEW e \in Requests, ReaperRun(e)
      PROVE  [Promised!Next]_(Promised!vars)
  <2>1. 1 \in 1..Len(queue) /\ queue[1] = Reaper(e)
    BY <1>1, <1>8, LenProperties, EmptySeq, HeadTailProperties DEF ReaperRun, Turn, TypeOK
  <2>2. key[e] \in Keys
    BY <1>1, <2>1 DEF QueueInv, Inv, IInv, GuardInv
  <2>3. QED
    BY <1>8, <2>2, ExpireStep DEF Promised!Next
<1>9. ASSUME Tick
      PROVE  Promised!Tick
  BY <1>9 DEF Tick, Promised!Tick, call, store, uncacheable, CacheableKeys
<1>10. CASE AtRest \/ UNCHANGED vars
  BY <1>10 DEF AtRest, vars, Promised!vars, call, store, uncacheable, CacheableKeys
<1>11. QED
  BY <1>2, <1>3, <1>4, <1>5, <1>6, <1>7, <1>8, <1>9, <1>10 DEF Next, Promised!Next

LEMMA InitRefines == Init => Inv /\ Promised!Init
<1>1. Init => Promised!Init
  BY DEF Init, Promised!Init, call, store, uncacheable, CacheableKeys
<1>2. Init => Inv
  BY InitIInv DEF Init, Inv, ReapInv, OwnerInv, Owns
<1>3. QED
  BY <1>1, <1>2

LEMMA NextRefines == Inv /\ [Next]_vars => Inv' /\ [Promised!Next]_(Promised!vars)
<1>1. Inv /\ [Next]_vars => Inv'
  BY NextIInv, ReapStep, OwnerStep DEF Inv
<1>2. Inv /\ Inv' /\ [Next]_vars => [Promised!Next]_(Promised!vars)
  BY RefinesStep DEF Inv
<1>3. QED
  BY <1>1, <1>2

\* The cache keeps every promise of CoalescingCache: whatever is fetched, dropped and
\* removed in whatever order, its callers cannot tell it from a cache that fetches
\* once and serves each value for its time, until something uncacheable comes back
\* for the key (get_or_insert_with of cache.rs, and its removal task).
THEOREM Implementation == Spec => ImplementsCache
  BY InitRefines, NextRefines, PTL DEF Spec, ImplementsCache, Promised!Spec
=============================================================================
