------------------------ MODULE DeadlineCacherProofs ------------------------
(***************************************************************************)
(* Proofs about DeadlineCacher, for any set of requests and keys, any      *)
(* cache_duration and any lag of the timers.                               *)
(***************************************************************************)
EXTENDS DeadlineCacher, SequenceTheorems, TLAPS

(***************************************************************************)
(* The inductive invariant, part by part.                                  *)
(***************************************************************************)

\* The queue holds no waiter twice, and exactly the tasks that are locking.
QueueInv ==
    /\ \A i, j \in 1..Len(queue) : queue[i] = queue[j] => i = j
    /\ \A r \in Requests : \A i \in 1..Len(queue) :
          /\ queue[i] = Request(r) => pc[r] = "locking"
          /\ queue[i] = Reaper(r) => reaper[r] = "locking"
    /\ \A e \in Requests :
          reaper[e] = "locking" => \E i \in 1..Len(queue) : queue[i] = Reaper(e)

\* Who holds the Mutex across an await waits for the guard of its key, and the
\* entry stays where it is meanwhile.
MutexInv ==
    /\ mutex # Nobody => pc[mutex] = "reading"
    /\ \A r \in Requests : pc[r] = "reading" => mutex = r /\ Entry(r) # Nobody

\* A guard is locked for writing exactly while its maker is fetching.
GuardInv ==
    \A r \in Requests :
        /\ guard[r] = "write" <=> pc[r] = "fetching"
        /\ guard[r] = "value" => pc[r] = "done"
        /\ pc[r] \in {"idle", "locking", "reading"} => guard[r] = "none"
        /\ reaper[r] # "none" => pc[r] = "done" /\ guard[r] \in {"empty", "value"}
        /\ pc[r] # "idle" => key[r] \in Keys
        /\ pc[r] # "done" => answer[r] = Nobody

MapInv ==
    \A k \in Keys : LET e == variants[k] IN
        e # Nobody => key[e] = k /\ guard[e] # "none"

\* Where the clock stands, and which deadlines are out of reach of a request.
TimeInv ==
    /\ \A r \in Requests : arrivedAt[r] <= now
    /\ \A e \in Requests : reaper[e] = "sleeping" => now <= Deadline(e)
    /\ \A r \in Requests :
          (pc[r] = "reading" /\ Cached(r)) => arrivedAt[r] <= Deadline(Entry(r))

\* A request is not ahead of a reaper whose deadline it has missed.
OrderInv ==
    \A r, e \in Requests : \A i, j \in 1..Len(queue) :
        (i < j /\ queue[i] = Request(r) /\ queue[j] = Reaper(e)) =>
            arrivedAt[r] <= Deadline(e)

IInv == /\ TypeOK
        /\ QueueInv
        /\ MutexInv
        /\ GuardInv
        /\ MapInv
        /\ TimeInv
        /\ OrderInv
        /\ EntryHasReaper
        /\ HitsAreFresh
-----------------------------------------------------------------------------
(***************************************************************************)
(* Taking an element out of a queue.                                       *)
(***************************************************************************)

\* RemoveAt(s, i) is s without its i-th element (the waiter that Cancel takes
\* out of the queue of the Mutex).
LEMMA RemoveAtElements ==
    ASSUME NEW S, NEW s \in Seq(S), NEW i \in 1..Len(s)
    PROVE  /\ RemoveAt(s, i) \in Seq(S)
           /\ Len(RemoveAt(s, i)) = Len(s) - 1
           /\ \A j \in 1..Len(s) - 1 :
                 RemoveAt(s, i)[j] = IF j < i THEN s[j] ELSE s[j + 1]
<1> DEFINE front == SubSeq(s, 1, i - 1)
           back  == SubSeq(s, i + 1, Len(s))
<1>1. /\ Len(s) \in Nat
      /\ \A j \in 1..Len(s) : s[j] \in S
  BY LenProperties, ElementOfSeq
<1>2. /\ front \in Seq(S)
      /\ Len(front) = i - 1
      /\ \A j \in 1..i - 1 : front[j] = s[j]
  <2>1. \A j \in 1..i - 1 : s[j] \in S
    BY <1>1
  <2>2. /\ front \in Seq(S)
        /\ Len(front) = IF 1 <= i - 1 THEN i - 1 - 1 + 1 ELSE 0
        /\ \A j \in 1..i - 1 - 1 + 1 : front[j] = s[1 + j - 1]
    BY <1>1, <2>1, SubSeqProperties
  <2>3. QED
    BY <1>1, <2>2
<1>3. /\ back \in Seq(S)
      /\ Len(back) = Len(s) - i
      /\ \A j \in 1..Len(s) - i : back[j] = s[i + j]
  <2>1. \A j \in i + 1..Len(s) : s[j] \in S
    BY <1>1
  <2>2. /\ back \in Seq(S)
        /\ Len(back) = IF i + 1 <= Len(s) THEN Len(s) - (i + 1) + 1 ELSE 0
        /\ \A j \in 1..Len(s) - (i + 1) + 1 : back[j] = s[i + 1 + j - 1]
    BY <1>1, <2>1, SubSeqProperties
  <2>3. QED
    BY <1>1, <2>2
<1>4. /\ front \o back \in Seq(S)
      /\ Len(front \o back) = Len(front) + Len(back)
      /\ \A j \in 1..Len(front) + Len(back) :
            (front \o back)[j] = IF j <= Len(front) THEN front[j]
                                 ELSE back[j - Len(front)]
  BY <1>2, <1>3, ConcatProperties
<1>5. RemoveAt(s, i) = front \o back
  BY DEF RemoveAt
<1> HIDE DEF front, back
<1>6. Len(front) + Len(back) = Len(s) - 1
  BY <1>1, <1>2, <1>3
<1>7. ASSUME NEW j \in 1..Len(s) - 1
      PROVE  (front \o back)[j] = IF j < i THEN s[j] ELSE s[j + 1]
  <2>1. CASE j < i
    <3>1. j \in 1..i - 1 /\ j <= Len(front)
      BY <1>2, <2>1
    <3>2. QED
      BY <1>1, <1>2, <1>4, <1>6, <1>7, <2>1, <3>1
  <2>2. CASE ~(j < i)
    <3>1. j - (i - 1) \in 1..Len(s) - i /\ ~(j <= Len(front)) /\ i + (j - (i - 1)) = j + 1
      BY <1>1, <1>2, <1>7, <2>2
    <3>2. (front \o back)[j] = back[j - (i - 1)]
      BY <1>2, <1>4, <1>6, <1>7, <3>1
    <3>3. QED
      BY <1>3, <2>2, <3>1, <3>2
  <2>3. QED
    BY <2>1, <2>2
<1>8. QED
  BY <1>4, <1>5, <1>6, <1>7

-----------------------------------------------------------------------------
(***************************************************************************)
(* The waiters of the Mutex.                                               *)
(***************************************************************************)

\* No two waiters of the queue are taken for each other.
LEMMA WaiterTypes ==
    ASSUME NEW r \in Requests
    PROVE  /\ Request(r) \in Waiters /\ Reaper(r) \in Waiters
           /\ \A q \in Requests : /\ Request(r) # Reaper(q)
                                  /\ Request(r) = Request(q) => r = q
                                  /\ Reaper(r) = Reaper(q) => r = q
<1>1. Request(r) \in Waiters /\ Reaper(r) \in Waiters
  BY DEF Request, Reaper, Waiters
<1>2. /\ Request(r).kind = "request" /\ Request(r).of = r
      /\ Reaper(r).kind = "reaper" /\ Reaper(r).of = r
  BY DEF Request, Reaper
<1>3. ASSUME NEW q \in Requests
      PROVE  /\ Request(r) # Reaper(q)
             /\ Request(r) = Request(q) => r = q
             /\ Reaper(r) = Reaper(q) => r = q
  BY DEF Request, Reaper
<1>4. QED
  BY <1>1, <1>3

-----------------------------------------------------------------------------
(***************************************************************************)
(* What a step does to the queue.                                          *)
(***************************************************************************)

\* A waiter that was not in the queue joins it at its end; if it is a reaper,
\* every request was made before its deadline.
LEMMA QueueGrows ==
    ASSUME TypeOK, QueueInv, OrderInv, NEW w \in Waiters,
           queue' = Append(queue, w),
           \A i \in 1..Len(queue) : queue[i] # w,
           \A r \in Requests :
              /\ pc[r] = "locking" => /\ pc'[r] = "locking"
                                      /\ arrivedAt'[r] = arrivedAt[r]
              /\ reaper[r] = "locking" => reaper'[r] = "locking"
              /\ reaper'[r] = "locking" => reaper[r] = "locking" \/ w = Reaper(r)
              /\ w = Request(r) => pc'[r] = "locking"
              /\ w = Reaper(r) => reaper'[r] = "locking",
           \A r, e \in Requests : w = Reaper(e) => arrivedAt'[r] <= Deadline(e),
           fetchedAt' = fetchedAt
    PROVE  queue' \in Seq(Waiters) /\ QueueInv' /\ OrderInv'
<1>1. Len(queue) \in Nat
  BY LenProperties DEF TypeOK
<1>2. /\ queue' \in Seq(Waiters)
      /\ Len(queue') = Len(queue) + 1
      /\ \A i \in 1..Len(queue) : queue'[i] = queue[i]
      /\ queue'[Len(queue) + 1] = w
  BY AppendProperties DEF TypeOK
<1>3. QueueInv'
  <2>1. ASSUME NEW i \in 1..Len(queue'), NEW j \in 1..Len(queue'),
               queue'[i] = queue'[j]
        PROVE  i = j
    BY <1>1, <1>2, <2>1 DEF QueueInv
  <2>2. ASSUME NEW r \in Requests, NEW i \in 1..Len(queue')
        PROVE  /\ queue'[i] = Request(r) => pc'[r] = "locking"
               /\ queue'[i] = Reaper(r) => reaper'[r] = "locking"
    <3>1. CASE i = Len(queue) + 1
      BY <1>2, <3>1
    <3>2. CASE i \in 1..Len(queue)
      BY <1>2, <3>2 DEF QueueInv
    <3>3. QED
      BY <1>1, <1>2, <3>1, <3>2
  <2>3. ASSUME NEW e \in Requests, reaper'[e] = "locking"
        PROVE  \E i \in 1..Len(queue') : queue'[i] = Reaper(e)
    <3>1. CASE w = Reaper(e)
      BY <1>1, <1>2, <3>1
    <3>2. CASE reaper[e] = "locking"
      <4>1. PICK i \in 1..Len(queue) : queue[i] = Reaper(e)
        BY <3>2 DEF QueueInv
      <4>2. QED
        BY <1>1, <1>2, <4>1
    <3>3. QED
      BY <2>3, <3>1, <3>2
  <2>4. QED
    BY <2>1, <2>2, <2>3 DEF QueueInv, Request, Reaper
<1>4. OrderInv'
  <2>1. SUFFICES ASSUME NEW r \in Requests, NEW e \in Requests,
                        NEW i \in 1..Len(queue'), NEW j \in 1..Len(queue'),
                        i < j, queue'[i] = Request(r), queue'[j] = Reaper(e)
                 PROVE  arrivedAt'[r] <= Deadline(e)'
    BY DEF OrderInv, Request, Reaper
  <2>2. Deadline(e)' = Deadline(e)
    BY DEF Deadline
  <2>3. CASE j = Len(queue) + 1
    BY <1>2, <2>1, <2>2, <2>3
  <2>4. CASE j \in 1..Len(queue)
    <3>1. i \in 1..Len(queue) /\ queue[i] = Request(r) /\ queue[j] = Reaper(e)
      BY <1>1, <1>2, <2>1, <2>4
    <3>2. pc[r] = "locking" /\ arrivedAt[r] <= Deadline(e)
      BY <2>1, <2>4, <3>1 DEF QueueInv, OrderInv
    <3>3. QED
      BY <2>2, <3>2
  <2>5. QED
    BY <1>1, <1>2, <2>3, <2>4
<1>5. QED
  BY <1>2, <1>3, <1>4

\* One waiter leaves the queue, from wherever it stands.
LEMMA QueueShrinks ==
    ASSUME TypeOK, QueueInv, OrderInv, NEW n \in 1..Len(queue),
           Len(queue') = Len(queue) - 1,
           \A j \in 1..Len(queue) - 1 :
              queue'[j] = IF j < n THEN queue[j] ELSE queue[j + 1],
           \A r \in Requests :
              /\ pc[r] = "locking" => pc'[r] = "locking" \/ queue[n] = Request(r)
              /\ reaper[r] = "locking" => reaper'[r] = "locking" \/ queue[n] = Reaper(r)
              /\ reaper'[r] = "locking" => reaper[r] = "locking" /\ queue[n] # Reaper(r),
           UNCHANGED <<arrivedAt, fetchedAt>>
    PROVE  QueueInv' /\ OrderInv'
<1> DEFINE old == [j \in 1..Len(queue) - 1 |-> IF j < n THEN j ELSE j + 1]
<1>1. Len(queue) \in Nat /\ 1..Len(queue') = 1..Len(queue) - 1
  BY LenProperties DEF TypeOK
<1>2. /\ \A j \in 1..Len(queue') : /\ old[j] \in 1..Len(queue)
                                   /\ old[j] # n
                                   /\ queue'[j] = queue[old[j]]
      /\ \A i, j \in 1..Len(queue') : /\ i < j <=> old[i] < old[j]
                                      /\ old[i] = old[j] => i = j
      /\ \A i \in 1..Len(queue) :
            i # n => \E j \in 1..Len(queue') : old[j] = i
  <2>1. ASSUME NEW j \in 1..Len(queue')
        PROVE  old[j] \in 1..Len(queue) /\ old[j] # n /\ queue'[j] = queue[old[j]]
    BY <1>1, <2>1
  <2>2. ASSUME NEW i \in 1..Len(queue'), NEW j \in 1..Len(queue')
        PROVE  (i < j <=> old[i] < old[j]) /\ (old[i] = old[j] => i = j)
    BY <1>1, <2>2
  <2>3. ASSUME NEW i \in 1..Len(queue), i # n
        PROVE  \E j \in 1..Len(queue') : old[j] = i
    <3>1. CASE i < n
      <4>1. i \in 1..Len(queue') /\ old[i] = i
        BY <1>1, <2>3, <3>1
      <4>2. QED
        BY <4>1
    <3>2. CASE i > n
      <4>1. i - 1 \in 1..Len(queue') /\ old[i - 1] = i
        BY <1>1, <2>3, <3>2
      <4>2. QED
        BY <4>1
    <3>3. QED
      BY <1>1, <2>3, <3>1, <3>2
  <2>4. QED
    BY <2>1, <2>2, <2>3
<1> HIDE DEF old
<1>3. \A i \in 1..Len(queue) : queue[i] = queue[n] => i = n
  BY DEF QueueInv
<1>4. QueueInv'
  <2>1. ASSUME NEW i \in 1..Len(queue'), NEW j \in 1..Len(queue'),
               queue'[i] = queue'[j]
        PROVE  i = j
    <3>1. /\ old[i] \in 1..Len(queue) /\ old[j] \in 1..Len(queue)
          /\ queue[old[i]] = queue[old[j]]
      BY <1>2, <2>1
    <3>2. old[i] = old[j]
      BY <3>1 DEF QueueInv
    <3>3. QED
      BY <1>2, <3>2
  <2>2. ASSUME NEW r \in Requests, NEW i \in 1..Len(queue')
        PROVE  /\ queue'[i] = Request(r) => pc'[r] = "locking"
               /\ queue'[i] = Reaper(r) => reaper'[r] = "locking"
    <3>1. /\ old[i] \in 1..Len(queue)
          /\ queue'[i] = queue[old[i]] /\ queue[old[i]] # queue[n]
      BY <1>2, <1>3
    <3>2. QED
      BY <3>1 DEF QueueInv
  <2>3. ASSUME NEW e \in Requests, reaper'[e] = "locking"
        PROVE  \E i \in 1..Len(queue') : queue'[i] = Reaper(e)
    <3>1. PICK i \in 1..Len(queue) : queue[i] = Reaper(e)
      BY <2>3 DEF QueueInv
    <3>2. i # n
      BY <2>3, <3>1
    <3>3. PICK j \in 1..Len(queue') : old[j] = i
      BY <1>2, <3>2
    <3>4. QED
      BY <1>2, <3>1, <3>3
  <2>4. QED
    BY <2>1, <2>2, <2>3 DEF QueueInv, Request, Reaper
<1>5. OrderInv'
  <2>1. SUFFICES ASSUME NEW r \in Requests, NEW e \in Requests,
                        NEW i \in 1..Len(queue'), NEW j \in 1..Len(queue'),
                        i < j, queue'[i] = Request(r), queue'[j] = Reaper(e)
                 PROVE  arrivedAt[r] <= Deadline(e)
    BY DEF OrderInv, Request, Reaper, Deadline
  <2>2. /\ old[i] \in 1..Len(queue) /\ queue[old[i]] = Request(r)
        /\ old[j] \in 1..Len(queue) /\ queue[old[j]] = Reaper(e)
        /\ old[i] < old[j]
    BY <1>2, <2>1
  <2>3. QED
    BY <2>2 DEF OrderInv
<1>6. QED
  BY <1>4, <1>5

-----------------------------------------------------------------------------
(***************************************************************************)
(* The invariant is inductive: one lemma per action.                       *)
(***************************************************************************)

\* A call (cache.rs, get_or_insert_with up to the lock) joins the queue and
\* disturbs nothing else.
LEMMA CallStep ==
    ASSUME IInv, NEW r \in Requests, NEW k \in Keys, Call(r, k)
    PROVE  IInv'
<1> USE DEF PcLabels, GuardStates, ReaperStates
<1>1. /\ TypeOK /\ QueueInv /\ MutexInv /\ GuardInv /\ MapInv /\ TimeInv
      /\ OrderInv /\ EntryHasReaper /\ HitsAreFresh
  BY DEF IInv
<1>2. /\ pc[r] = "idle"
      /\ pc' = [pc EXCEPT ![r] = "locking"]
      /\ key' = [key EXCEPT ![r] = k]
      /\ arrivedAt' = [arrivedAt EXCEPT ![r] = now]
      /\ UNCHANGED <<now, mutex, variants, guard, fetchedAt, reaper, answer>>
  BY DEF Call
<1>3. queue' \in Seq(Waiters) /\ QueueInv' /\ OrderInv'
  <2>1. \A i \in 1..Len(queue) : queue[i] # Request(r)
    BY <1>1, <1>2 DEF QueueInv
  <2>2. \A q \in Requests : /\ Request(r) = Request(q) => r = q
                            /\ Request(r) # Reaper(q)
    BY WaiterTypes
  <2>3. \A q \in Requests :
           /\ pc[q] = "locking" => /\ pc'[q] = "locking"
                                   /\ arrivedAt'[q] = arrivedAt[q]
           /\ Request(r) = Request(q) => pc'[q] = "locking"
    BY <1>1, <1>2, <2>2 DEF TypeOK
  <2>4. queue' = Append(queue, Request(r)) /\ Request(r) \in Waiters
    BY WaiterTypes DEF Call
  <2>5. QED
    BY <1>1, <1>2, <2>1, <2>2, <2>3, <2>4, QueueGrows
<1>4. TypeOK'
  BY <1>1, <1>2, <1>3 DEF TypeOK
<1>5. MutexInv' /\ GuardInv' /\ MapInv'
  BY <1>1, <1>2, ConstantsAssumption
  DEF TypeOK, MutexInv, GuardInv, MapInv, Entry
<1>6. TimeInv'
  <2>1. /\ \A q \in Requests : arrivedAt'[q] <= now'
        /\ \A e \in Requests : reaper'[e] = "sleeping" => now' <= Deadline(e)'
    BY <1>1, <1>2 DEF TypeOK, TimeInv, Deadline
  <2>2. ASSUME NEW q \in Requests, pc'[q] = "reading", Cached(q)'
        PROVE  arrivedAt'[q] <= Deadline(Entry(q))'
    <3>1. q # r /\ pc[q] = "reading" /\ Cached(q)
      BY <1>1, <1>2, <2>2 DEF TypeOK, Cached, Entry
    <3>2. QED
      BY <1>1, <1>2, <3>1 DEF TypeOK, TimeInv, Entry, Deadline
  <2>3. QED
    BY <2>1, <2>2 DEF TimeInv
<1>7. EntryHasReaper'
  BY <1>1, <1>2 DEF TypeOK, EntryHasReaper, GuardInv, MapInv
<1>8. HitsAreFresh'
  BY <1>1, <1>2 DEF TypeOK, HitsAreFresh, GuardInv, Deadline
<1>9. QED
  BY <1>1, <1>3, <1>4, <1>5, <1>6, <1>7, <1>8 DEF IInv

\* A request that is answered from the cache in time changes nothing else.
LEMMA HitStep ==
    ASSUME IInv, NEW r \in Requests, pc[r] \in {"locking", "reading"}, Hit(r),
           arrivedAt[r] <= Deadline(Entry(r)), mutex \in {Nobody, r}, mutex' = Nobody,
           UNCHANGED <<now, key, arrivedAt, fetchedAt, reaper>>,
           queue' \in Seq(Waiters), QueueInv', OrderInv'
    PROVE  IInv'
<1> USE DEF PcLabels, GuardStates, ReaperStates
<1>1. /\ TypeOK /\ MutexInv /\ GuardInv /\ MapInv /\ TimeInv
      /\ EntryHasReaper /\ HitsAreFresh
  BY DEF IInv
<1>2. /\ key[r] \in Keys /\ Entry(r) \in Requests /\ Entry(r) # r
      /\ key[Entry(r)] = key[r]
      /\ guard[Entry(r)] = "value"
  BY <1>1 DEF TypeOK, Hit, Cached, Entry, GuardInv, MapInv
<1>3. /\ pc' = [pc EXCEPT ![r] = "done"]
      /\ answer' = [answer EXCEPT ![r] = Entry(r)]
      /\ UNCHANGED <<variants, guard>>
  BY DEF Hit
<1>4. \A q \in Requests : pc'[q] # "reading"
  BY <1>1, <1>3, ConstantsAssumption DEF TypeOK, MutexInv
<1>5. TypeOK'
  BY <1>1, <1>2, <1>3 DEF TypeOK
<1>6. MutexInv' /\ GuardInv' /\ MapInv'
  BY <1>1, <1>2, <1>3, <1>4, ConstantsAssumption
  DEF TypeOK, MutexInv, GuardInv, MapInv
<1>7. TimeInv'
  BY <1>1, <1>4 DEF TimeInv, Deadline
<1>8. EntryHasReaper'
  BY <1>1, <1>3 DEF TypeOK, EntryHasReaper, GuardInv, MapInv
<1>9. HitsAreFresh'
  BY <1>1, <1>2, <1>3 DEF TypeOK, HitsAreFresh, Deadline
<1>10. QED
  BY <1>5, <1>6, <1>7, <1>8, <1>9 DEF IInv

\* A request that finds no value stores its own guard, locked for writing.
LEMMA MissStep ==
    ASSUME IInv, NEW r \in Requests, pc[r] \in {"locking", "reading"}, Miss(r),
           mutex \in {Nobody, r}, mutex' = Nobody,
           UNCHANGED <<now, key, arrivedAt, fetchedAt, reaper>>,
           queue' \in Seq(Waiters), QueueInv', OrderInv'
    PROVE  IInv'
<1> USE DEF PcLabels, GuardStates, ReaperStates
<1>1. /\ TypeOK /\ MutexInv /\ GuardInv /\ MapInv /\ TimeInv
      /\ EntryHasReaper /\ HitsAreFresh
  BY DEF IInv
<1>2. key[r] \in Keys /\ guard[r] = "none" /\ reaper[r] = "none"
  BY <1>1 DEF TypeOK, GuardInv
<1>3. /\ pc' = [pc EXCEPT ![r] = "fetching"]
      /\ guard' = [guard EXCEPT ![r] = "write"]
      /\ variants' = [variants EXCEPT ![key[r]] = r]
      /\ UNCHANGED answer
  BY DEF Miss
<1>4. \A q \in Requests : pc'[q] # "reading"
  BY <1>1, <1>3, ConstantsAssumption DEF TypeOK, MutexInv
<1>5. TypeOK'
  BY <1>1, <1>2, <1>3 DEF TypeOK
<1>6. MutexInv' /\ GuardInv'
  BY <1>1, <1>2, <1>3, <1>4, ConstantsAssumption DEF TypeOK, MutexInv, GuardInv
<1>7. MapInv'
  BY <1>1, <1>2, <1>3 DEF TypeOK, MapInv
<1>8. TimeInv'
  BY <1>1, <1>4 DEF TimeInv, Deadline
<1>9. EntryHasReaper'
  BY <1>1, <1>2, <1>3, ConstantsAssumption DEF TypeOK, EntryHasReaper, GuardInv, MapInv
<1>10. HitsAreFresh'
  BY <1>1, <1>2, <1>3 DEF TypeOK, HitsAreFresh, Deadline
<1>11. QED
  BY <1>5, <1>6, <1>7, <1>8, <1>9, <1>10 DEF IInv

\* The request at the head of the queue leaves it.
LEMMA HeadLeaves ==
    ASSUME TypeOK, QueueInv, OrderInv, queue # << >>, queue' = Tail(queue),
           \A r \in Requests :
              /\ pc[r] = "locking" => pc'[r] = "locking" \/ Head(queue) = Request(r)
              /\ reaper[r] = "locking" => reaper'[r] = "locking" \/ Head(queue) = Reaper(r)
              /\ reaper'[r] = "locking" =>
                    reaper[r] = "locking" /\ Head(queue) # Reaper(r),
           UNCHANGED <<arrivedAt, fetchedAt>>
    PROVE  queue' \in Seq(Waiters) /\ QueueInv' /\ OrderInv'
<1>1. /\ Len(queue) \in Nat /\ 1 \in 1..Len(queue) /\ Head(queue) = queue[1]
      /\ queue' \in Seq(Waiters)
      /\ Len(queue') = Len(queue) - 1
      /\ \A j \in 1..Len(queue') : queue'[j] = queue[j + 1]
  BY LenProperties, EmptySeq, HeadTailProperties DEF TypeOK
<1>2. \A j \in 1..Len(queue) - 1 :
         queue'[j] = IF j < 1 THEN queue[j] ELSE queue[j + 1]
  BY <1>1
<1>3. QED
  BY <1>1, <1>2, QueueShrinks

\* The head of the queue takes the Mutex and hits, misses or awaits a guard.
LEMMA LookUpStep ==
    ASSUME IInv, NEW r \in Requests, LookUp(r)
    PROVE  IInv'
<1> USE DEF PcLabels, GuardStates, ReaperStates
<1>1. /\ TypeOK /\ QueueInv /\ MutexInv /\ GuardInv /\ MapInv /\ TimeInv
      /\ OrderInv /\ EntryHasReaper /\ HitsAreFresh
  BY DEF IInv
<1>2. /\ mutex = Nobody /\ queue # << >> /\ Head(queue) = Request(r)
      /\ queue' = Tail(queue)
      /\ UNCHANGED <<now, key, arrivedAt, fetchedAt, reaper>>
  BY DEF LookUp, Turn
<1>3. Len(queue) \in Nat /\ 1 \in 1..Len(queue) /\ queue[1] = Request(r)
  BY <1>1, <1>2, LenProperties, EmptySeq, HeadTailProperties DEF TypeOK
<1>4. pc[r] = "locking"
  BY <1>1, <1>3 DEF QueueInv
<1>5. \A q \in Requests : Request(r) # Reaper(q)
  BY WaiterTypes
<1>6. \A q \in Requests : q # r => pc'[q] = pc[q]
  BY <1>1 DEF LookUp, Hit, Miss, AwaitGuard, TypeOK
<1>7. queue' \in Seq(Waiters) /\ QueueInv' /\ OrderInv'
  BY <1>1, <1>2, <1>5, <1>6, HeadLeaves
<1>8. CASE Hit(r) /\ UNCHANGED mutex
  <2>1. /\ key[r] \in Keys /\ Entry(r) \in Requests
        /\ reaper[Entry(r)] \in {"sleeping", "locking"}
    <3>1. key[r] \in Keys
      BY <1>1, <1>4 DEF GuardInv
    <3>2. Entry(r) # Nobody /\ guard[Entry(r)] = "value" /\ Entry(r) = variants[key[r]]
      BY <1>8 DEF Hit, Cached, Entry
    <3>3. Entry(r) \in Requests
      BY <1>1, <3>1, <3>2 DEF TypeOK
    <3>4. QED
      BY <1>1, <3>1, <3>2, <3>3 DEF EntryHasReaper
  <2>2. CASE reaper[Entry(r)] = "sleeping"
    <3>1. arrivedAt[r] <= now /\ now <= Deadline(Entry(r))
      BY <1>1, <2>1, <2>2 DEF TimeInv
    <3>2. arrivedAt[r] \in Nat /\ now \in Nat /\ Deadline(Entry(r)) \in Nat
      BY <1>1, <2>1, ConstantsAssumption DEF TypeOK, Deadline
    <3>3. arrivedAt[r] <= Deadline(Entry(r))
      BY <3>1, <3>2
    <3>4. QED
      BY <1>2, <1>4, <1>7, <1>8, <3>3, HitStep
  <2>3. CASE reaper[Entry(r)] = "locking"
    <3>1. PICK j \in 1..Len(queue) : queue[j] = Reaper(Entry(r))
      BY <1>1, <2>1, <2>3 DEF QueueInv
    <3>2. 1 < j
      BY <1>3, <1>5, <2>1, <3>1
    <3>3. arrivedAt[r] <= Deadline(Entry(r))
      BY <1>1, <1>3, <2>1, <3>1, <3>2 DEF OrderInv
    <3>4. QED
      BY <1>2, <1>4, <1>7, <1>8, <3>3, HitStep
  <2>4. QED
    BY <2>1, <2>2, <2>3
<1>9. CASE Miss(r) /\ UNCHANGED mutex
  BY <1>2, <1>4, <1>7, <1>9, MissStep
<1>10. CASE AwaitGuard(r)
  <2>1. /\ Entry(r) # Nobody /\ guard[Entry(r)] = "write"
        /\ pc' = [pc EXCEPT ![r] = "reading"]
        /\ mutex' = r
        /\ UNCHANGED <<variants, guard, answer>>
    BY <1>10 DEF AwaitGuard, InFlight
  <2>2. \A q \in Requests : pc[q] # "reading"
    BY <1>1, <1>2, ConstantsAssumption DEF TypeOK, MutexInv
  <2>3. TypeOK'
    BY <1>1, <1>2, <1>7, <2>1 DEF TypeOK
  <2>4. \A q \in Requests : pc'[q] = "reading" => q = r
    BY <1>1, <2>1, <2>2 DEF TypeOK
  <2>5. MutexInv'
    <3>1. variants'[key'[r]] = variants[key[r]] /\ variants[key[r]] # Nobody
      BY <1>2, <2>1 DEF Entry
    <3>2. pc'[r] = "reading"
      BY <1>1, <2>1 DEF TypeOK
    <3>3. QED
      BY <2>1, <2>4, <3>1, <3>2 DEF MutexInv, Entry
  <2>6. GuardInv' /\ MapInv'
    BY <1>1, <1>2, <1>4, <2>1 DEF TypeOK, GuardInv, MapInv
  <2>7. TimeInv'
    <3>1. \A q \in Requests : pc'[q] = "reading" => ~Cached(q)'
      BY <1>2, <2>1, <2>4 DEF Cached, Entry
    <3>2. QED
      BY <1>1, <1>2, <3>1 DEF TimeInv, Deadline
  <2>8. EntryHasReaper' /\ HitsAreFresh'
    BY <1>1, <1>2, <1>4, <2>1
    DEF TypeOK, EntryHasReaper, HitsAreFresh, Deadline, GuardInv
  <2>9. QED
    BY <1>7, <2>3, <2>5, <2>6, <2>7, <2>8 DEF IInv
<1>11. QED
  BY <1>8, <1>9, <1>10 DEF LookUp

\* The holder of the Mutex resumes once the guard it read is unlocked.
LEMMA GuardReleasedStep ==
    ASSUME IInv, NEW r \in Requests, GuardReleased(r)
    PROVE  IInv'
<1>1. /\ TypeOK /\ QueueInv /\ MutexInv /\ GuardInv /\ MapInv /\ TimeInv
      /\ OrderInv /\ EntryHasReaper /\ HitsAreFresh
  BY DEF IInv
<1>2. /\ pc[r] = "reading" /\ mutex = r /\ mutex' = Nobody
      /\ UNCHANGED <<now, key, arrivedAt, queue, fetchedAt, reaper>>
  BY DEF GuardReleased
<1>3. \A q \in Requests : q # r => pc'[q] = pc[q]
  BY <1>1 DEF GuardReleased, Hit, Miss, TypeOK
<1>4. queue' \in Seq(Waiters) /\ QueueInv' /\ OrderInv'
  <2>1. queue' \in Seq(Waiters) /\ OrderInv'
    BY <1>1, <1>2 DEF TypeOK, OrderInv, Deadline, Request, Reaper
  <2>2. \A q \in Requests : pc[q] = "locking" => pc'[q] = "locking"
    BY <1>2, <1>3
  <2>3. QED
    BY <1>1, <1>2, <2>1, <2>2 DEF QueueInv, Request, Reaper
<1>5. CASE Hit(r)
  <2>1. arrivedAt[r] <= Deadline(Entry(r))
    BY <1>1, <1>2, <1>5 DEF TimeInv, Hit
  <2>2. QED
    BY <1>2, <1>4, <1>5, <2>1, HitStep
<1>6. CASE Miss(r)
  BY <1>2, <1>4, <1>6, MissStep
<1>7. QED
  BY <1>5, <1>6 DEF GuardReleased

\* A fetch that ends sets its deadline anew, and only its own.
LEMMA FetchDoneStep ==
    ASSUME IInv, NEW r \in Requests, FetchDone(r)
    PROVE  IInv'
<1> USE DEF PcLabels, GuardStates, ReaperStates
<1>1. /\ TypeOK /\ QueueInv /\ MutexInv /\ GuardInv /\ MapInv /\ TimeInv
      /\ OrderInv /\ EntryHasReaper /\ HitsAreFresh
  BY DEF IInv
<1>2. PICK content \in {"value", "empty"} : guard' = [guard EXCEPT ![r] = content]
  BY DEF FetchDone
<1>3. /\ pc[r] = "fetching"
      /\ reaper' = [reaper EXCEPT ![r] = "sleeping"]
      /\ fetchedAt' = [fetchedAt EXCEPT ![r] = now]
      /\ pc' = [pc EXCEPT ![r] = "done"]
      /\ answer' = [answer EXCEPT ![r] = r]
      /\ UNCHANGED <<now, key, arrivedAt, queue, mutex, variants>>
  BY DEF FetchDone
<1>4. /\ guard[r] = "write" /\ reaper[r] = "none" /\ Deadline(r)' = now + Staleness + MaxLag
      /\ \A e \in Requests : e # r => Deadline(e)' = Deadline(e)
  BY <1>1, <1>3 DEF TypeOK, GuardInv, Deadline
<1>5. TypeOK'
  BY <1>1, <1>2, <1>3 DEF TypeOK
<1>6. QueueInv'
  BY <1>1, <1>3, <1>4 DEF TypeOK, QueueInv, Request, Reaper
<1>7. OrderInv'
  <2>1. SUFFICES ASSUME NEW q \in Requests, NEW e \in Requests,
                        NEW i \in 1..Len(queue), NEW j \in 1..Len(queue),
                        i < j, queue[i] = Request(q), queue[j] = Reaper(e)
                 PROVE  arrivedAt[q] <= Deadline(e)'
    BY <1>3 DEF OrderInv, Request, Reaper
  <2>2. reaper[e] = "locking" /\ arrivedAt[q] <= Deadline(e)
    BY <1>1, <2>1 DEF QueueInv, OrderInv
  <2>3. QED
    BY <1>4, <2>2
<1>8. MutexInv' /\ GuardInv' /\ MapInv'
  BY <1>1, <1>2, <1>3, ConstantsAssumption
  DEF TypeOK, MutexInv, GuardInv, MapInv, Entry
<1>9. TimeInv'
  <2>1. \A q \in Requests : arrivedAt'[q] <= now'
    BY <1>1, <1>3 DEF TimeInv
  <2>2. \A e \in Requests : reaper'[e] = "sleeping" => now' <= Deadline(e)'
    BY <1>1, <1>3, <1>4, ConstantsAssumption DEF TypeOK, TimeInv
  <2>3. ASSUME NEW q \in Requests, pc'[q] = "reading", Cached(q)'
        PROVE  arrivedAt'[q] <= Deadline(Entry(q))'
    <3>1. pc[q] = "reading" /\ key[q] \in Keys /\ Entry(q)' = Entry(q) /\ Entry(q) \in Requests
      BY <1>1, <1>3, <2>3 DEF TypeOK, GuardInv, Entry, Cached
    <3>2. CASE Entry(q) = r
      BY <1>1, <1>3, <1>4, <3>1, <3>2, ConstantsAssumption DEF TypeOK, TimeInv, Deadline, Entry
    <3>3. CASE Entry(q) # r
      <4>1. Cached(q)
        BY <1>1, <1>2, <1>3, <2>3, <3>1, <3>3 DEF TypeOK, Cached, Entry
      <4>2. QED
        BY <1>1, <1>3, <1>4, <3>1, <3>3, <4>1 DEF TimeInv, Deadline, Entry
    <3>4. QED
      BY <3>2, <3>3
  <2>4. QED
    BY <2>1, <2>2, <2>3 DEF TimeInv
<1>10. EntryHasReaper'
  BY <1>1, <1>2, <1>3 DEF TypeOK, EntryHasReaper, GuardInv
<1>11. HitsAreFresh'
  BY <1>1, <1>2, <1>3, <1>4 DEF TypeOK, HitsAreFresh, Deadline, GuardInv
<1>12. QED
  BY <1>5, <1>6, <1>7, <1>8, <1>9, <1>10, <1>11 DEF IInv

\* The destructors of a dropped future leave an empty guard in the map.
LEMMA CancelStep ==
    ASSUME IInv, NEW r \in Requests, Cancel(r)
    PROVE  IInv'
<1> USE DEF PcLabels, GuardStates, ReaperStates
<1>1. /\ TypeOK /\ QueueInv /\ MutexInv /\ GuardInv /\ MapInv /\ TimeInv
      /\ OrderInv /\ EntryHasReaper /\ HitsAreFresh
  BY DEF IInv
<1>2. /\ pc' = [pc EXCEPT ![r] = "cancelled"]
      /\ UNCHANGED <<now, key, arrivedAt, variants, fetchedAt, reaper, answer>>
  BY DEF Cancel
<1>3. \/ pc[r] = "locking" /\ UNCHANGED <<mutex, guard>>
      \/ pc[r] = "reading" /\ mutex' = Nobody /\ UNCHANGED <<queue, guard>>
      \/ /\ pc[r] = "fetching" /\ guard' = [guard EXCEPT ![r] = "empty"]
         /\ UNCHANGED <<queue, mutex>>
  BY DEF Cancel
<1>4. queue' \in Seq(Waiters) /\ QueueInv' /\ OrderInv'
  <2>1. CASE UNCHANGED queue /\ pc[r] # "locking"
    <3>1. queue' \in Seq(Waiters) /\ OrderInv'
      BY <1>1, <1>2, <2>1 DEF TypeOK, OrderInv, Deadline, Request, Reaper
    <3>2. \A q \in Requests : pc[q] = "locking" => pc'[q] = "locking"
      BY <1>1, <1>2, <2>1 DEF TypeOK
    <3>3. QED
      BY <1>1, <1>2, <2>1, <3>1, <3>2 DEF QueueInv, Request, Reaper
  <2>2. CASE pc[r] = "locking"
    <3>1. PICK n \in 1..Len(queue) : queue[n] = Request(r) /\ queue' = RemoveAt(queue, n)
      BY <2>2 DEF Cancel
    <3>2. /\ queue' \in Seq(Waiters)
          /\ Len(queue') = Len(queue) - 1
          /\ \A j \in 1..Len(queue) - 1 :
                queue'[j] = IF j < n THEN queue[j] ELSE queue[j + 1]
      BY <1>1, <3>1, RemoveAtElements DEF TypeOK
    <3>3. \A q \in Requests :
             /\ pc[q] = "locking" => pc'[q] = "locking" \/ queue[n] = Request(q)
             /\ queue[n] # Reaper(q)
      BY <1>1, <1>2, <3>1, WaiterTypes DEF TypeOK
    <3>4. QED
      BY <1>1, <1>2, <3>2, <3>3, QueueShrinks
  <2>3. QED
    BY <1>3, <2>1, <2>2
<1>5. TypeOK'
  BY <1>1, <1>2, <1>3, <1>4 DEF TypeOK
<1>6. MutexInv'
  BY <1>1, <1>2, <1>3, ConstantsAssumption DEF TypeOK, MutexInv, Entry
<1>7. GuardInv' /\ MapInv'
  BY <1>1, <1>2, <1>3 DEF TypeOK, GuardInv, MapInv
<1>8. TimeInv'
  <2>1. ASSUME NEW q \in Requests, pc'[q] = "reading", Cached(q)'
        PROVE  arrivedAt'[q] <= Deadline(Entry(q))'
    <3>1. /\ pc[q] = "reading" /\ Entry(q)' = Entry(q)
          /\ key[q] \in Keys /\ Entry(q) \in Requests
      BY <1>1, <1>2, <2>1 DEF TypeOK, GuardInv, Entry, Cached
    <3>2. Cached(q)
      BY <1>1, <1>2, <1>3, <2>1, <3>1 DEF TypeOK, Cached
    <3>3. QED
      BY <1>1, <1>2, <3>1, <3>2 DEF TimeInv, Deadline
  <2>2. QED
    BY <1>1, <1>2, <2>1 DEF TimeInv, Deadline
<1>9. EntryHasReaper'
  BY <1>1, <1>2, <1>3 DEF TypeOK, EntryHasReaper, GuardInv
<1>10. HitsAreFresh'
  BY <1>1, <1>2, <1>3 DEF TypeOK, HitsAreFresh, Deadline, GuardInv
<1>11. QED
  BY <1>4, <1>5, <1>6, <1>7, <1>8, <1>9, <1>10 DEF IInv

\* A reaper that leaves its sleep is behind all requests that came in before.
LEMMA ReaperWakeStep ==
    ASSUME IInv, NEW e \in Requests, ReaperWake(e)
    PROVE  IInv'
<1> USE DEF PcLabels, GuardStates, ReaperStates
<1>1. /\ TypeOK /\ QueueInv /\ MutexInv /\ GuardInv /\ MapInv /\ TimeInv
      /\ OrderInv /\ EntryHasReaper /\ HitsAreFresh
  BY DEF IInv
<1>2. /\ reaper[e] = "sleeping"
      /\ reaper' = [reaper EXCEPT ![e] = "locking"]
      /\ UNCHANGED <<now, pc, key, arrivedAt, mutex, variants, guard, fetchedAt, answer>>
  BY DEF ReaperWake
<1>3. queue' \in Seq(Waiters) /\ QueueInv' /\ OrderInv'
  <2>1. \A i \in 1..Len(queue) : queue[i] # Reaper(e)
    BY <1>1, <1>2 DEF QueueInv
  <2>2. \A q \in Requests : /\ Reaper(e) = Reaper(q) => e = q
                            /\ Reaper(e) # Request(q)
    BY WaiterTypes
  <2>3. \A q \in Requests :
           /\ reaper[q] = "locking" => reaper'[q] = "locking"
           /\ reaper'[q] = "locking" => reaper[q] = "locking" \/ Reaper(e) = Reaper(q)
           /\ Reaper(e) = Reaper(q) => reaper'[q] = "locking"
    BY <1>1, <1>2, <2>2 DEF TypeOK
  <2>4. \A r, q \in Requests : Reaper(e) = Reaper(q) => arrivedAt'[r] <= Deadline(q)
    <3>1. now <= Deadline(e) /\ \A r \in Requests : arrivedAt[r] <= now
      BY <1>1, <1>2 DEF TimeInv
    <3>2. now \in Nat /\ Deadline(e) \in Nat /\ \A r \in Requests : arrivedAt'[r] \in Nat
      BY <1>1, <1>2, ConstantsAssumption DEF TypeOK, Deadline
    <3>3. \A r \in Requests : arrivedAt'[r] <= Deadline(e)
      BY <1>2, <3>1, <3>2
    <3>4. QED
      BY <2>2, <3>3
  <2>5. queue' = Append(queue, Reaper(e)) /\ Reaper(e) \in Waiters
    BY WaiterTypes DEF ReaperWake
  <2>6. \A q \in Requests :
           /\ pc[q] = "locking" => pc'[q] = "locking" /\ arrivedAt'[q] = arrivedAt[q]
           /\ Reaper(e) = Request(q) => pc'[q] = "locking"
    BY <1>2, <2>2
  <2>7. QED
    BY <1>1, <1>2, <2>1, <2>3, <2>4, <2>5, <2>6, QueueGrows
<1>4. TypeOK'
  BY <1>1, <1>2, <1>3 DEF TypeOK
<1>5. MutexInv' /\ GuardInv' /\ MapInv'
  BY <1>1, <1>2 DEF TypeOK, MutexInv, GuardInv, MapInv, Entry
<1>6. TimeInv'
  BY <1>1, <1>2 DEF TypeOK, TimeInv, Cached, Entry, Deadline
<1>7. EntryHasReaper' /\ HitsAreFresh'
  BY <1>1, <1>2 DEF TypeOK, EntryHasReaper, HitsAreFresh, Deadline
<1>8. QED
  BY <1>1, <1>3, <1>4, <1>5, <1>6, <1>7 DEF IInv

\* Nobody holds the Mutex, so no request waits for the entry that is removed.
LEMMA ReaperRunStep ==
    ASSUME IInv, NEW e \in Requests, ReaperRun(e)
    PROVE  IInv'
<1> USE DEF PcLabels, GuardStates, ReaperStates
<1>1. /\ TypeOK /\ QueueInv /\ MutexInv /\ GuardInv /\ MapInv /\ TimeInv
      /\ OrderInv /\ EntryHasReaper /\ HitsAreFresh
  BY DEF IInv
<1>2. /\ mutex = Nobody /\ queue # << >> /\ Head(queue) = Reaper(e)
      /\ queue' = Tail(queue)
      /\ variants' = [variants EXCEPT ![key[e]] = Nobody]
      /\ reaper' = [reaper EXCEPT ![e] = "done"]
      /\ UNCHANGED <<now, pc, key, arrivedAt, mutex, guard, fetchedAt, answer>>
  BY DEF ReaperRun, Turn
<1>3. Len(queue) \in Nat /\ 1 \in 1..Len(queue) /\ queue[1] = Reaper(e)
  BY <1>1, <1>2, LenProperties, EmptySeq, HeadTailProperties DEF TypeOK
<1>4. reaper[e] = "locking" /\ key[e] \in Keys
  BY <1>1, <1>3 DEF QueueInv, GuardInv
<1>5. \A q \in Requests : /\ Reaper(e) = Reaper(q) => e = q
                          /\ Reaper(e) # Request(q)
  BY WaiterTypes
<1>6. queue' \in Seq(Waiters) /\ QueueInv' /\ OrderInv'
  <2>1. \A q \in Requests :
           /\ pc[q] = "locking" => pc'[q] = "locking" \/ Head(queue) = Request(q)
           /\ reaper[q] = "locking" => reaper'[q] = "locking" \/ Head(queue) = Reaper(q)
           /\ reaper'[q] = "locking" => reaper[q] = "locking" /\ Head(queue) # Reaper(q)
    BY <1>1, <1>2, <1>5 DEF TypeOK
  <2>2. QED
    BY <1>1, <1>2, <2>1, HeadLeaves
<1>7. TypeOK'
  BY <1>1, <1>2, <1>6 DEF TypeOK
<1>8. \A q \in Requests : pc[q] # "reading"
  BY <1>1, <1>2, ConstantsAssumption DEF TypeOK, MutexInv
<1>9. MutexInv' /\ GuardInv'
  BY <1>1, <1>2, <1>4, <1>8 DEF TypeOK, MutexInv, GuardInv
<1>10. MapInv'
  BY <1>1, <1>2, <1>4 DEF TypeOK, MapInv
<1>11. TimeInv'
  BY <1>1, <1>2, <1>8 DEF TypeOK, TimeInv, Deadline
<1>12. EntryHasReaper'
  BY <1>1, <1>2, <1>4 DEF TypeOK, EntryHasReaper, MapInv
<1>13. HitsAreFresh'
  BY <1>1, <1>2 DEF HitsAreFresh, Deadline
<1>14. QED
  BY <1>6, <1>7, <1>9, <1>10, <1>11, <1>12, <1>13 DEF IInv

\* The clock does not pass the deadline of a sleeping reaper.
LEMMA TickStep ==
    ASSUME IInv, Tick
    PROVE  IInv'
<1>1. /\ TypeOK /\ QueueInv /\ MutexInv /\ GuardInv /\ MapInv /\ TimeInv
      /\ OrderInv /\ EntryHasReaper /\ HitsAreFresh
  BY DEF IInv
<1>2. /\ now' = now + 1
      /\ \A e \in Requests : reaper[e] = "sleeping" => now < Deadline(e)
      /\ UNCHANGED <<pc, key, arrivedAt, queue, mutex, variants, guard, fetchedAt,
                     reaper, answer>>
  BY DEF Tick
<1>3. TypeOK'
  BY <1>1, <1>2 DEF TypeOK
<1>4. QueueInv' /\ MutexInv' /\ GuardInv' /\ MapInv'
  BY <1>1, <1>2 DEF QueueInv, MutexInv, GuardInv, MapInv, Entry, Request, Reaper
<1>5. TimeInv'
  <2>1. \A e \in Requests : Deadline(e)' = Deadline(e) /\ Deadline(e) \in Nat
    BY <1>1, <1>2, ConstantsAssumption DEF TypeOK, Deadline
  <2>2. \A r \in Requests : arrivedAt'[r] <= now'
    BY <1>1, <1>2 DEF TypeOK, TimeInv
  <2>3. \A e \in Requests : reaper'[e] = "sleeping" => now' <= Deadline(e)'
    BY <1>1, <1>2, <2>1 DEF TypeOK
  <2>4. \A r \in Requests : (pc'[r] = "reading" /\ Cached(r)') =>
                                arrivedAt'[r] <= Deadline(Entry(r))'
    BY <1>1, <1>2 DEF TimeInv, Cached, Entry, Deadline
  <2>5. QED
    BY <2>2, <2>3, <2>4 DEF TimeInv
<1>6. OrderInv' /\ EntryHasReaper' /\ HitsAreFresh'
  BY <1>1, <1>2 DEF OrderInv, EntryHasReaper, HitsAreFresh, Deadline, Request, Reaper
<1>7. QED
  BY <1>3, <1>4, <1>5, <1>6 DEF IInv

-----------------------------------------------------------------------------
\* The empty cache satisfies the invariant.
LEMMA InitIInv == Init => IInv
<1>1. SUFFICES ASSUME Init PROVE IInv
  OBVIOUS
<1>2. TypeOK
  BY <1>1, EmptySeq DEF Init, TypeOK, PcLabels, GuardStates, ReaperStates
<1>3. queue = << >> /\ Len(queue) = 0
  BY <1>1, EmptySeq DEF Init
<1>4. QueueInv /\ OrderInv
  BY <1>1, <1>3 DEF Init, QueueInv, OrderInv
<1>5. MutexInv /\ GuardInv /\ MapInv /\ TimeInv
  BY <1>1 DEF Init, MutexInv, GuardInv, MapInv, TimeInv, Entry
<1>6. EntryHasReaper /\ HitsAreFresh
  BY <1>1 DEF Init, EntryHasReaper, HitsAreFresh
<1>7. QED
  BY <1>2, <1>4, <1>5, <1>6 DEF IInv

\* The invariant is about the variables only.
LEMMA StutterStep ==
    ASSUME IInv, UNCHANGED vars
    PROVE  IInv'
  BY DEF vars, IInv, TypeOK, QueueInv, MutexInv, GuardInv, MapInv, TimeInv, OrderInv,
         EntryHasReaper, HitsAreFresh, Cached, Entry, Deadline, Request, Reaper

\* Every step of the cache preserves the invariant.
LEMMA NextIInv == IInv /\ [Next]_vars => IInv'
<1>1. SUFFICES ASSUME IInv, [Next]_vars PROVE IInv'
  OBVIOUS
<1>2. CASE \E r \in Requests, k \in Keys : Call(r, k)
  BY <1>1, <1>2, CallStep
<1>3. CASE \E r \in Requests : LookUp(r)
  BY <1>1, <1>3, LookUpStep
<1>4. CASE \E r \in Requests : GuardReleased(r)
  BY <1>1, <1>4, GuardReleasedStep
<1>5. CASE \E r \in Requests : FetchDone(r)
  BY <1>1, <1>5, FetchDoneStep
<1>6. CASE \E r \in Requests : Cancel(r)
  BY <1>1, <1>6, CancelStep
<1>7. CASE \E e \in Requests : ReaperWake(e)
  BY <1>1, <1>7, ReaperWakeStep
<1>8. CASE \E e \in Requests : ReaperRun(e)
  BY <1>1, <1>8, ReaperRunStep
<1>9. CASE Tick
  BY <1>1, <1>9, TickStep
<1>10. CASE AtRest \/ UNCHANGED vars
  BY <1>1, <1>10, StutterStep DEF AtRest
<1>11. QED
  BY <1>1, <1>2, <1>3, <1>4, <1>5, <1>6, <1>7, <1>8, <1>9, <1>10 DEF Next

\* IInv is an invariant of the cache.
THEOREM Invariance == Spec => []IInv
  BY InitIInv, NextIInv, PTL DEF Spec

\* Every variable keeps its type, whatever the number of requests and keys.
THEOREM TypeCorrect == Spec => []TypeOK
<1>1. IInv => TypeOK
  BY DEF IInv
<1>2. QED
  BY <1>1, Invariance, PTL

\* Every value in the map has its removal pending: no cached page can stay for
\* ever, and only a dropped fetch leaves an entry without a removal task.
THEOREM EntriesAreReaped == Spec => []EntryHasReaper
<1>1. IInv => EntryHasReaper
  BY DEF IInv
<1>2. QED
  BY <1>1, Invariance, PTL

\* A cached response is one for the caller's own key that had not outlived
\* cache_duration, plus the timers' lag, when the caller came in.
THEOREM CacheHitsAreFresh == Spec => []HitsAreFresh
<1>1. IInv => HitsAreFresh
  BY DEF IInv
<1>2. QED
  BY <1>1, Invariance, PTL

-----------------------------------------------------------------------------
(***************************************************************************)
(* As long as every fetch is worth caching.                                *)
(***************************************************************************)

\* A value has, or has had, its removal task, which is not through before its
\* deadline; and while all fetches of a key are cacheable, a fetch in flight, or
\* one whose removal is pending, owns the entry of its key.
ReapInv ==
    \A e \in Requests :
        /\ guard[e] = "value" => reaper[e] # "none"
        /\ reaper[e] \in {"locking", "done"} => now >= fetchedAt[e] + Staleness

Owns(e)  == pc[e] = "fetching" \/ reaper[e] \in {"sleeping", "locking"}
OwnerInv ==
    \A e \in Requests :
        (Owns(e) /\ key[e] \in CacheableKeys) => variants[key[e]] = e

\* What a request has ended with is not touched by any later step.
LEMMA DoneStays ==
    ASSUME IInv, [Next]_vars, NEW e \in Requests, pc[e] = "done"
    PROVE  pc'[e] = "done" /\ key'[e] = key[e] /\ guard'[e] = guard[e]
<1> USE DEF PcLabels, GuardStates, ReaperStates
<1>1. TypeOK /\ QueueInv
  BY DEF IInv
<1>2. ASSUME NEW r \in Requests, NEW k \in Keys, Call(r, k)
      PROVE  pc'[e] = "done" /\ key'[e] = key[e] /\ guard'[e] = guard[e]
  BY <1>1, <1>2 DEF TypeOK, Call
<1>3. ASSUME NEW r \in Requests, pc[r] # "done", UNCHANGED key,
             Hit(r) \/ Miss(r) \/ AwaitGuard(r)
      PROVE  pc'[e] = "done" /\ key'[e] = key[e] /\ guard'[e] = guard[e]
  BY <1>1, <1>3 DEF TypeOK, Hit, Miss, AwaitGuard
<1>4. ASSUME NEW r \in Requests, LookUp(r)
      PROVE  pc'[e] = "done" /\ key'[e] = key[e] /\ guard'[e] = guard[e]
  <2>1. 1 \in 1..Len(queue) /\ queue[1] = Request(r)
    BY <1>1, <1>4, LenProperties, EmptySeq, HeadTailProperties DEF LookUp, Turn, TypeOK
  <2>2. pc[r] = "locking"
    BY <1>1, <2>1 DEF QueueInv
  <2>3. QED
    BY <1>3, <1>4, <2>2 DEF LookUp
<1>5. ASSUME NEW r \in Requests, GuardReleased(r)
      PROVE  pc'[e] = "done" /\ key'[e] = key[e] /\ guard'[e] = guard[e]
  BY <1>3, <1>5 DEF GuardReleased
<1>6. ASSUME NEW r \in Requests, FetchDone(r)
      PROVE  pc'[e] = "done" /\ key'[e] = key[e] /\ guard'[e] = guard[e]
  <2>1. PICK cacheIt \in Outcomes :
           guard' = [guard EXCEPT ![r] = IF cacheIt THEN "value" ELSE "empty"]
    BY <1>6 DEF FetchDone
  <2>2. QED
    BY <1>1, <1>6, <2>1 DEF TypeOK, FetchDone
<1>7. ASSUME NEW r \in Requests, Cancel(r)
      PROVE  pc'[e] = "done" /\ key'[e] = key[e] /\ guard'[e] = guard[e]
  BY <1>1, <1>7 DEF TypeOK, Cancel
<1>8. ASSUME NEW r \in Requests, ReaperWake(r) \/ ReaperRun(r)
      PROVE  pc'[e] = "done" /\ key'[e] = key[e] /\ guard'[e] = guard[e]
  BY <1>8 DEF ReaperWake, ReaperRun
<1>9. CASE Tick \/ AtRest \/ UNCHANGED vars
  BY <1>9 DEF Tick, AtRest, vars
<1>10. QED
  BY <1>2, <1>4, <1>5, <1>6, <1>7, <1>8, <1>9 DEF Next

\* A key that is not cacheable once is not cacheable again.
LEMMA CacheableKeysShrink ==
    ASSUME IInv, [Next]_vars
    PROVE  CacheableKeys' \subseteq CacheableKeys
BY DoneStays DEF CacheableKeys

\* Every step keeps the removal of a value to come until it is due.
LEMMA ReapStep ==
    ASSUME IInv, ReapInv, [Next]_vars
    PROVE  ReapInv'
<1> USE DEF PcLabels, GuardStates, ReaperStates
<1>1. TypeOK /\ QueueInv /\ GuardInv
  BY DEF IInv
<1>2. ASSUME NEW r \in Requests, NEW k \in Keys, Call(r, k)
      PROVE  ReapInv'
  BY <1>2 DEF ReapInv, Call
<1>3. ASSUME NEW r \in Requests, Hit(r) \/ Miss(r) \/ AwaitGuard(r),
             UNCHANGED <<now, fetchedAt, reaper>>
      PROVE  ReapInv'
  BY <1>1, <1>3 DEF TypeOK, ReapInv, Hit, Miss, AwaitGuard
<1>4. ASSUME NEW r \in Requests, LookUp(r) \/ GuardReleased(r)
      PROVE  ReapInv'
  BY <1>3, <1>4 DEF LookUp, GuardReleased
<1>5. ASSUME NEW r \in Requests, FetchDone(r)
      PROVE  ReapInv'
  <2>1. PICK cacheIt \in Outcomes :
           guard' = [guard EXCEPT ![r] = IF cacheIt THEN "value" ELSE "empty"]
    BY <1>5 DEF FetchDone
  <2>2. QED
    BY <1>1, <1>5, <2>1 DEF TypeOK, ReapInv, FetchDone
<1>6. ASSUME NEW r \in Requests, Cancel(r)
      PROVE  ReapInv'
  BY <1>1, <1>6 DEF TypeOK, ReapInv, Cancel
<1>7. ASSUME NEW e \in Requests, ReaperWake(e)
      PROVE  ReapInv'
  BY <1>1, <1>7 DEF TypeOK, ReapInv, ReaperWake
<1>8. ASSUME NEW e \in Requests, ReaperRun(e)
      PROVE  ReapInv'
  <2>1. 1 \in 1..Len(queue) /\ queue[1] = Reaper(e)
    BY <1>1, <1>8, LenProperties, EmptySeq, HeadTailProperties DEF ReaperRun, Turn, TypeOK
  <2>2. reaper[e] = "locking"
    BY <1>1, <2>1 DEF QueueInv
  <2>3. QED
    BY <1>1, <1>8, <2>2 DEF TypeOK, ReapInv, ReaperRun
<1>9. CASE Tick
  BY <1>1, <1>9, ConstantsAssumption DEF TypeOK, ReapInv, Tick
<1>10. CASE AtRest \/ UNCHANGED vars
  BY <1>10 DEF AtRest, vars, ReapInv
<1>11. QED
  BY <1>2, <1>4, <1>5, <1>6, <1>7, <1>8, <1>9, <1>10 DEF Next

\* Every step leaves the entries with their owners, for the keys that are still
\* cacheable after it.
LEMMA OwnerStep ==
    ASSUME IInv, OwnerInv, [Next]_vars
    PROVE  OwnerInv'
<1> USE DEF PcLabels, GuardStates, ReaperStates
<1>1. TypeOK /\ QueueInv /\ GuardInv /\ MapInv
  BY DEF IInv
<1>2. SUFFICES ASSUME NEW e \in Requests, Owns(e)', (key[e] \in CacheableKeys)'
               PROVE  variants'[key'[e]] = e
  BY DEF OwnerInv
<1>3. key'[e] \in CacheableKeys /\ key'[e] \in Keys
  BY <1>2, CacheableKeysShrink DEF CacheableKeys
<1>4. ASSUME Owns(e), key'[e] = key[e]
      PROVE  variants[key[e]] = e /\ guard[e] # "none"
  BY <1>1, <1>3, <1>4 DEF OwnerInv, Owns, GuardInv
<1>5. CASE UNCHANGED <<pc, key, variants, reaper>>
  BY <1>2, <1>4, <1>5 DEF Owns
<1>6. ASSUME NEW r \in Requests, NEW k \in Keys, Call(r, k)
      PROVE  variants'[key'[e]] = e
  <2>1. e # r /\ Owns(e) /\ key'[e] = key[e]
    BY <1>1, <1>2, <1>6 DEF TypeOK, GuardInv, Owns, Call
  <2>2. QED
    BY <1>4, <1>6, <2>1 DEF Call
<1>7. ASSUME NEW r \in Requests, pc[r] \in {"locking", "reading"}, Hit(r) \/ Miss(r),
             UNCHANGED <<key, reaper>>
      PROVE  variants'[key'[e]] = e
  <2>1. reaper[r] = "none" /\ key[r] \in Keys
    BY <1>1, <1>7 DEF TypeOK, GuardInv
  <2>2. CASE Hit(r)
    BY <1>1, <1>2, <1>4, <1>7, <2>2 DEF TypeOK, Owns, Hit
  <2>3. CASE Miss(r) /\ e = r
    BY <1>1, <1>7, <2>1, <2>3 DEF TypeOK, Miss
  <2>4. CASE Miss(r) /\ e # r
    <3>1. Owns(e) /\ key'[e] = key[e]
      BY <1>1, <1>2, <1>7, <2>4 DEF TypeOK, Owns, Miss
    <3>2. variants[key[e]] = e /\ key[e] \in CacheableKeys
      BY <1>3, <1>4, <3>1
    <3>3. guard[e] \in {"write", "value"}
      <4>1. guard[e] \in {"write", "value", "empty"}
        BY <1>1, <1>4, <3>1 DEF TypeOK
      <4>2. pc[e] = "fetching" \/ pc[e] = "done"
        BY <1>1, <3>1 DEF Owns, GuardInv
      <4>3. QED
        BY <1>1, <3>2, <4>1, <4>2 DEF GuardInv, CacheableKeys
    <3>4. key[e] # key[r]
      BY <2>4, <3>2, <3>3, ConstantsAssumption DEF Miss, Cached, InFlight, Entry
    <3>5. QED
      BY <1>1, <1>3, <2>1, <2>4, <3>1, <3>2, <3>4 DEF TypeOK, Miss
  <2>5. QED
    BY <1>7, <2>2, <2>3, <2>4
<1>8. ASSUME NEW r \in Requests, LookUp(r)
      PROVE  variants'[key'[e]] = e
  <2>1. 1 \in 1..Len(queue) /\ queue[1] = Request(r)
    BY <1>1, <1>8, LenProperties, EmptySeq, HeadTailProperties DEF LookUp, Turn, TypeOK
  <2>2. pc[r] = "locking"
    BY <1>1, <2>1 DEF QueueInv
  <2>3. CASE AwaitGuard(r)
    BY <1>1, <1>2, <1>4, <1>8, <2>3 DEF TypeOK, Owns, LookUp, AwaitGuard
  <2>4. QED
    BY <1>7, <1>8, <2>2, <2>3 DEF LookUp
<1>9. ASSUME NEW r \in Requests, GuardReleased(r)
      PROVE  variants'[key'[e]] = e
  BY <1>7, <1>9 DEF GuardReleased
<1>10. ASSUME NEW r \in Requests, FetchDone(r)
       PROVE  variants'[key'[e]] = e
  <2>1. Owns(e) /\ key'[e] = key[e] /\ variants' = variants
    BY <1>1, <1>2, <1>10 DEF TypeOK, Owns, FetchDone
  <2>2. QED
    BY <1>4, <2>1
<1>11. ASSUME NEW r \in Requests, Cancel(r)
       PROVE  variants'[key'[e]] = e
  <2>1. Owns(e) /\ key'[e] = key[e] /\ variants' = variants
    BY <1>1, <1>2, <1>11 DEF TypeOK, Owns, Cancel
  <2>2. QED
    BY <1>4, <2>1
<1>12. ASSUME NEW q \in Requests, ReaperWake(q)
       PROVE  variants'[key'[e]] = e
  <2>1. Owns(e) /\ key'[e] = key[e] /\ variants' = variants
    BY <1>1, <1>2, <1>12 DEF TypeOK, Owns, ReaperWake
  <2>2. QED
    BY <1>4, <2>1
<1>13. ASSUME NEW q \in Requests, ReaperRun(q)
       PROVE  variants'[key'[e]] = e
  <2>1. 1 \in 1..Len(queue) /\ queue[1] = Reaper(q)
    BY <1>1, <1>13, LenProperties, EmptySeq, HeadTailProperties DEF ReaperRun, Turn, TypeOK
  <2>2. reaper[q] = "locking" /\ pc[q] = "done"
    BY <1>1, <2>1 DEF QueueInv, GuardInv
  <2>3. e # q /\ Owns(e) /\ key'[e] = key[e]
    BY <1>1, <1>2, <1>13, <2>2 DEF TypeOK, Owns, ReaperRun
  <2>4. key[q] = key[e] => variants[key[e]] = q
    BY <1>3, <2>2, <2>3 DEF OwnerInv, Owns
  <2>5. key[q] # key[e] /\ variants[key[e]] = e
    BY <1>4, <2>3, <2>4
  <2>6. QED
    BY <1>1, <1>3, <1>13, <2>3, <2>5 DEF TypeOK, ReaperRun
<1>14. CASE Tick \/ AtRest \/ UNCHANGED vars
  BY <1>5, <1>14 DEF Tick, AtRest, vars
<1>15. QED
  BY <1>6, <1>8, <1>9, <1>10, <1>11, <1>12, <1>13, <1>14 DEF Next

\* Both always hold.
LEMMA OwnerInvariance == Spec => [](ReapInv /\ OwnerInv)
<1>1. Init => ReapInv /\ OwnerInv
  BY DEF Init, ReapInv, OwnerInv, Owns
<1>2. IInv /\ ReapInv /\ OwnerInv /\ [Next]_vars => ReapInv' /\ OwnerInv'
  BY ReapStep, OwnerStep
<1>3. QED
  BY <1>1, <1>2, Invariance, PTL DEF Spec

\* Parallel requests for one key are consolidated into one backend request (the
\* additional lock of cache.rs), as long as no fetch of that key has come back
\* with something that is not to be cached.
THEOREM Consolidation == Spec => []ConsolidatedWhileCacheable
<1>1. OwnerInv => ConsolidatedWhileCacheable
  BY DEF OwnerInv, Owns, ConsolidatedWhileCacheable
<1>2. QED
  BY <1>1, OwnerInvariance, PTL

\* Under the same condition a value stays in the map for the whole of
\* cache_duration, whatever else is requested, dropped or removed meanwhile.
THEOREM Retention == Spec => []CachedForDuration
<1>1. IInv /\ ReapInv /\ OwnerInv => CachedForDuration
  <2>1. SUFFICES ASSUME IInv, ReapInv, OwnerInv,
                        NEW e \in Requests, guard[e] = "value",
                        now < fetchedAt[e] + Staleness, key[e] \in CacheableKeys
                 PROVE  variants[key[e]] = e
    BY DEF CachedForDuration
  <2>2. now \in Nat /\ fetchedAt[e] + Staleness \in Nat /\ reaper[e] \in ReaperStates
    BY <2>1, ConstantsAssumption DEF IInv, TypeOK
  <2>3. reaper[e] = "sleeping"
    BY <2>1, <2>2 DEF ReapInv, ReaperStates
  <2>4. QED
    BY <2>1, <2>3 DEF OwnerInv, Owns
<1>2. QED
  BY <1>1, OwnerInvariance, Invariance, PTL
=============================================================================
