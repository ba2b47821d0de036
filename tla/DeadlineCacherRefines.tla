------------------------ MODULE DeadlineCacherRefines ------------------------
(***************************************************************************)
(* DeadlineCacher as an implementation of CoalescingCache.  What the cache *)
(* can serve is what stands in its map under an unlocked guard with a      *)
(* value; who waits for the Mutex or for a guard waits.                    *)
(***************************************************************************)
EXTENDS DeadlineCacher

call == [r \in Requests |->
            CASE pc[r] \in {"locking", "reading"} -> "waiting"
              [] pc[r] \in {"done", "cancelled"}  -> "ended"
              [] OTHER                            -> pc[r]]

store == [k \in Keys |-> IF variants[k] # Nobody /\ guard[variants[k]] = "value"
                           THEN variants[k] ELSE Nobody]

uncacheable == Keys \ CacheableKeys

Promised == INSTANCE CoalescingCache WITH
               Lag <- MaxLag, madeAt <- arrivedAt, readyAt <- fetchedAt

\* The cache (cache.rs, get_or_insert_with, with its removal tasks and with calls
\* dropped at any await) keeps all promises of a coalescing cache, in every step and
\* not just state by state: it fetches only what it does not have, once at a time,
\* keeps each value for its time, and serves each caller what is in date.
ImplementsCache == Promised!Spec
=============================================================================
