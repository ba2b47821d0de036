---------------------------- MODULE SampleFilter ----------------------------
(***************************************************************************)
(* The label filters of one proxy (src/src/proxy.rs, apply_filters) and    *)
(* the store of samples they share (src/src/cache.rs, SampleCacheStore).   *)
(*                                                                         *)
(* Every scrape of the backend that succeeds is one call of apply_filters. *)
(* It reads the clock, waits for the std Mutex of the store, runs every    *)
(* sample through every rule, and returns the samples it keeps.  Scrapes   *)
(* overlap: one whose values the backend produced first may be filtered    *)
(* last.  A sample is its name (the metric with its labels, the key of the *)
(* store), the scrape that brought its value, and the noise added to it.   *)
(*                                                                         *)
(* The rules are the label_filters with their actions laid out in one      *)
(* sequence; what a selector's regex says of a sample depends on its name  *)
(* alone, and is the set of the names that match.                          *)
(***************************************************************************)
EXTENDS Integers, Sequences, FiniteSetsExt

CONSTANTS
    Scrapes,    \* the calls of apply_filters
    Names,      \* what tells one sample from another: metric and labels
    Setups,     \* what to consider: a configuration, a backend, a clock
    Nobody,     \* no scrape
    NoEntry     \* nothing stored

Rules == [matches : SUBSET Names, action : {"keep", "drop", "reduce", "noise"},
          resolution : Nat, amplitude : Int, quantum : Nat \ {0}]

\* A setup is the rules, the sequences of names the backend may serve, the timeout
\* of its scrapes, and the clock's first and last reading (the last one is a bound),
\* counted from its earliest Instant.
ASSUME ConstantsAssumption ==
    /\ \A c \in Setups : /\ c.rules \in Seq(Rules)
                         /\ c.serves \subseteq Seq(Names)
                         /\ {c.timeout, c.uptime, c.until} \subseteq Nat
    /\ Nobody \notin Scrapes

Samples == [name : Names, of : Scrapes, noise : Int]
Entries == [sample : Samples, savedAt : Nat]

ASSUME NoEntryAssumption == NoEntry \notin Entries

VARIABLES
    now,        \* the clock
    setup,      \* which setup it is; it never changes
    pc,         \* where each scrape is
    series,     \* the names each scrape brought
    readAt,     \* when the backend produced the values of each scrape
    stamp,      \* the clock as each scrape read it, before it had the lock
    mutex,      \* the scrape that holds the lock of the store
    poisoned,   \* whether a holder of the lock has panicked
    cache,      \* the store
    work,       \* where the holder of the lock is
    published,  \* the samples each scrape has returned
    doneAt      \* when each scrape has returned them

vars == <<now, setup, pc, series, readAt, stamp, mutex, poisoned, cache, work,
          published, doneAt>>

PcLabels == {"idle", "fetched", "locking", "filtering", "done", "panicked"}

rules == setup.rules

\* The loops' variables: which sample and which rule are next, the sample as it
\* is by now, the verdict on it, must_cache_sample, and the samples kept.
Works == [sample : Samples, at : Nat, rule : Nat, keep : {"unset", "keep", "drop"},
          mustCache : BOOLEAN, samples : SUBSET Samples]
Ended == [at : Nat, samples : SUBSET Samples]   \* no sample left
Idle  == [at |-> 0, samples |-> {}]

TypeOK ==
    /\ now \in Nat
    /\ setup \in Setups
    /\ pc \in [Scrapes -> PcLabels]
    /\ series \in [Scrapes -> Seq(Names)]
    /\ readAt \in [Scrapes -> Nat]
    /\ stamp \in [Scrapes -> Nat]
    /\ mutex \in Scrapes \union {Nobody}
    /\ poisoned \in BOOLEAN
    /\ cache \in [Names -> Entries \union {NoEntry}]
    /\ work \in Works \union Ended
    /\ published \in [Scrapes -> SUBSET Samples]
    /\ doneAt \in [Scrapes -> Nat]

Init ==
    /\ setup \in Setups
    /\ now = setup.uptime
    /\ pc = [t \in Scrapes |-> "idle"]
    /\ series = [t \in Scrapes |-> << >>]
    /\ readAt = [t \in Scrapes |-> 0]
    /\ stamp = [t \in Scrapes |-> 0]
    /\ mutex = Nobody
    /\ poisoned = FALSE
    /\ cache = [n \in Names |-> NoEntry]
    /\ work = Idle
    /\ published = [t \in Scrapes |-> {}]
    /\ doneAt = [t \in Scrapes |-> 0]

-----------------------------------------------------------------------------
(***************************************************************************)
(* The store.                                                              *)
(***************************************************************************)
\* Variant: an entry lasts one instant too long.
FreshOnTheDot(n, when, staleness) ==
    /\ cache[n] # NoEntry
    /\ when >= staleness
    /\ cache[n].savedAt >= when - staleness

\* Variant: an entry saved after the caller read the clock is not taken.
FreshNotFuture(n, when, staleness) ==
    /\ cache[n] # NoEntry
    /\ when >= staleness
    /\ cache[n].savedAt > when - staleness
    /\ cache[n].savedAt <= when

\* SampleCacheStore::get finds an entry saved less than staleness ago.  Where
\* when - staleness is before the earliest Instant, it finds nothing.
Fresh(n, when, staleness) ==
    /\ cache[n] # NoEntry
    /\ when >= staleness
    /\ cache[n].savedAt > when - staleness

\* SampleCacheStore::put.
Put(s, when) == [cache EXCEPT ![s.name] = [sample |-> s, savedAt |-> when]]

(***************************************************************************)
(* The noise.                                                              *)
(***************************************************************************)
\* Variant: the middle of the range is not taken off.
DrawsUnsigned(wnd) == 0 .. 2 * wnd - 1

\* rng.gen_range(-wnd..wnd)
Draws(wnd) == -wnd .. wnd - 1

\* (randomness * (1.0 / quantum)).round() * quantum; halves are rounded away
\* from zero.
Quantized(x, quantum) ==
    LET magnitude == ((2 * (IF x < 0 THEN -x ELSE x) + quantum) \div (2 * quantum)) * quantum
    IN  IF x < 0 THEN -magnitude ELSE magnitude

-----------------------------------------------------------------------------
(***************************************************************************)
(* One call of apply_filters.                                              *)
(***************************************************************************)
\* The i-th sample of scrape t as the backend sent it, with all rules to come.
Fetched(t, i, kept) ==
    IF i > Len(series[t])
      THEN [at |-> i, samples |-> kept]
      ELSE [at |-> i, rule |-> 1, keep |-> "unset", mustCache |-> FALSE,
            samples |-> kept,
            sample |-> [name |-> series[t][i], of |-> t, noise |-> 0]]

\* The backend produces the values of a scrape; they are on their way.
Fetch(t, s) ==
    /\ pc[t] = "idle"
    /\ pc' = [pc EXCEPT ![t] = "fetched"]
    /\ series' = [series EXCEPT ![t] = s]
    /\ readAt' = [readAt EXCEPT ![t] = now]
    /\ UNCHANGED <<now, setup, stamp, mutex, poisoned, cache, work, published, doneAt>>

\* Variant: the time of day, which may have been set back, in place of Instant.
BeginTimeOfDay(t) ==
    /\ pc[t] = "fetched"
    /\ pc' = [pc EXCEPT ![t] = "locking"]
    /\ \E setBack \in {0, 3} : stamp' = [stamp EXCEPT ![t] = now - setBack]
    /\ UNCHANGED <<now, setup, series, readAt, mutex, poisoned, cache, work, published,
                   doneAt>>

\* The scrape is in; the clock is read before the lock is asked for.
Begin(t) ==
    /\ pc[t] = "fetched"
    /\ pc' = [pc EXCEPT ![t] = "locking"]
    /\ stamp' = [stamp EXCEPT ![t] = now]
    /\ UNCHANGED <<now, setup, series, readAt, mutex, poisoned, cache, work, published,
                   doneAt>>

\* Variant: a poisoned lock is taken all the same.
LockPoisoned(t) ==
    /\ pc[t] = "locking"
    /\ mutex = Nobody
    /\ pc' = [pc EXCEPT ![t] = "filtering"]
    /\ mutex' = t
    /\ work' = Fetched(t, 1, {})
    /\ UNCHANGED <<now, setup, series, readAt, stamp, poisoned, cache, published,
                   doneAt>>

\* The lock is granted, and the first sample taken in hand.
Lock(t) ==
    /\ pc[t] = "locking"
    /\ mutex = Nobody
    /\ ~poisoned
    /\ pc' = [pc EXCEPT ![t] = "filtering"]
    /\ mutex' = t
    /\ work' = Fetched(t, 1, {})
    /\ UNCHANGED <<now, setup, series, readAt, stamp, poisoned, cache, published,
                   doneAt>>

\* lock().unwrap() panics once the lock is poisoned.
LockPanics(t) ==
    /\ pc[t] = "locking"
    /\ mutex = Nobody
    /\ poisoned
    /\ pc' = [pc EXCEPT ![t] = "panicked"]
    /\ UNCHANGED <<now, setup, series, readAt, stamp, mutex, poisoned, cache, work,
                   published, doneAt>>

\* The holder of the lock has a sample in hand.
HasSample == mutex # Nobody /\ work.at <= Len(series[mutex])

\* The next rule is of the given action, and its regex matches the sample.
Rule == rules[work.rule]
Applies(action) ==
    /\ HasSample
    /\ work.rule <= Len(rules)
    /\ Rule.action = action
    /\ work.sample.name \in Rule.matches

\* The rule is done: on to the next one with the sample, the verdict and
\* must_cache_sample as they are now.
RuleDone(sample, keep, mustCache) ==
    /\ work' = [work EXCEPT !.rule = @ + 1, !.sample = sample, !.keep = keep,
                            !.mustCache = mustCache]
    /\ UNCHANGED <<now, setup, pc, series, readAt, stamp, mutex, poisoned, cache,
                   published, doneAt>>

NoMatch ==
    /\ HasSample
    /\ work.rule <= Len(rules)
    /\ work.sample.name \notin Rule.matches
    /\ RuleDone(work.sample, work.keep, work.mustCache)

\* Variant: the first verdict stands.
KeepUnlessDropped ==
    /\ Applies("keep")
    /\ RuleDone(work.sample, IF work.keep = "unset" THEN "keep" ELSE work.keep,
                work.mustCache)

\* The two verdicts; each overrides the ones before it.
Keep == Applies("keep") /\ RuleDone(work.sample, "keep", work.mustCache)

Drop == Applies("drop") /\ RuleDone(work.sample, "drop", work.mustCache)

\* The store is looked up: a sample it finds takes the place of the one in hand.
ReduceHit ==
    /\ Applies("reduce")
    /\ Fresh(work.sample.name, stamp[mutex], Rule.resolution)
    /\ RuleDone(cache[work.sample.name].sample, work.keep, work.mustCache)

\* Variant: the sample that was looked up in vain is not marked for storing.
ReduceMissForgets ==
    /\ Applies("reduce")
    /\ ~Fresh(work.sample.name, stamp[mutex], Rule.resolution)
    /\ RuleDone(work.sample, work.keep, work.mustCache)

ReduceMiss ==
    /\ Applies("reduce")
    /\ ~Fresh(work.sample.name, stamp[mutex], Rule.resolution)
    /\ RuleDone(work.sample, work.keep, TRUE)

\* A random multiple of the quantum is added to the value, or to every bucket of
\* it alike.
AddNoise ==
    /\ Applies("noise")
    /\ \E x \in Draws(Rule.amplitude) :
          RuleDone([work.sample EXCEPT !.noise = @ + Quantized(x, Rule.quantum)],
                   work.keep, work.mustCache)

\* Variant: the time is taken off the clock without a check, which panics when the
\* result is before the earliest Instant.
PanicsAfterBoot ==
    /\ \/ Applies("noise") /\ Draws(Rule.amplitude) = {}
       \/ /\ Applies("reduce") /\ cache[work.sample.name] # NoEntry
          /\ stamp[mutex] < Rule.resolution
    /\ pc' = [pc EXCEPT ![mutex] = "panicked"]
    /\ poisoned' = TRUE
    /\ mutex' = Nobody
    /\ work' = Idle
    /\ UNCHANGED <<now, setup, series, readAt, stamp, cache, published, doneAt>>

\* The range to draw from is empty: the draw panics with the lock held, which
\* poisons it; what was kept of this scrape is lost, what was stored is not.
NoisePanics ==
    /\ Applies("noise")
    /\ Draws(Rule.amplitude) = {}
    /\ pc' = [pc EXCEPT ![mutex] = "panicked"]
    /\ poisoned' = TRUE
    /\ mutex' = Nobody
    /\ work' = Idle
    /\ UNCHANGED <<now, setup, series, readAt, stamp, cache, published, doneAt>>

\* Every rule was applied: a sample that is not dropped is returned, and stored
\* if a rule looked it up in vain.
SampleDone ==
    /\ HasSample
    /\ work.rule > Len(rules)
    /\ IF work.keep = "drop"
         THEN /\ work' = Fetched(mutex, work.at + 1, work.samples)
              /\ UNCHANGED cache
         ELSE /\ work' = Fetched(mutex, work.at + 1, work.samples \union {work.sample})
              /\ cache' = IF work.mustCache THEN Put(work.sample, stamp[mutex]) ELSE cache
    /\ UNCHANGED <<now, setup, pc, series, readAt, stamp, mutex, poisoned, published,
                   doneAt>>

\* All samples are through: the lock is dropped and what was kept is returned.
Return(t) ==
    /\ mutex = t
    /\ work.at > Len(series[t])
    /\ pc' = [pc EXCEPT ![t] = "done"]
    /\ mutex' = Nobody
    /\ published' = [published EXCEPT ![t] = work.samples]
    /\ doneAt' = [doneAt EXCEPT ![t] = now]
    /\ work' = Idle
    /\ UNCHANGED <<now, setup, series, readAt, stamp, poisoned, cache>>

\* Time passes; a scrape that is not in by its timeout has failed.
Tick ==
    /\ now < setup.until
    /\ \A t \in Scrapes : pc[t] = "fetched" => now < readAt[t] + setup.timeout
    /\ now' = now + 1
    /\ UNCHANGED <<setup, pc, series, readAt, stamp, mutex, poisoned, cache, work,
                   published, doneAt>>

\* Every scrape has been answered or has panicked.
AtRest ==
    /\ \A t \in Scrapes : pc[t] \in {"done", "panicked"}
    /\ UNCHANGED vars

Next ==
    \/ \E t \in Scrapes : \E s \in setup.serves : Fetch(t, s)
    \/ \E t \in Scrapes : Begin(t)
    \/ \E t \in Scrapes : Lock(t)
    \/ \E t \in Scrapes : LockPanics(t)
    \/ NoMatch
    \/ Keep
    \/ Drop
    \/ ReduceHit
    \/ ReduceMiss
    \/ AddNoise
    \/ NoisePanics
    \/ SampleDone
    \/ \E t \in Scrapes : Return(t)
    \/ Tick
    \/ AtRest

Spec == Init /\ [][Next]_vars
-----------------------------------------------------------------------------
(***************************************************************************)
(* What the filters promise.                                               *)
(***************************************************************************)
RulesOn(n, action) == {i \in 1..Len(rules) : /\ rules[i].action = action
                                             /\ n \in rules[i].matches}

\* The last rule that keeps or drops n, if there is one, drops it.
IsDropped(n) ==
    LET verdicts == RulesOn(n, "keep") \union RulesOn(n, "drop")
    IN  verdicts # {} /\ rules[Max(verdicts)].action = "drop"

\* reduce_time_resolution comes after add_absolute_noise, as the README asks.
NoiseFirst(n) == \A i \in RulesOn(n, "noise"), j \in RulesOn(n, "reduce") : i < j

\* "The metric will be dropped unless subsequent actions insist it should be
\* keep'ed" (README): a scrape returns the metrics whose last verdict is not
\* drop, all of them and no other, and a dropped metric is not stored either.
VerdictsHold ==
    /\ \A t \in Scrapes : pc[t] = "done" =>
          {s.name : s \in published[t]} =
              {n \in {series[t][i] : i \in 1..Len(series[t])} : ~IsDropped(n)}
    /\ \A n \in Names : IsDropped(n) => cache[n] = NoEntry

\* "Serve the matching metrics from a cache unless the cache entry is older than
\* the specified time resolution" (README): what a scrape returns is its own
\* value, or one brought by a scrape less than a resolution before it; the longest
\* one, where several rules apply to the metric.
ServedWithinResolution ==
    \A t \in Scrapes : \A s \in published[t] :
        \/ s.of = t
        \/ \E i \in RulesOn(s.name, "reduce") : stamp[t] < stamp[s.of] + rules[i].resolution

\* The clock was a resolution old at the start, and so every reading of it may be
\* set back by one (Fresh finds nothing before, and a scrape stores its own value).
ClockIsOld(n) == \A i \in RulesOn(n, "reduce") : setup.uptime >= rules[i].resolution

\* What reduce_time_resolution is for: two values a metric was ever seen with
\* are a resolution apart, noise included, whichever scrapes returned them and
\* in whatever order they got the lock.
ValuesChangeSlowly ==
    \A t, u \in Scrapes : \A p \in published[t], q \in published[u] :
        (p.name = q.name /\ p # q /\ NoiseFirst(p.name) /\ ClockIsOld(p.name)) =>
            \A i \in RulesOn(p.name, "reduce") :
                \/ stamp[p.of] >= stamp[q.of] + rules[i].resolution
                \/ stamp[q.of] >= stamp[p.of] + rules[i].resolution

\* A client that asks again after it was answered never sees a value the backend
\* produced before the one it has seen: no counter goes backwards (which Prometheus
\* would take for a restart).  This rests on the timeout of connect_to, which keeps a
\* slow scrape from being stored after a later one has expired: where it is longer
\* than the resolution, values do go back.
ReadsDoNotGoBack ==
    \A t, u \in Scrapes : \A p \in published[t], q \in published[u] :
        /\ p.name = q.name /\ readAt[u] >= doneAt[t] /\ ClockIsOld(p.name)
        /\ \A i \in RulesOn(p.name, "reduce") : setup.timeout <= rules[i].resolution
        => readAt[q.of] >= readAt[p.of]

\* What the first rules add to n at most: their amplitudes, rounded as the noise is.
Amplitudes(n) ==
    LET sum[i \in 0..Len(rules)] ==
          IF i = 0 THEN 0
          ELSE sum[i - 1] + (IF i \in RulesOn(n, "noise")
                               THEN Quantized(rules[i].amplitude, rules[i].quantum)
                             ELSE 0)
    IN  sum

Within(x, bound) == -bound <= x /\ x <= bound

\* "A random amount within [-amplitude .. +amplitude] is added to each matching
\* sample" (README), the amplitude being rounded to the quantum as the amount is;
\* and it is added once, not to the stored sample on top.
NoiseWithinAmplitude ==
    \A t \in Scrapes : \A s \in published[t] :
        NoiseFirst(s.name) => Within(s.noise, Amplitudes(s.name)[Len(rules)])

\* An entry is replaced a resolution after it was saved, the shortest one that
\* applies, and never by a scrape that read the clock before.
EntriesLast ==
    [][\A n \in Names :
          (cache[n] # NoEntry /\ cache'[n] # cache[n] /\ ClockIsOld(n)) =>
              \E i \in RulesOn(n, "reduce") :
                  cache'[n].savedAt >= cache[n].savedAt + rules[i].resolution]_vars

\* A scrape fails in the filters for one reason only, whatever the clock says and the
\* store holds: some scrape, itself or one before it, brought a metric that a rule was to
\* blur by an amplitude that leaves nothing to draw from.  (SampleCacheStore::get is
\* given times that may be before the earliest Instant.)
Unblurrable(n) == \E i \in RulesOn(n, "noise") : Draws(rules[i].amplitude) = {}
PanicsAreEarned ==
    \A t \in Scrapes : pc[t] = "panicked" =>
        \E u \in Scrapes : /\ pc[u] = "panicked"
                           /\ \E i \in 1..Len(series[u]) : Unblurrable(series[u][i])

\* A filter that panics poisons the store of its proxy: nothing is returned to
\* any later scrape, of whatever metrics.
PoisonIsForGood == [][poisoned => published' = published]_vars
=============================================================================
