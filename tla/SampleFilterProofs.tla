------------------------- MODULE SampleFilterProofs -------------------------
(***************************************************************************)
(* Proofs about SampleFilter, for any rules, any samples and any number of *)
(* scrapes that overlap.                                                   *)
(***************************************************************************)
EXTENDS SampleFilter, SequenceTheorems, Induction

-----------------------------------------------------------------------------
(***************************************************************************)
(* The clock and the lock.                                                 *)
(***************************************************************************)
\* The scrape has read the clock.
Started(t) == pc[t] \notin {"idle", "fetched"}

ClockInv ==
    /\ setup.uptime <= now
    /\ \A t \in Scrapes :
          /\ pc[t] # "idle" => setup.uptime <= readAt[t] /\ readAt[t] <= now
          /\ pc[t] = "fetched" => now <= readAt[t] + setup.timeout
          /\ Started(t) => /\ readAt[t] <= stamp[t] /\ stamp[t] <= now
                           /\ stamp[t] <= readAt[t] + setup.timeout
          /\ pc[t] = "done" => stamp[t] <= doneAt[t] /\ doneAt[t] <= now

\* Where the holder of the lock is in its two loops.
InHand ==
    /\ work \in Works
    /\ work.at \in 1..Len(series[mutex])
    /\ work.rule \in 1..Len(rules) + 1
    /\ work.sample.name = series[mutex][work.at]
AllThrough ==
    /\ work \in Ended
    /\ work.at = Len(series[mutex]) + 1

LockInv ==
    /\ poisoned => mutex = Nobody
    /\ \A t \in Scrapes : pc[t] = "filtering" <=> mutex = t
    /\ \A t \in Scrapes : pc[t] # "done" => published[t] = {}
    /\ mutex # Nobody => InHand \/ AllThrough

\* The store has a sample under its own name.
NamesInv == \A n \in Names : cache[n] # NoEntry => cache[n].sample.name = n

Base == TypeOK /\ ClockInv /\ LockInv /\ NamesInv

-----------------------------------------------------------------------------
(***************************************************************************)
(* The noise.                                                              *)
(***************************************************************************)
LEMMA QuantizedInt ==
    ASSUME NEW x \in Int, NEW quantum \in Nat \ {0}
    PROVE  Quantized(x, quantum) \in Int
  BY DEF Quantized

-----------------------------------------------------------------------------
(***************************************************************************)
(* The steps.                                                              *)
(***************************************************************************)

LEMMA SetupFacts ==
    ASSUME TypeOK
    PROVE  /\ Len(rules) \in Nat
           /\ \A i \in 1..Len(rules) : rules[i] \in Rules
           /\ setup.uptime \in Nat /\ setup.timeout \in Nat
           /\ \A s \in setup.serves : s \in Seq(Names)
<1>1. rules \in Seq(Rules) /\ setup.serves \subseteq Seq(Names)
  BY ConstantsAssumption DEF TypeOK, rules
<1>2. \A i \in 1..Len(rules) : rules[i] \in Rules
  BY <1>1, ElementOfSeq
<1>3. QED
  BY <1>1, <1>2, LenProperties, ConstantsAssumption DEF TypeOK

LEMMA SeriesFacts ==
    ASSUME TypeOK, NEW t \in Scrapes
    PROVE  Len(series[t]) \in Nat /\ \A i \in 1..Len(series[t]) : series[t][i] \in Names
<1>1. series[t] \in Seq(Names)
  BY DEF TypeOK
<1>2. QED
  BY <1>1, ElementOfSeq, LenProperties

\* The sample in hand, when there is one.
LEMMA SampleFacts ==
    ASSUME Base, HasSample
    PROVE  /\ mutex \in Scrapes /\ pc[mutex] = "filtering"
           /\ work \in Works /\ work.at \in 1..Len(series[mutex])
           /\ work.rule \in 1..Len(rules) + 1
           /\ work.sample \in Samples
           /\ work.sample.name \in Names
           /\ work.sample.name = series[mutex][work.at]
<1>1. mutex \in Scrapes /\ mutex # Nobody /\ pc[mutex] = "filtering"
  BY DEF Base, TypeOK, HasSample, LockInv
<1>2. ~AllThrough
  BY <1>1, SeriesFacts DEF Base, AllThrough, HasSample
<1>3. InHand
  BY <1>1, <1>2 DEF Base, LockInv
<1>4. work.sample \in Samples /\ work.sample.name \in Names
  BY <1>3 DEF InHand, Works, Samples
<1>5. QED
  BY <1>1, <1>3, <1>4 DEF InHand

\* The order of a scrape's readings of the clock.
LEMMA ClockFacts ==
    ASSUME Base, NEW t \in Scrapes, Started(t)
    PROVE  /\ readAt[t] \in Nat /\ stamp[t] \in Nat /\ now \in Nat
           /\ setup.uptime \in Nat /\ setup.timeout \in Nat
           /\ setup.uptime <= readAt[t] /\ setup.uptime <= stamp[t]
           /\ readAt[t] <= stamp[t] /\ stamp[t] <= now
           /\ stamp[t] <= readAt[t] + setup.timeout
<1>1. /\ readAt[t] \in Nat /\ stamp[t] \in Nat /\ now \in Nat
      /\ setup.uptime \in Nat /\ setup.timeout \in Nat
  BY SetupFacts DEF Base, TypeOK
<1>2. /\ setup.uptime <= readAt[t] /\ readAt[t] <= stamp[t] /\ stamp[t] <= now
      /\ stamp[t] <= readAt[t] + setup.timeout
  BY DEF Base, ClockInv, Started
<1>3. QED
  BY <1>1, <1>2

LEMMA FetchedParts ==
    ASSUME NEW t, NEW i, NEW kept
    PROVE  Fetched(t, i, kept).at = i /\ Fetched(t, i, kept).samples = kept
  BY DEF Fetched

LEMMA FetchedFacts ==
    ASSUME TypeOK, NEW t \in Scrapes, NEW i \in 1..Len(series[t]) + 1,
           NEW kept \in SUBSET Samples
    PROVE  /\ Fetched(t, i, kept) \in Works \union Ended
           /\ \/ /\ i <= Len(series[t]) /\ Fetched(t, i, kept) \in Works
                 /\ Fetched(t, i, kept).rule = 1
                 /\ Fetched(t, i, kept).keep = "unset"
                 /\ Fetched(t, i, kept).mustCache = FALSE
                 /\ Fetched(t, i, kept).sample
                       = [name |-> series[t][i], of |-> t, noise |-> 0]
              \/ /\ i = Len(series[t]) + 1 /\ Fetched(t, i, kept) \in Ended
<1>1. Len(series[t]) \in Nat
  BY SeriesFacts
<1>2. CASE i <= Len(series[t])
  <2> DEFINE s == [name |-> series[t][i], of |-> t, noise |-> 0]
             w == [at |-> i, rule |-> 1, keep |-> "unset", mustCache |-> FALSE,
                   samples |-> kept, sample |-> s]
  <2>1. Fetched(t, i, kept) = w
    BY <1>1, <1>2 DEF Fetched
  <2>2. s \in Samples
    BY <1>1, <1>2, SeriesFacts DEF Samples
  <2> HIDE DEF s
  <2>3. w \in Works
    BY <1>1, <2>2 DEF Works
  <2>4. QED
    BY <1>2, <2>1, <2>3 DEF s
<1>3. CASE i > Len(series[t])
  <2>1. Fetched(t, i, kept) = [at |-> i, samples |-> kept]
    BY <1>3 DEF Fetched
  <2>2. i = Len(series[t]) + 1
    BY <1>1, <1>3
  <2>3. QED
    BY <1>1, <2>1, <2>2 DEF Ended
<1>4. i <= Len(series[t]) \/ i > Len(series[t])
  BY <1>1
<1>5. QED
  BY <1>2, <1>3, <1>4, Zenon

LEMMA InitBase == Init => Base
<1> SUFFICES ASSUME Init PROVE Base
  OBVIOUS
<1>1. setup.uptime \in Nat
  BY ConstantsAssumption DEF Init
<1>2. Idle \in Ended
  BY DEF Idle, Ended
<1>3. TypeOK
  <2>1. series \in [Scrapes -> Seq(Names)]
    BY DEF Init
  <2>2. poisoned \in BOOLEAN /\ mutex \in Scrapes \union {Nobody}
    BY DEF Init
  <2>3. work \in Works \union Ended
    BY <1>2 DEF Init
  <2>4. pc \in [Scrapes -> PcLabels]
    BY DEF Init, PcLabels
  <2>5. cache \in [Names -> Entries \union {NoEntry}]
    BY DEF Init
  <2>6. published \in [Scrapes -> SUBSET Samples]
    BY DEF Init
  <2>7. /\ now \in Nat /\ setup \in Setups
        /\ readAt \in [Scrapes -> Nat] /\ stamp \in [Scrapes -> Nat]
        /\ doneAt \in [Scrapes -> Nat]
    BY <1>1 DEF Init
  <2>8. QED
    BY <2>1, <2>2, <2>3, <2>4, <2>5, <2>6, <2>7 DEF TypeOK
<1>4. ClockInv /\ LockInv /\ NamesInv
  BY <1>1, ConstantsAssumption DEF Init, ClockInv, LockInv, NamesInv, Started
<1>5. QED
  BY <1>3, <1>4 DEF Base

\* A rule changes the sample, the verdict and must_cache_sample, and nothing else.
LEMMA RuleDoneHolds ==
    ASSUME Base, HasSample, work.rule <= Len(rules),
           NEW s \in Samples, s.name = work.sample.name,
           NEW keep \in {"unset", "keep", "drop"}, NEW mustCache \in BOOLEAN,
           RuleDone(s, keep, mustCache)
    PROVE  /\ Base'
           /\ work'.sample = s /\ work'.keep = keep /\ work'.mustCache = mustCache
           /\ work'.rule = work.rule + 1 /\ work'.at = work.at
           /\ work'.samples = work.samples
<1>1. work \in Works /\ work.rule \in 1..Len(rules)
  BY SampleFacts, SetupFacts DEF Base
<1>2. /\ work' = [work EXCEPT !.rule = work.rule + 1, !.sample = s, !.keep = keep,
                             !.mustCache = mustCache]
      /\ UNCHANGED <<now, setup, pc, series, readAt, stamp, mutex, poisoned, cache,
                     published, doneAt>>
  BY DEF RuleDone
<1>3. /\ work' \in Works
      /\ work'.sample = s /\ work'.keep = keep /\ work'.mustCache = mustCache
      /\ work'.rule = work.rule + 1 /\ work'.at = work.at
      /\ work'.samples = work.samples
  <2> DEFINE w == [sample |-> s, at |-> work.at, rule |-> work.rule + 1, keep |-> keep,
                    mustCache |-> mustCache, samples |-> work.samples]
  <2>1. work = [sample |-> work.sample, at |-> work.at, rule |-> work.rule,
                keep |-> work.keep, mustCache |-> work.mustCache,
                samples |-> work.samples]
    BY <1>1 DEF Works
  <2>2. work' = w
    BY <1>2, <2>1
  <2>3. w \in Works
    <3>1. work.at \in Nat /\ work.rule + 1 \in Nat /\ work.samples \in SUBSET Samples
      BY <1>1 DEF Works
    <3>2. QED
      BY <3>1 DEF Works
  <2>4. QED
    BY <2>2, <2>3
<1>4. TypeOK'
  BY <1>2, <1>3 DEF Base, TypeOK
<1>5. ClockInv'
  BY <1>2 DEF Base, ClockInv, Started
<1>6. InHand'
  BY <1>1, <1>2, <1>3, SampleFacts, SetupFacts DEF InHand, rules
<1>7. LockInv'
  BY <1>2, <1>6 DEF Base, LockInv
<1>8. NamesInv'
  BY <1>2 DEF Base, NamesInv
<1>9. QED
  BY <1>3, <1>4, <1>5, <1>7, <1>8 DEF Base

\* The rules: each of them keeps the name of the sample in hand.
LEMMA RuleStep ==
    ASSUME Base, NoMatch \/ Keep \/ Drop \/ ReduceHit \/ ReduceMiss \/ AddNoise
    PROVE  /\ HasSample /\ work.rule <= Len(rules)
           /\ \E s \in Samples, keep \in {"unset", "keep", "drop"}, mustCache \in BOOLEAN :
                 s.name = work.sample.name /\ RuleDone(s, keep, mustCache)
<1>1. HasSample /\ work.rule <= Len(rules)
  BY DEF NoMatch, Keep, Drop, ReduceHit, ReduceMiss, AddNoise, Applies
<1>2. /\ work \in Works /\ work.sample \in Samples /\ work.sample.name \in Names
      /\ work.keep \in {"unset", "keep", "drop"} /\ work.mustCache \in BOOLEAN
      /\ work.rule \in 1..Len(rules)
  BY <1>1, SampleFacts, SetupFacts DEF Works, Base
<1>3. CASE NoMatch
  BY <1>1, <1>2, <1>3 DEF NoMatch
<1>4. CASE Keep
  BY <1>1, <1>2, <1>4 DEF Keep
<1>5. CASE Drop
  BY <1>1, <1>2, <1>5 DEF Drop
<1>6. CASE ReduceHit
  <2> DEFINE s == cache[work.sample.name].sample
  <2>1. s \in Samples /\ s.name = work.sample.name
    <3>1. cache[work.sample.name] \in Entries
      BY <1>2, <1>6 DEF ReduceHit, Fresh, Base, TypeOK
    <3>2. QED
      BY <1>2, <1>6, <3>1 DEF ReduceHit, Fresh, Base, NamesInv, Entries
  <2>2. RuleDone(s, work.keep, work.mustCache)
    BY <1>6 DEF ReduceHit
  <2>3. QED
    BY <1>1, <1>2, <2>1, <2>2
<1>7. CASE ReduceMiss
  BY <1>1, <1>2, <1>7 DEF ReduceMiss
<1>8. CASE AddNoise
  <2>1. PICK x \in Draws(Rule.amplitude) :
           RuleDone([work.sample EXCEPT !.noise = @ + Quantized(x, Rule.quantum)],
                    work.keep, work.mustCache)
    BY <1>8 DEF AddNoise
  <2>2. Quantized(x, Rule.quantum) \in Int
    <3>1. Rule \in Rules
      BY <1>2, SetupFacts DEF Base, Rule
    <3>2. Rule.amplitude \in Int /\ Rule.quantum \in Nat \ {0}
      BY <3>1 DEF Rules
    <3>3. x \in Int
      BY <2>1, <3>2 DEF Draws
    <3>4. QED
      BY <3>2, <3>3, QuantizedInt, Zenon
  <2> DEFINE s == [work.sample EXCEPT !.noise = @ + Quantized(x, Rule.quantum)]
  <2>3. s \in Samples /\ s.name = work.sample.name
    BY <1>2, <2>2 DEF Samples
  <2>4. QED
    BY <1>1, <1>2, <2>1, <2>3
<1>9. QED
  BY <1>3, <1>4, <1>5, <1>6, <1>7, <1>8

\* What an entry of the store becomes when the sample in hand is stored.
LEMMA SampleDoneHolds ==
    ASSUME Base, SampleDone
    PROVE  /\ Base'
           /\ work' = Fetched(mutex, work.at + 1, work'.samples)
           /\ work'.samples = IF work.keep = "drop" THEN work.samples
                              ELSE work.samples \union {work.sample}
           /\ \A n \in Names :
                 cache'[n] = IF /\ work.keep # "drop" /\ work.mustCache
                                /\ n = work.sample.name
                               THEN [sample |-> work.sample, savedAt |-> stamp[mutex]]
                             ELSE cache[n]
<1>1. /\ HasSample /\ work.rule > Len(rules)
      /\ UNCHANGED <<now, setup, pc, series, readAt, stamp, mutex, poisoned, published,
                     doneAt>>
  BY DEF SampleDone
<1>2. /\ mutex \in Scrapes /\ mutex # Nobody /\ work \in Works
      /\ work.at \in 1..Len(series[mutex]) /\ Len(series[mutex]) \in Nat
      /\ work.sample \in Samples /\ work.sample.name \in Names
      /\ work.samples \in SUBSET Samples /\ stamp[mutex] \in Nat
      /\ work.at + 1 \in 1..Len(series[mutex]) + 1
  BY SMTT(30), <1>1, SampleFacts, SeriesFacts, ConstantsAssumption DEF Base, TypeOK, Works
<1> DEFINE kept == IF work.keep = "drop" THEN work.samples
                   ELSE work.samples \union {work.sample}
           e == [sample |-> work.sample, savedAt |-> stamp[mutex]]
<1>3. kept \in SUBSET Samples /\ work' = Fetched(mutex, work.at + 1, kept)
  BY <1>2 DEF SampleDone
<1> DEFINE i == work.at + 1
           w == Fetched(mutex, i, kept)
<1>4. /\ w \in Works \union Ended /\ w.samples = kept
      /\ \/ /\ i <= Len(series[mutex]) /\ w \in Works /\ w.rule = 1 /\ w.at = i
            /\ w.sample = [name |-> series[mutex][i], of |-> mutex, noise |-> 0]
         \/ i = Len(series[mutex]) + 1 /\ w \in Ended /\ w.at = i
  <2>1. TypeOK /\ i \in 1..Len(series[mutex]) + 1
    BY <1>2 DEF Base
  <2> HIDE DEF kept, i
  <2>2. PICK t \in Scrapes : t = mutex
    BY <1>2
  <2>3. i \in 1..Len(series[t]) + 1
    BY <2>1, <2>2
  <2> DEFINE f == Fetched(t, i, kept)
  <2>4. f.at = i /\ f.samples = kept
    BY FetchedParts
  <2>5. \/ /\ i <= Len(series[t]) /\ f \in Works /\ f.rule = 1
           /\ f.sample = [name |-> series[t][i], of |-> t, noise |-> 0]
        \/ i = Len(series[t]) + 1 /\ f \in Ended
    BY <1>3, <2>1, <2>3, FetchedFacts
  <2>6. QED
    BY <2>2, <2>4, <2>5
<1>5. work'.samples = kept /\ work' = Fetched(mutex, work.at + 1, work'.samples)
  <2> HIDE DEF kept
  <2>1. QED
    BY <1>3, <1>4
<1>6. cache' = IF work.keep # "drop" /\ work.mustCache
                 THEN [cache EXCEPT ![work.sample.name] = e]
               ELSE cache
  BY DEF SampleDone, Put
<1>7. e \in Entries
  BY <1>2 DEF Entries
<1>8. e.sample.name = work.sample.name
  OBVIOUS
<1> HIDE DEF kept, e
<1>9. \A n \in Names :
         cache'[n] = IF /\ work.keep # "drop" /\ work.mustCache
                        /\ n = work.sample.name THEN e ELSE cache[n]
  BY <1>2, <1>6 DEF Base, TypeOK
<1>10. TypeOK'
  <2>1. cache' \in [Names -> Entries \union {NoEntry}]
    BY <1>2, <1>6, <1>7 DEF Base, TypeOK
  <2>2. work' \in Works \union Ended
    BY <1>2, <1>3, FetchedFacts DEF Base
  <2>3. QED
    BY <1>1, <2>1, <2>2 DEF Base, TypeOK
<1>11. ClockInv'
  BY <1>1 DEF Base, ClockInv, Started
<1>12. LockInv'
  <2>1. InHand' \/ AllThrough'
    <3>2. work' = w
      BY <1>3
    <3> HIDE DEF w
    <3>3. Len(rules) \in Nat /\ setup' = setup /\ mutex' = mutex /\ series' = series
      BY <1>1, SetupFacts DEF Base
    <3>4. CASE i = Len(series[mutex]) + 1 /\ w \in Ended /\ w.at = i
      BY <3>2, <3>3, <3>4 DEF AllThrough
    <3>5. CASE /\ i <= Len(series[mutex]) /\ w \in Works /\ w.rule = 1 /\ w.at = i
               /\ w.sample = [name |-> series[mutex][i], of |-> mutex, noise |-> 0]
      <4>1. w.rule \in 1..Len(rules) + 1 /\ w.at \in 1..Len(series[mutex])
        BY <1>2, <3>3, <3>5
      <4>2. w.sample.name = series[mutex][i]
        BY <3>5
      <4>3. QED
        BY <3>2, <3>3, <3>5, <4>1, <4>2 DEF InHand, rules
    <3>6. QED
      BY <1>4, <3>4, <3>5
  <2>2. QED
    BY <1>1, <1>2, <2>1 DEF Base, LockInv
<1>13. NamesInv'
  BY <1>8, <1>9 DEF Base, NamesInv
<1>14. QED
  BY <1>5, <1>9, <1>10, <1>11, <1>12, <1>13 DEF Base, e, kept

LEMMA FetchHolds ==
    ASSUME Base, NEW t \in Scrapes, NEW s \in setup.serves, Fetch(t, s)
    PROVE  Base'
<1>1. s \in Seq(Names) /\ pc[t] = "idle" /\ setup.timeout \in Nat
  BY SetupFacts DEF Base, Fetch
<1>2. TypeOK'
  BY <1>1 DEF Base, TypeOK, Fetch, PcLabels
<1>3. ClockInv'
  BY <1>1 DEF Base, TypeOK, ClockInv, Fetch, Started
<1>4. mutex # t
  BY <1>1 DEF Base, LockInv
<1>5. LockInv'
  <2>1. mutex # Nobody => series'[mutex] = series[mutex]
    BY <1>4 DEF Fetch, Base, TypeOK
  <2>2. mutex # Nobody => InHand' \/ AllThrough'
    BY <2>1 DEF Base, LockInv, InHand, AllThrough, Fetch, rules
  <2>3. QED
    BY <1>1, <2>2 DEF Base, TypeOK, LockInv, Fetch
<1>6. NamesInv'
  BY DEF Base, NamesInv, Fetch
<1>7. QED
  BY <1>2, <1>3, <1>5, <1>6 DEF Base

LEMMA BeginHolds ==
    ASSUME Base, NEW t \in Scrapes, Begin(t)
    PROVE  Base'
<1>1. TypeOK'
  BY DEF Base, TypeOK, Begin, PcLabels
<1>2. ClockInv'
  BY SetupFacts DEF Base, TypeOK, ClockInv, Begin, Started
<1>3. LockInv'
  BY DEF Base, TypeOK, LockInv, InHand, AllThrough, Begin, rules
<1>4. NamesInv'
  BY DEF Base, NamesInv, Begin
<1>5. QED
  BY <1>1, <1>2, <1>3, <1>4 DEF Base

LEMMA LockHolds ==
    ASSUME Base, NEW t \in Scrapes, Lock(t)
    PROVE  Base' /\ Fetched(t, 1, {}).samples = {} /\ Fetched(t, 1, {}).at = 1
<1> DEFINE w == Fetched(t, 1, {})
<1>1. Len(series[t]) \in Nat /\ Len(rules) \in Nat /\ 1 \in 1..Len(series[t]) + 1
  BY SeriesFacts, SetupFacts DEF Base
<1>2. w.at = 1 /\ w.samples = {}
  BY FetchedParts
<1>3. /\ w \in Works \union Ended
      /\ \/ /\ 1 <= Len(series[t]) /\ w \in Works /\ w.rule = 1
            /\ w.sample = [name |-> series[t][1], of |-> t, noise |-> 0]
         \/ 1 = Len(series[t]) + 1 /\ w \in Ended
  BY <1>1, FetchedFacts DEF Base
<1> HIDE DEF w
<1>4. /\ pc[t] = "locking" /\ mutex = Nobody /\ ~poisoned
      /\ pc' = [pc EXCEPT ![t] = "filtering"] /\ mutex' = t /\ work' = w
      /\ UNCHANGED <<now, setup, series, readAt, stamp, poisoned, cache, published,
                     doneAt>>
  BY DEF Lock, w
<1>5. TypeOK'
  BY <1>3, <1>4 DEF Base, TypeOK, PcLabels
<1>6. ClockInv'
  BY <1>4 DEF Base, TypeOK, ClockInv, Started
<1>7. InHand' \/ AllThrough'
  <2>1. CASE 1 = Len(series[t]) + 1 /\ w \in Ended
    BY <1>2, <1>4, <2>1 DEF AllThrough
  <2>2. CASE /\ 1 <= Len(series[t]) /\ w \in Works /\ w.rule = 1
             /\ w.sample = [name |-> series[t][1], of |-> t, noise |-> 0]
    <3>1. w.sample.name = series[t][1]
      BY <2>2
    <3>2. QED
      BY <1>1, <1>2, <1>4, <2>2, <3>1 DEF InHand, rules
  <2>3. QED
    BY <1>3, <2>1, <2>2
<1>8. LockInv'
  BY <1>4, <1>7, ConstantsAssumption DEF Base, TypeOK, LockInv
<1>9. NamesInv'
  BY <1>4 DEF Base, NamesInv
<1>10. QED
  BY <1>2, <1>5, <1>6, <1>8, <1>9 DEF Base, w

LEMMA LockPanicsHolds ==
    ASSUME Base, NEW t \in Scrapes, LockPanics(t)
    PROVE  Base'
<1>1. TypeOK'
  BY DEF Base, TypeOK, LockPanics, PcLabels
<1>2. ClockInv'
  BY DEF Base, TypeOK, ClockInv, LockPanics, Started
<1>3. LockInv'
  BY DEF Base, TypeOK, LockInv, InHand, AllThrough, LockPanics, rules
<1>4. NamesInv'
  BY DEF Base, NamesInv, LockPanics
<1>5. QED
  BY <1>1, <1>2, <1>3, <1>4 DEF Base

LEMMA NoisePanicsHolds ==
    ASSUME Base, NoisePanics
    PROVE  Base' /\ mutex \in Scrapes /\ pc[mutex] = "filtering"
<1>1. mutex \in Scrapes /\ pc[mutex] = "filtering" /\ Idle \in Ended
  BY SampleFacts DEF NoisePanics, Applies, Idle, Ended
<1>2. TypeOK'
  BY <1>1 DEF Base, TypeOK, NoisePanics, PcLabels
<1>3. ClockInv'
  BY <1>1 DEF Base, TypeOK, ClockInv, NoisePanics, Started
<1>4. LockInv'
  BY <1>1, ConstantsAssumption DEF Base, TypeOK, LockInv, NoisePanics
<1>5. NamesInv'
  BY DEF Base, NamesInv, NoisePanics
<1>6. QED
  BY <1>1, <1>2, <1>3, <1>4, <1>5 DEF Base

LEMMA ReturnHolds ==
    ASSUME Base, NEW t \in Scrapes, Return(t)
    PROVE  Base' /\ pc[t] = "filtering" /\ mutex = t
           /\ work.at = Len(series[t]) + 1
<1>1. mutex = t /\ pc[t] = "filtering" /\ Idle \in Ended
  BY DEF Return, Base, LockInv, Idle, Ended
<1>2. work.samples \in SUBSET Samples
  BY DEF Base, TypeOK, Works, Ended
<1>3. AllThrough
  BY <1>1, SeriesFacts, ConstantsAssumption DEF Base, LockInv, InHand, Return
<1>4. TypeOK'
  BY <1>1, <1>2 DEF Base, TypeOK, Return, PcLabels
<1>5. ClockInv'
  BY <1>1 DEF Base, TypeOK, ClockInv, Return, Started
<1>6. LockInv'
  BY <1>1, ConstantsAssumption DEF Base, TypeOK, LockInv, Return
<1>7. NamesInv'
  BY DEF Base, NamesInv, Return
<1>8. QED
  BY <1>1, <1>3, <1>4, <1>5, <1>6, <1>7 DEF Base, AllThrough

LEMMA TickHolds ==
    ASSUME Base, Tick
    PROVE  Base'
<1>1. TypeOK'
  BY DEF Base, TypeOK, Tick
<1>2. ClockInv'
  BY SetupFacts DEF Base, TypeOK, ClockInv, Tick, Started
<1>3. LockInv' /\ NamesInv'
  BY DEF Base, LockInv, NamesInv, InHand, AllThrough, Tick, rules
<1>4. QED
  BY <1>1, <1>2, <1>3 DEF Base

LEMMA StutterHolds == Base /\ UNCHANGED vars => Base'
  BY DEF vars, Base, TypeOK, ClockInv, LockInv, NamesInv, InHand, AllThrough, Started, rules

LEMMA NextBase == Base /\ [Next]_vars => Base'
  BY RuleStep, RuleDoneHolds, SampleDoneHolds, FetchHolds, BeginHolds, LockHolds,
     LockPanicsHolds, NoisePanicsHolds, ReturnHolds, TickHolds, StutterHolds
  DEF Next, AtRest

\* The invariant of the clock and the lock.
THEOREM BaseHolds == Spec => []Base
  BY InitBase, NextBase, PTL DEF Spec

\* apply_filters stays within its rules and its samples.
THEOREM TypeCorrect == Spec => []TypeOK
<1>1. Base => TypeOK
  BY DEF Base
<1>2. QED
  BY <1>1, BaseHolds, PTL

\* Once a holder of the lock has panicked, lock().unwrap() lets nobody in: no scrape
\* returns anything any more.
THEOREM PoisonStays == Spec => PoisonIsForGood
<1>1. ASSUME Base, [Next]_vars, poisoned PROVE published' = published
  <2>1. mutex = Nobody
    BY <1>1 DEF Base, LockInv
  <2>2. \A t \in Scrapes : ~Return(t)
    BY <2>1, ConstantsAssumption DEF Return
  <2>3. ~HasSample
    BY <2>1 DEF HasSample
  <2>4. QED
    BY <1>1, <2>2, <2>3
    DEF Next, Fetch, Begin, Lock, LockPanics, NoMatch, Keep, Drop, ReduceHit, ReduceMiss,
        AddNoise, NoisePanics, Applies, SampleDone, Tick, AtRest, vars
<1>2. QED
  BY <1>1, BaseHolds, PTL DEF Spec, PoisonIsForGood

\* A scrape has panicked over an amplitude.
Earned == \E u \in Scrapes : /\ pc[u] = "panicked"
                             /\ \E i \in 1..Len(series[u]) : Unblurrable(series[u][i])
PanicInv == (poisoned \/ \E t \in Scrapes : pc[t] = "panicked") => Earned

\* Who has panicked stays so, and nobody else panics but at the noise or the lock.
LEMMA PanicsStay ==
    ASSUME Base, [Next]_vars
    PROVE  /\ setup' = setup
           /\ \A t \in Scrapes : pc[t] = "panicked" =>
                 pc'[t] = "panicked" /\ series'[t] = series[t]
           /\ \/ NoisePanics \/ \E t \in Scrapes : LockPanics(t)
              \/ /\ poisoned' = poisoned
                 /\ \A t \in Scrapes : pc'[t] = "panicked" => pc[t] = "panicked"
<1> USE DEF Base, TypeOK
<1>1. ASSUME NEW t \in Scrapes, \/ \E s \in setup.serves : Fetch(t, s)
                                \/ Begin(t) \/ Lock(t)
      PROVE  /\ UNCHANGED <<setup, poisoned>>
             /\ \A u \in Scrapes : /\ pc[u] = "panicked" <=> pc'[u] = "panicked"
                                   /\ pc[u] = "panicked" => series'[u] = series[u]
  BY <1>1 DEF Fetch, Begin, Lock
<1>2. ASSUME NEW t \in Scrapes, LockPanics(t)
      PROVE  /\ UNCHANGED <<setup, series>>
             /\ \A u \in Scrapes : pc[u] = "panicked" => pc'[u] = "panicked"
  BY <1>2 DEF LockPanics
<1>3. CASE NoisePanics
  <2>1. pc[mutex] = "filtering" /\ mutex \in Scrapes
    BY <1>3, NoisePanicsHolds
  <2>2. QED
    BY <1>3, <2>1 DEF NoisePanics
<1>4. ASSUME NEW t \in Scrapes, Return(t)
      PROVE  /\ UNCHANGED <<setup, poisoned, series>>
             /\ \A u \in Scrapes : pc[u] = "panicked" <=> pc'[u] = "panicked"
  <2>1. pc[t] = "filtering"
    BY <1>4, ReturnHolds
  <2>2. QED
    BY <1>4, <2>1 DEF Return
<1>5. CASE UNCHANGED <<setup, pc, series, poisoned>>
  BY <1>5
<1>6. CASE NoMatch \/ Keep \/ Drop \/ ReduceHit \/ ReduceMiss \/ AddNoise
  BY <1>5, <1>6, RuleStep DEF RuleDone
<1>7. CASE SampleDone \/ Tick \/ UNCHANGED vars
  BY <1>5, <1>7 DEF SampleDone, Tick, vars
<1>8. QED
  BY <1>1, <1>2, <1>3, <1>4, <1>6, <1>7 DEF Next, AtRest

\* SampleCacheStore::get and the rest of apply_filters do not panic: whatever the clock
\* and the store, a scrape that panics does so over an amplitude that leaves nothing to
\* draw from, its own or that of the scrape that poisoned the lock.
THEOREM PanicsHaveCause == Spec => []PanicsAreEarned
<1>1. Init => PanicInv
  BY DEF Init, PanicInv
<1>2. ASSUME Base, PanicInv, [Next]_vars PROVE PanicInv'
  <2>1. ASSUME Earned PROVE Earned'
    <3>1. PICK u \in Scrapes : /\ pc[u] = "panicked"
                               /\ \E i \in 1..Len(series[u]) : Unblurrable(series[u][i])
      BY <2>1 DEF Earned
    <3>2. pc'[u] = "panicked" /\ series'[u] = series[u] /\ rules' = rules
      BY <1>2, <3>1, PanicsStay DEF rules
    <3>3. QED
      BY <3>1, <3>2 DEF Earned, Unblurrable, RulesOn
  <2>2. CASE NoisePanics
    <3>1. /\ mutex \in Scrapes /\ work.at \in 1..Len(series[mutex])
          /\ work.sample.name = series[mutex][work.at]
          /\ work.rule \in 1..Len(rules) + 1 /\ Len(rules) \in Nat
      BY <1>2, <2>2, SampleFacts, SetupFacts DEF NoisePanics, Applies, Base
    <3>2. work.rule \in RulesOn(work.sample.name, "noise")
      BY <2>2, <3>1 DEF NoisePanics, Applies, Rule, RulesOn
    <3>3. Unblurrable(series[mutex][work.at])
      BY <2>2, <3>1, <3>2 DEF NoisePanics, Rule, Unblurrable
    <3>4. /\ pc' = [pc EXCEPT ![mutex] = "panicked"] /\ series' = series
          /\ rules' = rules /\ pc'[mutex] = "panicked"
      BY <1>2, <2>2, <3>1 DEF NoisePanics, rules, Base, TypeOK
    <3>5. Earned'
      BY <3>1, <3>3, <3>4 DEF Earned, Unblurrable, RulesOn
    <3>6. QED
      BY <3>5 DEF PanicInv
  <2>3. CASE \E t \in Scrapes : LockPanics(t)
    <3>1. Earned
      BY <1>2, <2>3 DEF LockPanics, PanicInv
    <3>2. QED
      BY <2>1, <3>1 DEF PanicInv
  <2>4. CASE /\ poisoned' = poisoned
             /\ \A t \in Scrapes : pc'[t] = "panicked" => pc[t] = "panicked"
    BY <1>2, <2>1, <2>4 DEF PanicInv
  <2>5. QED
    BY <1>2, <2>2, <2>3, <2>4, PanicsStay
<1>3. PanicInv => PanicsAreEarned
  BY DEF PanicInv, PanicsAreEarned, Earned
<1>4. QED
  BY <1>1, <1>2, <1>3, BaseHolds, PTL DEF Spec

-----------------------------------------------------------------------------
(***************************************************************************)
(* The samples.                                                            *)
(***************************************************************************)
\* What a scrape has kept so far, and returns in the end.
Out(t) == IF mutex = t THEN work.samples ELSE published[t]

\* The rules of the given action that the sample in hand has been through.
Past(action) == {i \in RulesOn(work.sample.name, action) : i < work.rule}

Missed(i) == ~Fresh(work.sample.name, stamp[mutex], rules[i].resolution)

EntriesInv ==
    \A n \in Names : cache[n] # NoEntry =>
        /\ Started(cache[n].sample.of)
        /\ ClockIsOld(n) => stamp[cache[n].sample.of] <= cache[n].savedAt
        /\ cache[n].savedAt <= now
OutInv == \A t \in Scrapes : \A s \in Out(t) : Started(s.of) /\ Started(t)

\* The sample in hand is the scrape's own, looked up in vain by every rule so far, or
\* it is the stored one.
Own == /\ work.sample.of = mutex
       /\ \A i \in Past("reduce") : Missed(i)
       /\ Past("reduce") # {} => work.mustCache
Stored == /\ \E i \in Past("reduce") : ~Missed(i)
          /\ work.sample.of = cache[work.sample.name].sample.of
          /\ NoiseFirst(work.sample.name) => work.sample = cache[work.sample.name].sample
HandInv == HasSample =>
    /\ Own \/ Stored
    /\ work.mustCache => \E i \in Past("reduce") : Missed(i)

SamplesInv == EntriesInv /\ OutInv /\ HandInv

\* What every step leaves as it was: the past of the scrapes.
Steady ==
    /\ setup' = setup
    /\ now <= now'
    /\ \A t \in Scrapes :
          /\ Started(t) => /\ Started(t)' /\ stamp'[t] = stamp[t]
                           /\ readAt'[t] = readAt[t] /\ series'[t] = series[t]
          /\ pc[t] = "done" => pc'[t] = "done" /\ doneAt'[t] = doneAt[t]

\* A step that adds nothing to the store or to what a scrape has kept.
Quiet == Steady /\ cache' = cache /\ \A t \in Scrapes : Out(t)' \subseteq Out(t)

LEMMA StepKind == Base /\ [Next]_vars => Quiet \/ SampleDone
<1> SUFFICES ASSUME Base, [Next]_vars, ~SampleDone PROVE Quiet
  OBVIOUS
<1>1. now \in Nat /\ now <= now
  BY DEF Base, TypeOK
<1>2. ASSUME NEW t \in Scrapes, NEW s \in setup.serves, Fetch(t, s) PROVE Quiet
  BY <1>1, <1>2 DEF Quiet, Steady, Started, Fetch, Base, TypeOK, Out
<1>3. ASSUME NEW t \in Scrapes, Begin(t) PROVE Quiet
  BY <1>1, <1>3 DEF Quiet, Steady, Started, Begin, Base, TypeOK, Out
<1>4. ASSUME NEW t \in Scrapes, Lock(t) PROVE Quiet
  <2>1. work'.samples = {}
    BY <1>4, LockHolds DEF Lock
  <2>2. QED
    BY <1>1, <1>4, <2>1, ConstantsAssumption
    DEF Quiet, Steady, Started, Lock, Base, TypeOK, Out
<1>5. ASSUME NEW t \in Scrapes, LockPanics(t) PROVE Quiet
  BY <1>1, <1>5 DEF Quiet, Steady, Started, LockPanics, Base, TypeOK, Out
<1>6. CASE NoMatch \/ Keep \/ Drop \/ ReduceHit \/ ReduceMiss \/ AddNoise
  <2>1. /\ UNCHANGED <<now, setup, pc, series, readAt, stamp, mutex, cache, published,
                       doneAt>>
        /\ work'.samples = work.samples
    BY <1>6, RuleStep, RuleDoneHolds DEF RuleDone
  <2>2. QED
    BY <1>1, <2>1 DEF Quiet, Steady, Started, Out
<1>7. CASE NoisePanics
  BY <1>1, <1>7, NoisePanicsHolds, ConstantsAssumption
  DEF Quiet, Steady, Started, NoisePanics, Base, TypeOK, LockInv, Out
<1>8. ASSUME NEW t \in Scrapes, Return(t) PROVE Quiet
  BY <1>1, <1>8, ReturnHolds, ConstantsAssumption
  DEF Quiet, Steady, Started, Return, Base, TypeOK, Out
<1>9. CASE Tick
  BY <1>1, <1>9 DEF Quiet, Steady, Started, Tick, Out
<1>10. CASE UNCHANGED vars
  BY <1>1, <1>10 DEF Quiet, Steady, Started, vars, Out
<1>11. QED
  BY <1>2, <1>3, <1>4, <1>5, <1>6, <1>7, <1>8, <1>9, <1>10 DEF Next, AtRest

\* What is done with the sample in hand, when all rules have been through it.
LEMMA SampleDoneOut ==
    ASSUME Base, SampleDone
    PROVE  /\ Steady /\ UNCHANGED <<now, mutex, stamp, readAt, pc, published, doneAt>>
           /\ \A t \in Scrapes : t # mutex => Out(t)' = Out(t)
           /\ Out(mutex)' = IF work.keep = "drop" THEN Out(mutex)
                            ELSE Out(mutex) \union {work.sample}
<1>1. /\ UNCHANGED <<now, setup, pc, series, readAt, stamp, mutex, published, doneAt>>
      /\ now \in Nat
  BY DEF SampleDone, Base, TypeOK
<1>2. mutex \in Scrapes
  BY SampleFacts DEF SampleDone
<1>3. QED
  BY <1>1, <1>2, SampleDoneHolds DEF Steady, Started, Out

\* A rule has been looked up in vain, or not.
LEMMA HitsAndMisses ==
    ASSUME Base, HasSample, NEW i \in Past("reduce")
    PROVE  LET e == cache[work.sample.name] IN
           /\ rules[i].resolution \in Nat
           /\ Missed(i) /\ ClockIsOld(work.sample.name) /\ e # NoEntry
                 => e.savedAt + rules[i].resolution <= stamp[mutex]
           /\ ~Missed(i) => /\ e # NoEntry
                            /\ stamp[mutex] < e.savedAt + rules[i].resolution
<1>1. i \in RulesOn(work.sample.name, "reduce") /\ i \in 1..Len(rules)
  BY DEF Past, RulesOn
<1>2. rules[i].resolution \in Nat
  BY <1>1, SetupFacts DEF Base, Rules
<1>3. stamp[mutex] \in Nat /\ setup.uptime \in Nat /\ setup.uptime <= stamp[mutex]
  BY SampleFacts, ClockFacts DEF Started
<1>4. cache[work.sample.name] # NoEntry => cache[work.sample.name].savedAt \in Nat
  BY SampleFacts DEF Base, TypeOK, Entries
<1>5. ClockIsOld(work.sample.name) => rules[i].resolution <= setup.uptime
  BY <1>1, <1>2, <1>3 DEF ClockIsOld
<1>6. QED
  BY <1>2, <1>3, <1>4, <1>5 DEF Missed, Fresh

LEMMA AllPast ==
    ASSUME Base, SampleDone, NEW action
    PROVE  Past(action) = RulesOn(work.sample.name, action)
  BY SampleFacts, SetupFacts DEF SampleDone, Past, RulesOn, Base

\* An entry is only replaced by one that is stored a resolution later.
LEMMA EntryReplaced ==
    ASSUME Base, HandInv, SampleDone, NEW n \in Names, cache'[n] # cache[n]
    PROVE  /\ n = work.sample.name /\ work.keep # "drop" /\ work.mustCache
           /\ cache'[n] = [sample |-> work.sample, savedAt |-> stamp[mutex]]
           /\ \E i \in RulesOn(n, "reduce") : Missed(i)
           /\ ClockIsOld(n) /\ cache[n] # NoEntry =>
                 \E i \in RulesOn(n, "reduce") :
                    cache'[n].savedAt >= cache[n].savedAt + rules[i].resolution
<1>1. /\ n = work.sample.name /\ work.keep # "drop" /\ work.mustCache
      /\ cache'[n] = [sample |-> work.sample, savedAt |-> stamp[mutex]]
  BY SampleDoneHolds
<1>2. PICK i \in Past("reduce") : Missed(i)
  BY <1>1 DEF HandInv, SampleDone
<1>3. i \in RulesOn(n, "reduce")
  BY <1>1, <1>2 DEF Past
<1>4. ClockIsOld(n) /\ cache[n] # NoEntry =>
         cache'[n].savedAt >= cache[n].savedAt + rules[i].resolution
  <2>1. cache'[n].savedAt = stamp[mutex]
    BY <1>1
  <2>2. ASSUME ClockIsOld(n), cache[n] # NoEntry
        PROVE  cache[n].savedAt + rules[i].resolution <= stamp[mutex]
    BY <1>1, <1>2, <2>2, HitsAndMisses DEF SampleDone
  <2>3. stamp[mutex] \in Nat /\ rules[i].resolution \in Nat
    BY <1>2, SampleFacts, HitsAndMisses DEF SampleDone, Base, TypeOK
  <2>4. cache[n] # NoEntry => cache[n].savedAt \in Nat
    BY DEF Base, TypeOK, Entries
  <2>5. QED
    BY <2>1, <2>2, <2>3, <2>4
<1>5. QED
  BY <1>1, <1>2, <1>3, <1>4

LEMMA EntriesHold == Base /\ SamplesInv /\ [Next]_vars => EntriesInv'
<1> SUFFICES ASSUME Base, SamplesInv, [Next]_vars, NEW n \in Names, cache'[n] # NoEntry
             PROVE  /\ pc'[cache'[n].sample.of] \notin {"idle", "fetched"}
                    /\ ClockIsOld(n)' =>
                          stamp'[cache'[n].sample.of] <= cache'[n].savedAt
                    /\ cache'[n].savedAt <= now'
  BY DEF EntriesInv, Started
<1>1. Steady
  BY StepKind, SampleDoneOut DEF Quiet
<1>2. ClockIsOld(n)' <=> ClockIsOld(n)
  BY <1>1 DEF Steady, ClockIsOld, RulesOn, rules
<1>3. CASE cache'[n] = cache[n]
  <2>1. cache[n] \in Entries
    BY <1>3 DEF Base, TypeOK
  <2>2. cache[n].sample.of \in Scrapes /\ cache[n].savedAt \in Nat /\ now \in Nat
    BY <2>1 DEF Entries, Samples, Base, TypeOK
  <2>3. now' \in Nat
    BY NextBase DEF Base, TypeOK
  <2>4. QED
    BY <1>1, <1>2, <1>3, <2>2, <2>3 DEF SamplesInv, EntriesInv, Steady, Started
<1>4. CASE cache'[n] # cache[n]
  <2> DEFINE of == work.sample.of
             e  == cache[n]
  <2>1. SampleDone /\ HasSample
    BY <1>4, StepKind DEF Quiet, SampleDone
  <2>2. /\ n = work.sample.name
        /\ cache'[n] = [sample |-> work.sample, savedAt |-> stamp[mutex]]
        /\ \E i \in RulesOn(n, "reduce") : Missed(i)
    BY <1>4, <2>1, EntryReplaced DEF SamplesInv
  <2>3. cache'[n].sample.of = of /\ cache'[n].savedAt = stamp[mutex]
    BY <2>2
  <2>4. mutex \in Scrapes /\ Started(mutex) /\ of \in Scrapes
    BY <2>1, SampleFacts DEF Started, Samples
  <2>5. stamp[mutex] \in Nat /\ stamp[mutex] <= now
    BY <2>4, ClockFacts
  <2>6. Started(of) /\ (ClockIsOld(n) => stamp[of] <= stamp[mutex])
    <3>1. CASE Own
      BY <2>4, <2>5, <3>1 DEF Own
    <3>2. CASE Stored
      <4>1. of = e.sample.of /\ e # NoEntry
        BY <2>1, <2>2, <3>2, HitsAndMisses DEF Stored
      <4>2. e \in Entries /\ e.savedAt \in Nat
        BY <4>1 DEF Base, TypeOK, Entries
      <4>3. ASSUME ClockIsOld(n) PROVE stamp[of] <= stamp[mutex]
        <5>1. PICK i \in Past("reduce") : Missed(i)
          BY <2>1, <2>2, AllPast
        <5>2. e.savedAt + rules[i].resolution <= stamp[mutex] /\ rules[i].resolution \in Nat
          BY <2>1, <2>2, <4>1, <4>3, <5>1, HitsAndMisses
        <5>3. stamp[of] <= e.savedAt /\ stamp[of] \in Nat
          BY <2>4, <4>1, <4>3 DEF SamplesInv, EntriesInv, Base, TypeOK
        <5>4. QED
          BY <2>5, <4>2, <5>2, <5>3
      <4>4. QED
        BY <4>1, <4>3 DEF SamplesInv, EntriesInv
    <3>3. QED
      BY <2>1, <3>1, <3>2 DEF SamplesInv, HandInv
  <2>7. stamp' = stamp /\ now' = now /\ pc' = pc
    BY <2>1, SampleDoneOut
  <2>8. QED
    BY <1>2, <2>3, <2>5, <2>6, <2>7 DEF Started
<1>5. QED
  BY <1>3, <1>4

LEMMA OutHolds == Base /\ SamplesInv /\ [Next]_vars => OutInv'
<1> SUFFICES ASSUME Base, SamplesInv, [Next]_vars, NEW t \in Scrapes, NEW s \in Out(t)'
             PROVE  Started(s.of)' /\ Started(t)'
  BY DEF OutInv
<1>1. Steady
  BY StepKind, SampleDoneOut DEF Quiet
<1>2. CASE s \in Out(t)
  <2>1. Out(t) \subseteq Samples
    BY DEF Out, Base, TypeOK, Works, Ended
  <2>2. s.of \in Scrapes /\ Started(s.of) /\ Started(t)
    BY <1>2, <2>1 DEF Samples, SamplesInv, OutInv
  <2>3. QED
    BY <1>1, <2>2 DEF Steady
<1>3. CASE s \notin Out(t)
  <2>1. SampleDone /\ HasSample /\ t = mutex /\ s = work.sample
    BY <1>3, StepKind, SampleDoneOut DEF Quiet, SampleDone
  <2>2. Started(t) /\ work.sample.of \in Scrapes
    BY <2>1, SampleFacts DEF Started, Samples
  <2>3. Started(work.sample.of)
    <3>1. CASE Own
      BY <2>1, <2>2, <3>1 DEF Own
    <3>2. CASE Stored
      <4>1. cache[work.sample.name] # NoEntry
        BY <2>1, <3>2, HitsAndMisses DEF Stored
      <4>2. QED
        BY <2>1, <3>2, <4>1, SampleFacts DEF Stored, SamplesInv, EntriesInv
    <3>3. QED
      BY <2>1, <3>1, <3>2 DEF SamplesInv, HandInv
  <2>4. QED
    BY <1>1, <2>1, <2>2, <2>3 DEF Steady
<1>4. QED
  BY <1>2, <1>3

\* The next sample has not been through any rule.
LEMMA FirstPast ==
    ASSUME Base', work'.rule = 1, NEW action
    PROVE  Past(action)' = {}
<1>1. rules' \in Seq(Rules)
  BY ConstantsAssumption DEF Base, TypeOK, rules
<1>2. Len(rules') \in Nat
  BY <1>1, LenProperties
<1>3. QED
  BY <1>2 DEF Past, RulesOn

LEMMA FirstInHand ==
    ASSUME Base, Base', HasSample', NEW t \in Scrapes, mutex' = t, NEW i \in Nat, NEW kept,
           work' = Fetched(t, i, kept), series' = series
    PROVE  /\ work'.rule = 1 /\ work'.keep = "unset" /\ ~work'.mustCache
           /\ work'.sample.name = series[t][i] /\ work'.sample.of = t
           /\ work'.sample.noise = 0
<1>1. i <= Len(series'[t])
  BY FetchedParts DEF HasSample, Fetched
<1>2. work' = [at |-> i, rule |-> 1, keep |-> "unset", mustCache |-> FALSE,
               samples |-> kept,
               sample |-> [name |-> series[t][i], of |-> t, noise |-> 0]]
  BY <1>1, SeriesFacts DEF Fetched, Base, TypeOK
<1>3. QED
  BY <1>2

\* The step takes a sample in hand.
First == /\ ~work'.mustCache /\ work'.keep = "unset" /\ work'.rule = 1
         /\ work'.sample.of = mutex' /\ work'.sample.noise = 0

\* How the sample in hand and what it has been through may change.
LEMMA NextInHand ==
    ASSUME Base, [Next]_vars, HasSample'
    PROVE  \/ /\ UNCHANGED <<mutex, work, cache>> /\ Steady /\ HasSample
           \/ /\ NoMatch \/ Keep \/ Drop \/ ReduceHit \/ ReduceMiss \/ AddNoise
           \/ First
<1>1. Base'
  BY NextBase
<1>2. mutex' # Nobody
  BY DEF HasSample
<1>3. ASSUME NEW t \in Scrapes, Lock(t)
      PROVE  First
  <2>1. mutex' = t /\ work' = Fetched(t, 1, {}) /\ series' = series
    BY <1>3 DEF Lock
  <2>2. QED
    BY <1>1, <2>1, FirstInHand DEF First
<1>4. ASSUME SampleDone
      PROVE  First
  <2>1. mutex \in Scrapes /\ work.at + 1 \in Nat
    BY <1>4, SampleFacts, SeriesFacts DEF SampleDone, Base
  <2>2. /\ mutex' = mutex /\ series' = series
        /\ work' = Fetched(mutex, work.at + 1, work'.samples)
    BY <1>4, SampleDoneHolds DEF SampleDone
  <2>3. PICK t \in Scrapes, j \in Nat : t = mutex /\ j = work.at + 1
    BY <2>1
  <2>4. QED
    BY <1>1, <2>2, <2>3, FirstInHand DEF First
<1>5. ASSUME NEW t \in Scrapes,
             \/ \E s \in setup.serves : Fetch(t, s)
             \/ Begin(t) \/ LockPanics(t)
      PROVE  UNCHANGED <<mutex, work, cache>> /\ Steady /\ HasSample
  <2>1. UNCHANGED <<mutex, work, cache>> /\ ~SampleDone
    BY <1>5 DEF Fetch, Begin, LockPanics, SampleDone, Base, TypeOK
  <2>2. Steady
    BY <2>1, StepKind DEF Quiet
  <2>3. pc[mutex] = "filtering"
    BY <1>2, <2>1 DEF Base, LockInv, TypeOK
  <2>4. series'[mutex] = series[mutex]
    BY <1>2, <2>1, <2>2, <2>3 DEF Steady, Started, Base, TypeOK
  <2>5. QED
    BY <2>1, <2>2, <2>4 DEF HasSample
<1>6. ASSUME Tick \/ UNCHANGED vars
      PROVE  UNCHANGED <<mutex, work, cache>> /\ Steady /\ HasSample
  <2>1. UNCHANGED <<mutex, work, cache, series, setup, pc, stamp, readAt, doneAt>>
        /\ now <= now'
    BY <1>6 DEF Tick, vars, Base, TypeOK
  <2>2. QED
    BY <2>1 DEF HasSample, Steady, Started
<1>7. ASSUME NoisePanics \/ (\E t \in Scrapes : Return(t)) PROVE FALSE
  BY <1>2, <1>7 DEF NoisePanics, Return
<1>8. QED
  BY <1>3, <1>4, <1>5, <1>6, <1>7 DEF Next, AtRest

\* A rule joins those that the sample has been through.
LEMMA PastGrows ==
    ASSUME Base, NEW action, NoMatch \/ Keep \/ Drop \/ ReduceHit \/ ReduceMiss \/ AddNoise
    PROVE  /\ work'.sample.name = work.sample.name
           /\ work.rule \in 1..Len(rules)
           /\ UNCHANGED <<now, setup, pc, series, readAt, stamp, mutex, cache>>
           /\ work.rule \in RulesOn(work.sample.name, action)
                 <=> /\ Rule.action = action
                     /\ work.sample.name \in Rule.matches
           /\ Past(action)' = IF work.rule \in RulesOn(work.sample.name, action)
                                THEN Past(action) \union {work.rule}
                              ELSE Past(action)
<1>1. /\ work'.sample.name = work.sample.name /\ work'.rule = work.rule + 1
      /\ UNCHANGED <<now, setup, pc, series, readAt, stamp, mutex, cache>>
      /\ HasSample /\ work.rule <= Len(rules)
  BY RuleStep, RuleDoneHolds DEF RuleDone
<1>2. work.rule \in 1..Len(rules) /\ Len(rules) \in Nat
  BY <1>1, SampleFacts, SetupFacts DEF Base
<1>3. work.rule \in RulesOn(work.sample.name, action)
         <=> Rule.action = action /\ work.sample.name \in Rule.matches
  BY <1>2 DEF RulesOn, Rule
<1>4. \A i \in 1..Len(rules) : i < work.rule + 1 <=> i < work.rule \/ i = work.rule
  BY <1>2
<1>5. Past(action)' = {i \in RulesOn(work.sample.name, action) : i < work.rule + 1}
  BY <1>1 DEF Past, RulesOn, rules
<1>6. QED
  BY <1>1, <1>2, <1>3, <1>4, <1>5 DEF Past, RulesOn

LEMMA HandHolds == Base /\ HandInv /\ [Next]_vars => HandInv'
<1> SUFFICES ASSUME Base, HandInv, [Next]_vars, HasSample'
             PROVE  /\ Own' \/ Stored'
                    /\ work'.mustCache => \E i \in Past("reduce")' : Missed(i)'
  BY DEF HandInv
<1>1. CASE First
  BY <1>1, FirstPast, NextBase DEF First, Own
<1>2. CASE UNCHANGED <<mutex, work, cache>> /\ Steady /\ HasSample
  <2>1. stamp'[mutex] = stamp[mutex] /\ setup' = setup
    BY <1>2, SampleFacts DEF Steady, Started
  <2>2. \A i \in Past("reduce") : Missed(i)' <=> Missed(i)
    BY <1>2, <2>1 DEF Missed, Fresh, rules
  <2>3. Past("reduce")' = Past("reduce")
    BY <1>2, <2>1 DEF Past, RulesOn, rules
  <2>4. NoiseFirst(work.sample.name)' <=> NoiseFirst(work.sample.name)
    BY <1>2, <2>1 DEF NoiseFirst, RulesOn, rules
  <2>5. QED
    BY <1>2, <2>2, <2>3, <2>4 DEF HandInv, Own, Stored
<1>3. CASE NoMatch \/ Keep \/ Drop \/ ReduceHit \/ ReduceMiss \/ AddNoise
  <2> DEFINE n == work.sample.name
             r == work.rule
             P == Past("reduce")
  <2>1. /\ work'.sample.name = n /\ r \in 1..Len(rules)
        /\ UNCHANGED <<now, setup, pc, series, readAt, stamp, mutex, cache>>
        /\ r \in RulesOn(n, "reduce") <=> Rule.action = "reduce" /\ n \in Rule.matches
        /\ r \in RulesOn(n, "noise") <=> Rule.action = "noise" /\ n \in Rule.matches
        /\ Past("reduce")' = IF r \in RulesOn(n, "reduce") THEN P \union {r} ELSE P
    BY <1>3, PastGrows
  <2>2. \A i : Missed(i)' <=> Missed(i)
    BY <2>1 DEF Missed, Fresh, rules
  <2>3. NoiseFirst(n)' <=> NoiseFirst(n)
    BY <2>1 DEF NoiseFirst, RulesOn, rules
  <2>4. /\ Own \/ Stored
        /\ work.mustCache => \E i \in P : Missed(i)
    BY <1>3, RuleStep DEF HandInv
  <2>5. HasSample /\ work.rule <= Len(rules) /\ work.sample \in Samples /\ work \in Works
    BY <1>3, RuleStep, SampleFacts
  <2>6. CASE NoMatch \/ Keep \/ Drop
    <3>1. work'.sample = work.sample /\ work'.mustCache = work.mustCache
      <4>1. work.keep \in {"unset", "keep", "drop"} /\ work.mustCache \in BOOLEAN
        BY <2>5 DEF Works
      <4>2. QED
        BY <2>5, <2>6, <4>1, RuleDoneHolds DEF NoMatch, Keep, Drop
    <3>2. Past("reduce")' = P
      BY <2>1, <2>6 DEF NoMatch, Keep, Drop, Applies
    <3>3. QED
      BY <2>1, <2>2, <2>3, <2>4, <3>1, <3>2 DEF Own, Stored
  <2>7. CASE AddNoise
    <3>1. PICK x \in Draws(Rule.amplitude) :
             RuleDone([work.sample EXCEPT !.noise = @ + Quantized(x, Rule.quantum)],
                      work.keep, work.mustCache)
      BY <2>7 DEF AddNoise
    <3>2. work'.sample.of = work.sample.of /\ work'.mustCache = work.mustCache
      BY <2>5, <3>1 DEF RuleDone, Works, Samples
    <3>3. Past("reduce")' = P /\ r \in RulesOn(n, "noise")
      BY <2>1, <2>7 DEF AddNoise, Applies
    <3>4. CASE Own
      BY <2>1, <2>2, <2>4, <3>2, <3>3, <3>4 DEF Own
    <3>5. CASE Stored
      <4>1. PICK i \in P : ~Missed(i)
        BY <3>5 DEF Stored
      <4>2. i \in RulesOn(n, "reduce") /\ i < r /\ i \in Nat
        BY DEF Past, RulesOn
      <4>3. ~NoiseFirst(n)
        BY <2>1, <3>3, <4>2 DEF NoiseFirst
      <4>4. Stored'
        BY <2>1, <2>2, <2>3, <3>2, <3>3, <3>5, <4>3 DEF Stored
      <4>5. QED
        BY <2>2, <2>4, <3>2, <3>3, <4>4
    <3>6. QED
      BY <2>4, <3>4, <3>5
  <2>8. CASE ReduceHit
    <3>1. work'.sample = cache[n].sample /\ work'.mustCache = work.mustCache
      BY <2>5, <2>8 DEF ReduceHit, RuleDone, Works
    <3>2. Past("reduce")' = P \union {r} /\ ~Missed(r)
      BY <2>1, <2>8 DEF ReduceHit, Applies, Missed, Rule
    <3>3. Stored'
      BY <2>1, <2>2, <3>1, <3>2 DEF Stored
    <3>4. QED
      BY <2>2, <2>4, <3>1, <3>2, <3>3
  <2>9. CASE ReduceMiss
    <3>1. work'.sample = work.sample /\ work'.mustCache
      BY <2>5, <2>9 DEF ReduceMiss, RuleDone, Works
    <3>2. Past("reduce")' = P \union {r} /\ Missed(r)
      BY <2>1, <2>9 DEF ReduceMiss, Applies, Missed, Rule
    <3>3. QED
      BY <2>1, <2>2, <2>3, <2>4, <3>1, <3>2 DEF Own, Stored
  <2>10. QED
    BY <1>3, <2>6, <2>7, <2>8, <2>9
<1>4. QED
  BY <1>1, <1>2, <1>3, NextInHand

LEMMA InitSamples == Init => SamplesInv
  BY ConstantsAssumption
  DEF Init, SamplesInv, EntriesInv, OutInv, HandInv, Out, HasSample

\* Where the samples in the store, in hand and in what is kept come from, at every step
\* of the loops of apply_filters.
THEOREM SamplesHold == Spec => []SamplesInv
<1>1. SamplesInv /\ Base /\ [Next]_vars => SamplesInv'
  BY EntriesHold, OutHolds, HandHolds DEF SamplesInv
<1>2. QED
  BY <1>1, InitSamples, BaseHolds, PTL DEF Spec

\* SampleCacheStore::put replaces an entry a resolution after it was saved, and never
\* by a scrape that read the clock before, whatever order they got the lock in.
THEOREM EntriesAreKept == Spec => EntriesLast
<1>1. ASSUME Base, HandInv, [Next]_vars, NEW n \in Names,
             cache[n] # NoEntry, cache'[n] # cache[n], ClockIsOld(n)
      PROVE  \E i \in RulesOn(n, "reduce") :
                cache'[n].savedAt >= cache[n].savedAt + rules[i].resolution
  BY <1>1, StepKind, EntryReplaced DEF Quiet
<1>2. Base /\ SamplesInv /\ [Next]_vars =>
        [\A n \in Names :
          (cache[n] # NoEntry /\ cache'[n] # cache[n] /\ ClockIsOld(n)) =>
              \E i \in RulesOn(n, "reduce") :
                  cache'[n].savedAt >= cache[n].savedAt + rules[i].resolution]_vars
  BY <1>1 DEF SamplesInv
<1>3. QED
  BY <1>2, BaseHolds, SamplesHold, PTL DEF Spec, EntriesLast

-----------------------------------------------------------------------------
\* The verdict so far is that of the last rule so far.
Verdicts == Past("keep") \union Past("drop")
Through(t) == {series[t][i] : i \in 1..(IF mutex = t THEN work.at - 1 ELSE Len(series[t]))}
VerdictInv ==
    /\ \A n \in Names : IsDropped(n) => cache[n] = NoEntry
    /\ \A t \in Scrapes : pc[t] \in {"filtering", "done"} =>
          {s.name : s \in Out(t)} = {n \in Through(t) : ~IsDropped(n)}
    /\ HasSample =>
          \/ Verdicts = {} /\ work.keep = "unset"
          \/ \E m \in Verdicts : /\ \A i \in Verdicts : i <= m
                                 /\ work.keep = rules[m].action

LEMMA MaxFound ==
    ASSUME NEW S \in SUBSET Int, NEW m \in S, \A i \in S : i <= m
    PROVE  Max(S) = m
<1>1. \A x \in S : (\A y \in S : x >= y) <=> x = m
  OBVIOUS
<1>2. QED
  BY <1>1 DEF Max

\* What the rules say of a setup does not change.
LEMMA SetupStays ==
    ASSUME setup' = setup, NEW n
    PROVE  /\ rules' = rules
           /\ \A action : RulesOn(n, action)' = RulesOn(n, action)
           /\ IsDropped(n)' <=> IsDropped(n)
           /\ NoiseFirst(n)' <=> NoiseFirst(n)
           /\ ClockIsOld(n)' <=> ClockIsOld(n)
  BY DEF rules, RulesOn, IsDropped, NoiseFirst, ClockIsOld

LEMMA VerdictHolds ==
    ASSUME Base, VerdictInv, [Next]_vars, HasSample'
    PROVE  \/ Verdicts' = {} /\ work'.keep = "unset"
           \/ \E m \in Verdicts' : /\ \A i \in Verdicts' : i <= m
                                   /\ work'.keep = rules'[m].action
<1>1. CASE First
  BY <1>1, FirstPast, NextBase DEF First, Verdicts
<1>2. CASE UNCHANGED <<mutex, work, cache>> /\ Steady /\ HasSample
  BY <1>2 DEF Steady, VerdictInv, Verdicts, Past, RulesOn, rules
<1>3. CASE NoMatch \/ Keep \/ Drop \/ ReduceHit \/ ReduceMiss \/ AddNoise
  <2> DEFINE n == work.sample.name
             r == work.rule
             Hits(action) == r \in RulesOn(n, action)
  <2>1. /\ work'.sample.name = n /\ r \in 1..Len(rules) /\ rules' = rules
        /\ Hits("keep") <=> Rule.action = "keep" /\ n \in Rule.matches
        /\ Hits("drop") <=> Rule.action = "drop" /\ n \in Rule.matches
        /\ Past("keep")' = IF Hits("keep") THEN Past("keep") \union {r} ELSE Past("keep")
        /\ Past("drop")' = IF Hits("drop") THEN Past("drop") \union {r} ELSE Past("drop")
    BY <1>3, PastGrows DEF rules
  <2>2. HasSample /\ work \in Works
    BY <1>3, RuleStep, SampleFacts
  <2>3. CASE Keep \/ Drop
    <3>1. /\ work'.keep = Rule.action
          /\ Hits("keep") \/ Hits("drop")
      BY <2>1, <2>2, <2>3 DEF Keep, Drop, Applies, RuleDone, Works
    <3>2. r \in Verdicts' /\ \A i \in Verdicts' : i = r \/ i \in Past("keep") \union Past("drop")
      BY <2>1, <3>1 DEF Verdicts
    <3>3. \A i \in Past("keep") \union Past("drop") : i <= r /\ i \in Int
      BY <2>1 DEF Past, RulesOn
    <3>4. r <= r
      BY <2>1
    <3>5. QED
      BY <2>1, <3>1, <3>2, <3>3, <3>4 DEF Rule
  <2>4. CASE NoMatch \/ ReduceHit \/ ReduceMiss \/ AddNoise
    <3>1. work'.keep = work.keep /\ ~Hits("keep") /\ ~Hits("drop")
      BY <2>1, <2>2, <2>4
      DEF NoMatch, ReduceHit, ReduceMiss, AddNoise, Applies, RuleDone, Works
    <3>2. Verdicts' = Verdicts
      BY <2>1, <3>1 DEF Verdicts
    <3>3. QED
      BY <2>1, <2>2, <3>1, <3>2 DEF VerdictInv
  <2>5. QED
    BY <1>3, <2>3, <2>4
<1>4. QED
  BY <1>1, <1>2, <1>3, NextInHand

\* The last verdict is drop if and only if the last rule with a verdict is.
LEMMA LastVerdict ==
    ASSUME Base, VerdictInv, SampleDone
    PROVE  work.keep = "drop" <=> IsDropped(work.sample.name)
<1> DEFINE n == work.sample.name
           V == RulesOn(n, "keep") \union RulesOn(n, "drop")
<1>1. Verdicts = V
  BY AllPast DEF Verdicts
<1>2. V \in SUBSET Int
  BY DEF RulesOn
<1>3. \/ V = {} /\ work.keep = "unset"
      \/ \E m \in V : (\A i \in V : i <= m) /\ work.keep = rules[m].action
  BY <1>1 DEF VerdictInv, SampleDone
<1>4. CASE V = {} /\ work.keep = "unset"
  BY <1>4 DEF IsDropped
<1>5. ASSUME NEW m \in V, \A i \in V : i <= m, work.keep = rules[m].action
      PROVE  work.keep = "drop" <=> IsDropped(n)
  <2>1. Max(V) = m
    BY <1>2, <1>5, MaxFound
  <2>2. QED
    BY <1>5, <2>1 DEF IsDropped
<1>6. QED
  BY <1>3, <1>4, <1>5

LEMMA DroppedHolds ==
    ASSUME Base, SamplesInv, VerdictInv, [Next]_vars, NEW n \in Names, IsDropped(n)'
    PROVE  cache'[n] = NoEntry
<1>1. setup' = setup
  BY StepKind, SampleDoneOut DEF Quiet, Steady
<1>2. IsDropped(n) /\ cache[n] = NoEntry
  BY <1>1, SetupStays DEF VerdictInv
<1>3. ASSUME cache'[n] # cache[n] PROVE FALSE
  <2>1. SampleDone /\ n = work.sample.name /\ work.keep # "drop"
    BY <1>3, StepKind, EntryReplaced DEF Quiet, SamplesInv
  <2>2. QED
    BY <1>2, <2>1, LastVerdict
<1>4. QED
  BY <1>2, <1>3

LEMMA NamesHold ==
    ASSUME Base, VerdictInv, [Next]_vars, NEW t \in Scrapes, pc'[t] \in {"filtering", "done"}
    PROVE  {s.name : s \in Out(t)'} = {n \in Through(t)' : ~IsDropped(n)'}
<1>1. setup' = setup
  BY StepKind, SampleDoneOut DEF Quiet, Steady
<1>2. \A n : IsDropped(n)' <=> IsDropped(n)
  BY <1>1, SetupStays
<1>3. CASE Out(t)' = Out(t) /\ Through(t)' = Through(t) /\ pc[t] \in {"filtering", "done"}
  BY <1>2, <1>3 DEF VerdictInv
<1>4. ASSUME Lock(t)
      PROVE  {s.name : s \in Out(t)'} = {n \in Through(t)' : ~IsDropped(n)'}
  <2>1. mutex' = t /\ work'.samples = {} /\ work'.at = 1
    BY <1>4, LockHolds DEF Lock
  <2>2. Out(t)' = {} /\ Through(t)' = {}
    BY <2>1 DEF Out, Through
  <2>3. QED
    BY <2>2
<1>5. ASSUME SampleDone, mutex = t
      PROVE  {s.name : s \in Out(t)'} = {n \in Through(t)' : ~IsDropped(n)'}
  <2>1. /\ mutex' = mutex /\ series' = series /\ pc' = pc
        /\ work'.at = work.at + 1 /\ work.at \in Nat \ {0}
        /\ work.sample.name = series[t][work.at]
    BY <1>5, SampleFacts, SeriesFacts, SampleDoneHolds, FetchedParts DEF SampleDone, Base
  <2>2. Through(t)' = Through(t) \union {work.sample.name}
    <3>1. 1..work.at + 1 - 1 = (1..work.at - 1) \union {work.at}
      BY <2>1
    <3>2. QED
      BY <1>5, <2>1, <3>1 DEF Through
  <2>3. Out(t)' = IF work.keep = "drop" THEN Out(t) ELSE Out(t) \union {work.sample}
    BY <1>5, SampleDoneOut
  <2>4. {s.name : s \in Out(t)} = {n \in Through(t) : ~IsDropped(n)}
    BY <1>5, SampleFacts DEF VerdictInv, SampleDone
  <2>5. work.keep = "drop" <=> IsDropped(work.sample.name)
    BY <1>5, LastVerdict
  <2>6. QED
    BY <1>2, <2>2, <2>3, <2>4, <2>5
<1>6. ASSUME Return(t)
      PROVE  {s.name : s \in Out(t)'} = {n \in Through(t)' : ~IsDropped(n)'}
  <2>1. /\ mutex = t /\ mutex' = Nobody /\ t # Nobody /\ series' = series
        /\ work.at = Len(series[t]) + 1 /\ Len(series[t]) \in Nat
        /\ published'[t] = work.samples /\ pc[t] = "filtering"
    BY <1>6, ReturnHolds, SeriesFacts, ConstantsAssumption DEF Return, Base, TypeOK
  <2>2. Len(series[t]) + 1 - 1 = Len(series[t])
    BY <2>1
  <2>3. Out(t)' = Out(t) /\ Through(t)' = Through(t)
    BY <2>1, <2>2 DEF Out, Through
  <2>4. QED
    BY <1>3, <2>1, <2>3
<1>7. ASSUME ~Lock(t), ~Return(t), ~(SampleDone /\ mutex = t)
      PROVE  Out(t)' = Out(t) /\ Through(t)' = Through(t) /\ pc[t] \in {"filtering", "done"}
  <2>1. ASSUME NEW u \in Scrapes, \/ \E s \in setup.serves : Fetch(u, s)
                                  \/ Begin(u) \/ LockPanics(u)
        PROVE  Out(t)' = Out(t) /\ Through(t)' = Through(t) /\ pc[t] \in {"filtering", "done"}
    <3>1. pc \in [Scrapes -> PcLabels] /\ series \in [Scrapes -> Seq(Names)]
      BY DEF Base, TypeOK
    <3>2. \E p \in {"fetched", "locking", "panicked"} : pc' = [pc EXCEPT ![u] = p]
      BY <2>1 DEF Fetch, Begin, LockPanics
    <3>3. u # t /\ pc'[t] = pc[t]
      BY <3>1, <3>2
    <3>4. UNCHANGED <<mutex, work, published>> /\ series'[t] = series[t]
      BY <2>1, <3>1, <3>3 DEF Fetch, Begin, LockPanics
    <3>5. QED
      BY <3>3, <3>4 DEF Out, Through
  <2>2. ASSUME NEW u \in Scrapes, u # t, Lock(u) \/ Return(u)
        PROVE  Out(t)' = Out(t) /\ Through(t)' = Through(t) /\ pc[t] \in {"filtering", "done"}
    BY <2>2, ConstantsAssumption DEF Lock, Return, Out, Through, Base, TypeOK
  <2>3. CASE NoMatch \/ Keep \/ Drop \/ ReduceHit \/ ReduceMiss \/ AddNoise
    <3>1. /\ UNCHANGED <<pc, series, mutex, published>>
          /\ work'.samples = work.samples /\ work'.at = work.at
      BY <2>3, RuleStep, RuleDoneHolds DEF RuleDone
    <3>2. QED
      BY <3>1 DEF Out, Through
  <2>4. CASE SampleDone
    BY <1>7, <2>4, SampleDoneOut DEF SampleDone, Through
  <2>5. CASE NoisePanics
    <3>1. pc \in [Scrapes -> PcLabels] /\ mutex \in Scrapes
      BY <2>5, NoisePanicsHolds DEF Base, TypeOK
    <3>2. /\ pc' = [pc EXCEPT ![mutex] = "panicked"] /\ mutex' = Nobody
          /\ UNCHANGED <<series, published>>
      BY <2>5 DEF NoisePanics
    <3>3. mutex # t /\ pc'[t] = pc[t]
      BY <3>1, <3>2
    <3>4. t # Nobody
      BY ConstantsAssumption
    <3>5. QED
      BY <3>2, <3>3, <3>4 DEF Out, Through
  <2>6. CASE Tick \/ UNCHANGED vars
    BY <2>6 DEF Tick, vars, Out, Through
  <2>7. QED
    BY <1>7, <2>1, <2>2, <2>3, <2>4, <2>5, <2>6 DEF Next, AtRest
<1>8. QED
  BY <1>3, <1>4, <1>5, <1>6, <1>7

LEMMA InitVerdict == Init => VerdictInv
  BY ConstantsAssumption DEF Init, VerdictInv, HasSample

\* After each rule, the verdict on the sample in hand is that of the last keep or drop
\* that matched, and what has been kept so far is what those before it let through.
THEOREM VerdictsInvariant == Spec => []VerdictInv
<1>1. Base /\ SamplesInv /\ VerdictInv /\ [Next]_vars => VerdictInv'
  BY VerdictHolds, DroppedHolds, NamesHold DEF VerdictInv
<1>2. QED
  BY <1>1, InitVerdict, BaseHolds, SamplesHold, PTL DEF Spec

\* The verdicts of drop and keep: the last one decides of every sample, and a sample
\* that is dropped is not stored either.
THEOREM VerdictsAreLast == Spec => []VerdictsHold
<1>1. ASSUME Base, VerdictInv, NEW t \in Scrapes, pc[t] = "done"
      PROVE  {s.name : s \in published[t]} =
                {n \in {series[t][i] : i \in 1..Len(series[t])} : ~IsDropped(n)}
  <2>1. mutex # t
    BY <1>1 DEF Base, LockInv
  <2>2. Out(t) = published[t] /\ Through(t) = {series[t][i] : i \in 1..Len(series[t])}
    BY <2>1 DEF Out, Through
  <2>3. QED
    BY <1>1, <2>2 DEF VerdictInv
<1>2. Base /\ VerdictInv => VerdictsHold
  BY <1>1 DEF VerdictsHold, VerdictInv
<1>3. QED
  BY <1>2, BaseHolds, VerdictsInvariant, PTL

-----------------------------------------------------------------------------
(***************************************************************************)
(* How the store and what is kept move together.                           *)
(***************************************************************************)
\* The only step that adds to them: a sample that is not dropped has been through
\* all rules.
SampleKept == SampleDone /\ work.keep # "drop"

LEMMA QuietOrKept == Base /\ [Next]_vars => Quiet \/ SampleKept
<1>1. ASSUME Base, SampleDone, work.keep = "drop" PROVE Quiet
  <2>1. cache' = cache
    BY <1>1 DEF SampleDone
  <2>2. QED
    BY <1>1, <2>1, SampleDoneOut DEF Quiet
<1>2. QED
  BY <1>1, StepKind DEF SampleKept

LEMMA KeptFacts ==
    ASSUME Base, SamplesInv, SampleKept
    PROVE  LET s == work.sample  n == work.sample.name IN
           /\ setup' = setup /\ now' = now /\ stamp' = stamp /\ readAt' = readAt
           /\ pc' = pc /\ mutex' = mutex /\ published' = published /\ doneAt' = doneAt
           /\ mutex \in Scrapes /\ Started(mutex) /\ pc[mutex] = "filtering"
           /\ n \in Names /\ s.of \in Scrapes
           /\ stamp[mutex] \in Nat /\ HasSample
           /\ \A m \in Names : m # n => cache'[m] = cache[m]
           /\ ~work.mustCache => cache'[n] = cache[n]
           /\ work.mustCache => /\ cache'[n] # NoEntry /\ cache'[n].sample = s
                                /\ cache'[n].savedAt = stamp[mutex]
           /\ \A t \in Scrapes : \A p \in Out(t)' : p \in Out(t) \/ (t = mutex /\ p = s)
           /\ Past("reduce") = RulesOn(n, "reduce")
           /\ Own \/ Stored
<1> DEFINE e == [sample |-> work.sample, savedAt |-> stamp[mutex]]
<1>1. SampleDone /\ HasSample /\ work.keep # "drop"
  BY DEF SampleKept, SampleDone
<1>2. /\ mutex \in Scrapes /\ Started(mutex) /\ pc[mutex] = "filtering"
      /\ work.sample \in Samples /\ work.sample.name \in Names
      /\ work.sample.of \in Scrapes /\ stamp[mutex] \in Nat
  BY <1>1, SampleFacts DEF Started, Samples, Base, TypeOK
<1>3. \A m \in Names : cache'[m] = IF work.mustCache /\ m = work.sample.name THEN e
                                   ELSE cache[m]
  BY <1>1, SampleDoneHolds
<1>4. e # NoEntry /\ e.sample = work.sample /\ e.savedAt = stamp[mutex]
  BY <1>2, NoEntryAssumption DEF Entries
<1>5. \A t \in Scrapes : \A p \in Out(t)' : p \in Out(t) \/ (t = mutex /\ p = work.sample)
  BY <1>1, SampleDoneOut
<1>6. /\ setup' = setup /\ now' = now /\ stamp' = stamp /\ readAt' = readAt
      /\ pc' = pc /\ mutex' = mutex /\ published' = published /\ doneAt' = doneAt
  BY <1>1 DEF SampleDone
<1>7. Past("reduce") = RulesOn(work.sample.name, "reduce")
  BY <1>1, AllPast
<1>8. Own \/ Stored
  BY <1>1 DEF SamplesInv, HandInv
<1> HIDE DEF e
<1>9. QED
  BY <1>1, <1>2, <1>3, <1>4, <1>5, <1>6, <1>7, <1>8

\* A scrape keeps its own value of a metric whose resolution is reduced: it is stored,
\* and the one stored before is older by every resolution.
LEMMA OwnKept ==
    ASSUME Base, SamplesInv, SampleKept, Own, RulesOn(work.sample.name, "reduce") # {}
    PROVE  LET s == work.sample  n == work.sample.name IN
           /\ s.of = mutex /\ cache'[n] # NoEntry /\ cache'[n].sample = s
           /\ cache'[n].savedAt = stamp[mutex]
           /\ ClockIsOld(n) /\ cache[n] # NoEntry =>
                /\ cache[n].savedAt \in Nat /\ cache[n].sample.of \in Scrapes
                /\ stamp[cache[n].sample.of] <= cache[n].savedAt
                /\ \A i \in RulesOn(n, "reduce") :
                      /\ rules[i].resolution \in Nat
                      /\ cache[n].savedAt + rules[i].resolution <= stamp[mutex]
<1> DEFINE n == work.sample.name
<1>1. work.mustCache /\ work.sample.of = mutex
  BY KeptFacts DEF Own
<1>2. ASSUME ClockIsOld(n), cache[n] # NoEntry
      PROVE  /\ cache[n].savedAt \in Nat /\ cache[n].sample.of \in Scrapes
             /\ stamp[cache[n].sample.of] <= cache[n].savedAt
             /\ \A i \in RulesOn(n, "reduce") :
                   /\ rules[i].resolution \in Nat
                   /\ cache[n].savedAt + rules[i].resolution <= stamp[mutex]
  <2>1. n \in Names /\ cache[n] \in Entries
    BY <1>2, KeptFacts DEF Base, TypeOK
  <2>2. cache[n].savedAt \in Nat /\ cache[n].sample.of \in Scrapes
    BY <2>1 DEF Entries, Samples
  <2>3. \A i \in RulesOn(n, "reduce") : i \in Past("reduce") /\ Missed(i)
    BY KeptFacts DEF Own
  <2>4. HasSample
    BY KeptFacts
  <2>5. QED
    BY <1>2, <2>1, <2>2, <2>3, <2>4, HitsAndMisses DEF SamplesInv, EntriesInv
<1>3. QED
  BY <1>1, <1>2, KeptFacts

\* It keeps the one that is stored: the value in the store stays.
LEMMA StoredKept ==
    ASSUME Base, SamplesInv, SampleKept, Stored
    PROVE  LET s == work.sample  n == work.sample.name IN
           /\ cache[n] # NoEntry /\ cache'[n] # NoEntry
           /\ s.of = cache[n].sample.of /\ cache'[n].sample.of = s.of
           /\ NoiseFirst(n) => cache[n].sample = s /\ cache'[n].sample = s
           /\ cache'[n].savedAt \in {cache[n].savedAt, stamp[mutex]}
           /\ cache[n].savedAt \in Nat
           /\ \E i \in RulesOn(n, "reduce") :
                 /\ ~Missed(i) /\ rules[i].resolution \in Nat
                 /\ stamp[mutex] < cache[n].savedAt + rules[i].resolution
<1> DEFINE n == work.sample.name
<1>1. PICK i \in Past("reduce") : ~Missed(i)
  BY DEF Stored
<1>2. HasSample /\ i \in RulesOn(n, "reduce")
  BY <1>1, KeptFacts
<1>3. /\ cache[n] # NoEntry /\ rules[i].resolution \in Nat
      /\ stamp[mutex] < cache[n].savedAt + rules[i].resolution
  BY <1>1, <1>2, HitsAndMisses
<1>4. cache[n].savedAt \in Nat
  BY <1>2, <1>3, SampleFacts DEF Base, TypeOK, Entries
<1>5. /\ work.sample.of = cache[n].sample.of
      /\ NoiseFirst(n) => work.sample = cache[n].sample
  BY DEF Stored
<1>6. \/ cache'[n] = cache[n]
      \/ cache'[n] # NoEntry /\ cache'[n].sample = work.sample
         /\ cache'[n].savedAt = stamp[mutex]
  BY KeptFacts
<1>7. QED
  BY <1>1, <1>2, <1>3, <1>4, <1>5, <1>6

LEMMA OutFacts ==
    ASSUME Base, SamplesInv, NEW t \in Scrapes, NEW p \in Out(t)
    PROVE  /\ p \in Samples /\ p.name \in Names /\ p.of \in Scrapes
           /\ Started(t) /\ Started(p.of) /\ stamp[p.of] \in Nat
<1>1. Out(t) \subseteq Samples
  BY DEF Out, Base, TypeOK, Works, Ended
<1>2. p \in Samples
  BY <1>1
<1>3. QED
  BY <1>2 DEF Samples, SamplesInv, OutInv, Base, TypeOK

LEMMA EntryFacts ==
    ASSUME Base, SamplesInv, NEW n \in Names, cache[n] # NoEntry
    PROVE  /\ cache[n].sample \in Samples /\ cache[n].sample.of \in Scrapes
           /\ cache[n].sample.name = n /\ cache[n].savedAt \in Nat
           /\ Started(cache[n].sample.of) /\ stamp[cache[n].sample.of] \in Nat
           /\ cache[n].savedAt <= now
<1>1. cache[n] \in Entries
  BY DEF Base, TypeOK
<1>2. cache[n].sample \in Samples
  BY <1>1 DEF Entries
<1>3. QED
  BY <1>1, <1>2 DEF Entries, Samples, SamplesInv, EntriesInv, Base, NamesInv, TypeOK

-----------------------------------------------------------------------------
\* Every value seen of a metric is the stored one or a resolution older.
Older(p, n) == \A i \in RulesOn(n, "reduce") :
                  stamp[cache[n].sample.of] >= stamp[p.of] + rules[i].resolution
Apart(p, q) == \A i \in RulesOn(p.name, "reduce") :
                  \/ stamp[p.of] >= stamp[q.of] + rules[i].resolution
                  \/ stamp[q.of] >= stamp[p.of] + rules[i].resolution
Slow(n) == NoiseFirst(n) /\ ClockIsOld(n) /\ RulesOn(n, "reduce") # {}
SlowInv ==
    \A t \in Scrapes : \A p \in Out(t) : Slow(p.name) =>
        /\ cache[p.name] # NoEntry
        /\ p = cache[p.name].sample \/ Older(p, p.name)
        /\ \A u \in Scrapes : \A q \in Out(u) :
              p.name = q.name /\ p # q => Apart(p, q)

LEMMA SlowHolds == Base /\ SamplesInv /\ SlowInv /\ [Next]_vars => SlowInv'
<1> SUFFICES ASSUME Base, SamplesInv, SlowInv, [Next]_vars,
                    NEW t \in Scrapes, NEW p \in Out(t)', Slow(p.name)'
             PROVE  /\ cache'[p.name] # NoEntry
                    /\ p = cache'[p.name].sample \/ Older(p, p.name)'
                    /\ \A u \in Scrapes : \A q \in Out(u)' :
                          p.name = q.name /\ p # q => Apart(p, q)'
  BY DEF SlowInv
<1> DEFINE n == p.name
           Res(i) == rules[i].resolution
<1>1. setup' = setup
  BY StepKind, SampleDoneOut DEF Quiet, Steady
<1>2. /\ Slow(n) /\ NoiseFirst(n) /\ ClockIsOld(n) /\ RulesOn(n, "reduce") # {}
      /\ RulesOn(n, "reduce")' = RulesOn(n, "reduce") /\ rules' = rules
  BY <1>1, SetupStays DEF Slow
<1>3. CASE Quiet
  <2>1. p \in Out(t)
    BY <1>3 DEF Quiet
  <2>2. /\ cache[n] # NoEntry
        /\ p = cache[n].sample \/ Older(p, n)
        /\ \A u \in Scrapes : \A q \in Out(u) : n = q.name /\ p # q => Apart(p, q)
    BY <1>2, <2>1 DEF SlowInv
  <2>3. p.of \in Scrapes /\ p.name \in Names /\ Started(p.of)
    BY <2>1, OutFacts
  <2>4. stamp'[p.of] = stamp[p.of]
    BY <1>3, <2>3 DEF Quiet, Steady
  <2>5. cache[n].sample.of \in Scrapes /\ Started(cache[n].sample.of)
    BY <2>2, <2>3, EntryFacts
  <2>6. stamp'[cache[n].sample.of] = stamp[cache[n].sample.of] /\ cache' = cache
    BY <1>3, <2>5 DEF Quiet, Steady
  <2>7. Older(p, n) => Older(p, n)'
    BY <1>2, <2>4, <2>6 DEF Older
  <2>8. ASSUME NEW u \in Scrapes, NEW q \in Out(u)', n = q.name, p # q
        PROVE  Apart(p, q)'
    <3>1. q \in Out(u)
      BY <1>3 DEF Quiet
    <3>2. q.of \in Scrapes /\ Started(q.of)
      BY <3>1, OutFacts
    <3>3. stamp'[q.of] = stamp[q.of]
      BY <1>3, <3>2 DEF Quiet, Steady
    <3>4. Apart(p, q)
      BY <2>2, <2>8, <3>1
    <3>5. QED
      BY <1>2, <2>4, <3>3, <3>4 DEF Apart
  <2>9. QED
    BY <2>2, <2>6, <2>7, <2>8
<1>4. CASE SampleKept
  <2> DEFINE s == work.sample
  <2>1. /\ stamp' = stamp
        /\ \A m \in Names : m # s.name => cache'[m] = cache[m]
        /\ \A u \in Scrapes : \A q \in Out(u)' : q \in Out(u) \/ q = s
        /\ s.name \in Names /\ s.of \in Scrapes
        /\ Own \/ Stored
    BY <1>4, KeptFacts
  <2>2. CASE n # s.name
    <3>1. p \in Out(t)
      BY <2>1, <2>2
    <3>2. n \in Names
      BY <3>1, OutFacts
    <3>3. cache'[n] = cache[n]
      BY <2>1, <2>2, <3>2
    <3>4. /\ cache[n] # NoEntry
          /\ p = cache[n].sample \/ Older(p, n)
          /\ \A u \in Scrapes : \A q \in Out(u) : n = q.name /\ p # q => Apart(p, q)
      BY <1>2, <3>1 DEF SlowInv
    <3>5. Older(p, n) => Older(p, n)'
      BY <1>2, <2>1, <3>3 DEF Older
    <3>6. ASSUME NEW u \in Scrapes, NEW q \in Out(u)', n = q.name, p # q
          PROVE  Apart(p, q)'
      <4>1. q \in Out(u)
        BY <2>1, <2>2, <3>6
      <4>2. Apart(p, q)
        BY <3>4, <3>6, <4>1
      <4>3. QED
        BY <1>2, <2>1, <4>2 DEF Apart
    <3>7. QED
      BY <3>3, <3>4, <3>5, <3>6
  <2>3. CASE n = s.name
    <3> DEFINE R == RulesOn(n, "reduce")
    <3>1. \A i \in R : Res(i) \in Nat
      BY SetupFacts DEF RulesOn, Rules, Base
    <3>2. cache'[n] # NoEntry /\ cache'[n].sample = s
      BY <1>2, <1>4, <2>1, <2>3, OwnKept, StoredKept
    <3>3. ASSUME NEW u \in Scrapes, NEW q \in Out(u), q.name = n
          PROVE  q = s \/ \A i \in R : stamp[s.of] >= stamp[q.of] + Res(i)
      <4> DEFINE old == cache[n].sample
      <4>1. /\ cache[n] # NoEntry
            /\ q = old \/ \A i \in R : stamp[old.of] >= stamp[q.of] + Res(i)
        BY <1>2, <3>3 DEF SlowInv, Older
      <4>2. stamp[q.of] \in Nat
        BY <3>3, OutFacts
      <4>3. CASE Stored
        <5>1. old = s
          BY <1>2, <1>4, <2>3, <4>3, StoredKept
        <5>2. QED
          BY <4>1, <5>1
      <4>4. CASE Own
        <5>1. /\ stamp[old.of] <= cache[n].savedAt /\ cache[n].savedAt \in Nat
              /\ \A i \in R : cache[n].savedAt + Res(i) <= stamp[mutex]
              /\ s.of = mutex
          BY <1>2, <1>4, <2>3, <4>1, <4>4, OwnKept
        <5>2. stamp[old.of] \in Nat /\ stamp[mutex] \in Nat
          BY <1>4, <2>1, <2>3, <4>1, EntryFacts, KeptFacts
        <5>3. stamp[q.of] <= stamp[old.of]
          <6>1. PICK i \in R : TRUE
            BY <1>2
          <6>2. QED
            BY <3>1, <4>1, <4>2, <5>2, <6>1
        <5>4. ASSUME NEW i \in R PROVE stamp[s.of] >= stamp[q.of] + Res(i)
          BY <3>1, <4>2, <5>1, <5>2, <5>3, <5>4
        <5>5. QED
          BY <5>4
      <4>5. QED
        BY <2>1, <4>3, <4>4
    <3>4. p = s \/ Older(p, n)'
      BY <1>2, <2>1, <3>2, <3>3 DEF Older
    <3>5. ASSUME NEW u \in Scrapes, NEW q \in Out(u)', n = q.name, p # q
          PROVE  Apart(p, q)'
      <4>1. Apart(p, q)' <=> \A i \in R : \/ stamp[p.of] >= stamp[q.of] + Res(i)
                                          \/ stamp[q.of] >= stamp[p.of] + Res(i)
        BY <1>2, <2>1 DEF Apart
      <4>2. CASE p = s
        BY <2>1, <3>3, <3>5, <4>1, <4>2
      <4>3. CASE q = s
        BY <2>1, <3>3, <3>5, <4>1, <4>3
      <4>4. CASE p # s /\ q # s
        <5>1. p \in Out(t) /\ q \in Out(u)
          BY <2>1, <4>4
        <5>2. Apart(p, q)
          BY <1>2, <3>5, <5>1 DEF SlowInv
        <5>3. QED
          BY <4>1, <5>2 DEF Apart
      <4>5. QED
        BY <4>2, <4>3, <4>4
    <3>6. QED
      BY <3>2, <3>4, <3>5
  <2>4. QED
    BY <2>2, <2>3
<1>5. QED
  BY <1>3, <1>4, QuietOrKept

LEMMA InitSlow == Init => SlowInv
  BY ConstantsAssumption DEF Init, SlowInv, Out

\* A returned sample is one that was kept.
LEMMA PublishedIsOut ==
    ASSUME Base, NEW t \in Scrapes
    PROVE  published[t] \subseteq Out(t) /\ (published[t] # {} => pc[t] = "done" /\ mutex # t)
<1>1. published[t] # {} => pc[t] = "done" /\ mutex # t
  BY DEF Base, LockInv
<1>2. QED
  BY <1>1 DEF Out

\* reduce_time_resolution: the values that scrapes return of a metric are a resolution
\* apart, whichever scrapes they are and whatever order they got the lock in.
THEOREM ValuesAreApart == Spec => []ValuesChangeSlowly
<1>1. SlowInv /\ SamplesInv /\ Base /\ [Next]_vars => SlowInv'
  BY SlowHolds
<1>2. ASSUME Base, SlowInv, NEW t \in Scrapes, NEW u \in Scrapes,
             NEW p \in published[t], NEW q \in published[u],
             p.name = q.name, p # q, NoiseFirst(p.name), ClockIsOld(p.name),
             NEW i \in RulesOn(p.name, "reduce")
      PROVE  \/ stamp[p.of] >= stamp[q.of] + rules[i].resolution
             \/ stamp[q.of] >= stamp[p.of] + rules[i].resolution
  <2>1. p \in Out(t) /\ q \in Out(u)
    BY <1>2, PublishedIsOut
  <2>2. Slow(p.name)
    BY <1>2 DEF Slow
  <2>3. Apart(p, q)
    BY <1>2, <2>1, <2>2 DEF SlowInv
  <2>4. QED
    BY <2>3 DEF Apart
<1>3. Base /\ SlowInv => ValuesChangeSlowly
  BY <1>2 DEF ValuesChangeSlowly
<1>4. QED
  BY <1>1, <1>3, InitSlow, BaseHolds, SamplesHold, PTL DEF Spec

-----------------------------------------------------------------------------
OneResolution(n) == \A i, j \in RulesOn(n, "reduce") : rules[i].resolution = rules[j].resolution
ServedInv ==
    /\ \A n \in Names : OneResolution(n) /\ cache[n] # NoEntry =>
          stamp[cache[n].sample.of] = cache[n].savedAt
    /\ \A t \in Scrapes : \A s \in Out(t) : OneResolution(s.name) =>
          \/ s.of = t
          \/ \E i \in RulesOn(s.name, "reduce") : stamp[t] < stamp[s.of] + rules[i].resolution

LEMMA ServedHolds == Base /\ SamplesInv /\ ServedInv /\ [Next]_vars => ServedInv'
<1> SUFFICES ASSUME Base, SamplesInv, ServedInv, [Next]_vars PROVE ServedInv'
  OBVIOUS
<1>1. setup' = setup
  BY StepKind, SampleDoneOut DEF Quiet, Steady
<1>2. \A n : /\ OneResolution(n)' <=> OneResolution(n)
             /\ RulesOn(n, "reduce")' = RulesOn(n, "reduce") /\ rules' = rules
  BY <1>1 DEF OneResolution, RulesOn, rules
<1>3. ASSUME NEW n \in Names, OneResolution(n), cache'[n] # NoEntry
      PROVE  stamp'[cache'[n].sample.of] = cache'[n].savedAt
  <2>1. CASE cache'[n] = cache[n]
    <3>1. cache[n].sample.of \in Scrapes /\ Started(cache[n].sample.of)
      BY <1>3, <2>1, EntryFacts
    <3>2. stamp'[cache[n].sample.of] = stamp[cache[n].sample.of]
      BY <3>1, StepKind, SampleDoneOut DEF Quiet, Steady
    <3>3. QED
      BY <1>3, <2>1, <3>2 DEF ServedInv
  <2>2. CASE cache'[n] # cache[n]
    <3>1. SampleDone
      BY <2>2, StepKind DEF Quiet
    <3>2. /\ SampleKept /\ n = work.sample.name
          /\ \E i \in RulesOn(n, "reduce") : Missed(i)
      BY <2>2, <3>1, EntryReplaced DEF SampleKept, SamplesInv
    <3>3. ~Stored
      BY <1>3, <3>2, StoredKept DEF OneResolution, Missed
    <3>4. Own /\ stamp' = stamp
      BY <3>2, <3>3, KeptFacts
    <3>5. cache'[n].sample.of = mutex /\ cache'[n].savedAt = stamp[mutex]
      BY <3>2, <3>4, OwnKept
    <3>6. QED
      BY <3>4, <3>5
  <2>3. QED
    BY <2>1, <2>2
<1>4. ASSUME NEW t \in Scrapes, NEW s \in Out(t)', OneResolution(s.name)
      PROVE  \/ s.of = t
             \/ \E i \in RulesOn(s.name, "reduce") :
                   stamp'[t] < stamp'[s.of] + rules[i].resolution
  <2>1. CASE s \in Out(t)
    <3>1. s.of \in Scrapes /\ Started(s.of) /\ Started(t)
      BY <2>1, OutFacts
    <3>2. stamp'[s.of] = stamp[s.of] /\ stamp'[t] = stamp[t]
      BY <3>1, StepKind, SampleDoneOut DEF Quiet, Steady
    <3>3. QED
      BY <1>4, <2>1, <3>2 DEF ServedInv
  <2>2. CASE s \notin Out(t)
    <3>1. SampleKept
      BY <2>2, QuietOrKept DEF Quiet
    <3>2. t = mutex /\ s = work.sample /\ stamp' = stamp /\ s.name \in Names
      BY <2>2, <3>1, KeptFacts
    <3>3. CASE Own
      BY <3>2, <3>3 DEF Own
    <3>4. CASE Stored
      <4>1. PICK j \in RulesOn(s.name, "reduce") :
               stamp[mutex] < cache[s.name].savedAt + rules[j].resolution
        BY <3>1, <3>2, <3>4, StoredKept
      <4>2. cache[s.name] # NoEntry /\ s.of = cache[s.name].sample.of
        BY <3>1, <3>2, <3>4, StoredKept
      <4>3. stamp[s.of] = cache[s.name].savedAt
        BY <1>4, <3>2, <4>2 DEF ServedInv
      <4>4. QED
        BY <3>2, <4>1, <4>3
    <3>5. QED
      BY <3>1, <3>3, <3>4, KeptFacts
  <2>3. QED
    BY <2>1, <2>2
<1>5. QED
  BY <1>2, <1>3, <1>4 DEF ServedInv

LEMMA InitServed == Init => ServedInv
  BY ConstantsAssumption DEF Init, ServedInv, Out

\* SampleCacheStore::get: with one resolution for each metric, what a scrape returns is
\* its own value or one brought less than the resolution before it.  (With two that
\* differ it is not: what one rule looks up in vain and another finds is stored again.)
THEOREM ServedInTime ==
    Spec => []((\A n \in Names : OneResolution(n)) => ServedWithinResolution)
<1>1. Base /\ SamplesInv /\ ServedInv /\ [Next]_vars => ServedInv'
  BY ServedHolds
<1>2. ASSUME Base, ServedInv, \A n \in Names : OneResolution(n),
             NEW t \in Scrapes, NEW s \in published[t]
      PROVE  \/ s.of = t
             \/ \E i \in RulesOn(s.name, "reduce") :
                   stamp[t] < stamp[s.of] + rules[i].resolution
  <2>1. s \in Out(t) /\ s.name \in Names
    BY SMTT(30), PublishedIsOut, <1>2 DEF Base, TypeOK, Samples
  <2>2. QED
    BY <1>2, <2>1 DEF ServedInv
<1>3. Base /\ ServedInv => ((\A n \in Names : OneResolution(n)) => ServedWithinResolution)
  BY <1>2 DEF ServedWithinResolution
<1>4. QED
  BY <1>1, <1>3, InitServed, BaseHolds, SamplesHold, PTL DEF Spec

-----------------------------------------------------------------------------
(***************************************************************************)
(* What is returned of a metric does not go back in time.                  *)
(***************************************************************************)
\* The timeout of a scrape is no longer than the resolutions of n, and there is one.
Timely(n) == /\ RulesOn(n, "reduce") # {} /\ ClockIsOld(n)
             /\ \A i \in RulesOn(n, "reduce") : setup.timeout <= rules[i].resolution

\* What is stored is as recent as what was ever kept.
NotAhead(p) == /\ cache[p.name] # NoEntry
               /\ readAt[p.of] <= readAt[cache[p.name].sample.of]
\* A value of a scrape that was produced at this very instant is its own, or the one
\* in the store, which is not replaced before the next instant.
Recent(t, p) == readAt[t] = now =>
    \/ p.of = t
    \/ /\ p.of = cache[p.name].sample.of
       /\ \E i \in RulesOn(p.name, "reduce") :
             now < cache[p.name].savedAt + rules[i].resolution
\* What the holder of the lock has from the store is no older than what was returned.
InOrder(t, p) == mutex = t =>
    \/ p.of = t
    \/ \A u \in Scrapes : \A q \in published[u] :
          q.name = p.name => readAt[q.of] <= readAt[p.of]
KeptInv ==
    \A t \in Scrapes : \A p \in Out(t) :
        /\ RulesOn(p.name, "reduce") = {} => p.of = t
        /\ pc[t] = "done" => readAt[p.of] <= doneAt[t]
        /\ Timely(p.name) => NotAhead(p) /\ Recent(t, p) /\ InOrder(t, p)
TimelyReads ==
    \A t, u \in Scrapes : \A p \in published[t], q \in published[u] :
        p.name = q.name /\ readAt[u] >= doneAt[t] /\ Timely(p.name)
            => readAt[q.of] >= readAt[p.of]
ReadsInv == KeptInv /\ TimelyReads

\* Only the return of a scrape makes it done, and only the lock's being granted makes
\* it the holder, with nothing kept yet.
LEMMA Returns ==
    ASSUME Base, [Next]_vars, NEW t \in Scrapes
    PROVE  /\ pc[t] # "done" /\ pc'[t] = "done" => Return(t)
           /\ published'[t] # published[t] => Return(t)
           /\ mutex' = t => /\ mutex = t \/ Lock(t)
                            /\ \A u \in Scrapes : published'[u] = published[u]
<1>1. mutex' = t => mutex' # Nobody
  BY ConstantsAssumption
<1>2. ASSUME NEW u \in Scrapes, \/ \E s \in setup.serves : Fetch(u, s)
                                \/ Begin(u) \/ LockPanics(u)
      PROVE  /\ pc'[t] = "done" => pc[t] = "done"
             /\ published' = published /\ mutex' = mutex
  BY <1>2 DEF Fetch, Begin, LockPanics, Base, TypeOK
<1>3. ASSUME NEW u \in Scrapes, Lock(u)
      PROVE  /\ pc'[t] = "done" => pc[t] = "done"
             /\ published' = published /\ mutex' = u
  BY <1>3 DEF Lock, Base, TypeOK
<1>4. CASE NoMatch \/ Keep \/ Drop \/ ReduceHit \/ ReduceMiss \/ AddNoise
  BY <1>4, PastGrows, RuleStep, RuleDoneHolds DEF RuleDone
<1>5. CASE SampleDone
  BY <1>5 DEF SampleDone
<1>6. CASE NoisePanics
  BY <1>1, <1>6 DEF NoisePanics, Base, TypeOK
<1>7. ASSUME NEW u \in Scrapes, Return(u)
      PROVE  /\ u # t => /\ pc'[t] = "done" => pc[t] = "done"
                         /\ published'[t] = published[t]
             /\ mutex' = Nobody
  BY <1>7 DEF Return, Base, TypeOK
<1>8. CASE Tick \/ UNCHANGED vars
  BY <1>8 DEF Tick, vars
<1>9. QED
  BY <1>1, <1>2, <1>3, <1>4, <1>5, <1>6, <1>7, <1>8 DEF Next, AtRest

LEMMA QuietKept ==
    ASSUME Base, SamplesInv, KeptInv, [Next]_vars, Quiet
    PROVE  KeptInv'
<1> SUFFICES ASSUME NEW t \in Scrapes, NEW p \in Out(t)'
             PROVE  /\ RulesOn(p.name, "reduce")' = {} => p.of = t
                    /\ pc'[t] = "done" => readAt'[p.of] <= doneAt'[t]
                    /\ Timely(p.name)' => NotAhead(p)' /\ Recent(t, p)' /\ InOrder(t, p)'
  BY DEF KeptInv
<1> DEFINE n == p.name
<1>1. /\ p \in Out(t) /\ setup' = setup /\ cache' = cache
  BY DEF Quiet, Steady
<1>2. /\ RulesOn(n, "reduce")' = RulesOn(n, "reduce") /\ rules' = rules
      /\ Timely(n)' <=> Timely(n)
  BY <1>1, SetupStays DEF Timely
<1>3. p.of \in Scrapes /\ n \in Names /\ Started(p.of) /\ Started(t)
  BY <1>1, OutFacts
<1>4. /\ readAt'[p.of] = readAt[p.of] /\ readAt'[t] = readAt[t] /\ stamp'[t] = stamp[t]
      /\ now <= now'
  BY <1>3 DEF Quiet, Steady
<1>5. /\ RulesOn(n, "reduce") = {} => p.of = t
      /\ pc[t] = "done" => readAt[p.of] <= doneAt[t]
      /\ Timely(n) => NotAhead(p) /\ Recent(t, p) /\ InOrder(t, p)
  BY <1>1 DEF KeptInv
<1>6. ASSUME pc'[t] = "done" PROVE readAt'[p.of] <= doneAt'[t]
  <2>1. CASE pc[t] = "done"
    BY <1>4, <1>5, <2>1 DEF Quiet, Steady
  <2>2. CASE pc[t] # "done"
    <3>1. doneAt'[t] = now
      BY <1>6, <2>2, Returns DEF Return, Base, TypeOK
    <3>2. readAt[p.of] <= now
      BY <1>3, ClockFacts
    <3>3. QED
      BY <1>4, <3>1, <3>2
  <2>3. QED
    BY <2>1, <2>2
<1>7. ASSUME Timely(n) PROVE NotAhead(p)'
  <2>1. NotAhead(p)
    BY <1>5, <1>7
  <2>2. cache[n].sample.of \in Scrapes /\ Started(cache[n].sample.of)
    BY <1>3, <2>1, EntryFacts DEF NotAhead
  <2>3. readAt'[cache[n].sample.of] = readAt[cache[n].sample.of]
    BY <2>2 DEF Quiet, Steady
  <2>4. QED
    BY <1>1, <1>4, <2>1, <2>3 DEF NotAhead
<1>8. ASSUME Timely(n) PROVE Recent(t, p)'
  <2>1. readAt[t] <= now /\ now \in Nat /\ now' \in Nat /\ readAt[t] \in Nat
    <3>1. now' \in Nat
      BY NextBase DEF Base, TypeOK
    <3>2. readAt[t] <= now /\ now \in Nat /\ readAt[t] \in Nat
      BY <1>3, ClockFacts
    <3>3. QED
      BY <3>1, <3>2
  <2>2. readAt'[t] = now' => now' = now /\ readAt[t] = now
    BY <1>4, <2>1
  <2>3. Recent(t, p)
    BY <1>5, <1>8
  <2>4. QED
    BY <1>1, <1>2, <2>2, <2>3 DEF Recent
<1>9. ASSUME Timely(n) PROVE InOrder(t, p)'
  <2> SUFFICES ASSUME mutex' = t, p.of # t, NEW u \in Scrapes, NEW q \in published'[u],
                      q.name = n
               PROVE  readAt'[q.of] <= readAt'[p.of]
    BY DEF InOrder
  <2>1. q \in published[u] /\ (mutex = t \/ Lock(t))
    BY Returns
  <2>2. ~Lock(t)
    <3>1. Lock(t) => mutex' = t /\ work'.samples = {}
      BY LockHolds DEF Lock
    <3>2. QED
      BY <3>1 DEF Out
  <2>3. q \in Out(u)
    BY <2>1, PublishedIsOut
  <2>4. q.of \in Scrapes /\ Started(q.of)
    BY <2>3, OutFacts
  <2>5. readAt'[q.of] = readAt[q.of]
    BY <2>4 DEF Quiet, Steady
  <2>6. InOrder(t, p)
    BY <1>5, <1>9
  <2>7. QED
    BY <1>4, <2>1, <2>2, <2>5, <2>6 DEF InOrder
<1>10. QED
  BY <1>2, <1>5, <1>6, <1>7, <1>8, <1>9

LEMMA KeptKept ==
    ASSUME Base, SamplesInv, KeptInv, SampleKept
    PROVE  KeptInv'
<1> DEFINE s   == work.sample
           n   == work.sample.name
           old == cache[n]
           R   == RulesOn(n, "reduce")
<1>1. /\ setup' = setup /\ now' = now /\ stamp' = stamp /\ readAt' = readAt
      /\ pc' = pc /\ mutex' = mutex /\ published' = published /\ doneAt' = doneAt
      /\ mutex \in Scrapes /\ Started(mutex) /\ pc[mutex] = "filtering"
      /\ n \in Names /\ s.of \in Scrapes
      /\ \A m \in Names : m # n => cache'[m] = cache[m]
      /\ \A t \in Scrapes : \A p \in Out(t)' : p \in Out(t) \/ (t = mutex /\ p = s)
      /\ Past("reduce") = R
      /\ Own \/ Stored
  BY KeptFacts
<1>2. rules' = rules /\ \A m : /\ RulesOn(m, "reduce")' = RulesOn(m, "reduce")
                               /\ Timely(m)' <=> Timely(m)
  BY <1>1, SetupStays DEF Timely
<1>3. \A t \in Scrapes : \A p : InOrder(t, p)' <=> InOrder(t, p)
  BY <1>1 DEF InOrder
<1>4. ASSUME NEW t \in Scrapes, NEW p \in Out(t), p.name # n
      PROVE  /\ NotAhead(p)' <=> NotAhead(p)
             /\ Recent(t, p)' <=> Recent(t, p)
  <2>1. p.name \in Names
    BY OutFacts
  <2>2. cache'[p.name] = cache[p.name]
    BY <1>1, <1>4, <2>1
  <2>3. QED
    BY <1>1, <1>2, <2>2 DEF NotAhead, Recent
<1>5. ASSUME Timely(n), Own
      PROVE  /\ cache'[n] # NoEntry /\ cache'[n].sample.of = mutex /\ s.of = mutex
             /\ \A t \in Scrapes : \A p \in Out(t) :
                   p.name = n => /\ readAt[p.of] <= readAt[mutex]
                                 /\ Recent(t, p) => readAt[t] # now \/ p.of = t
  <2>1. /\ s.of = mutex /\ cache'[n] # NoEntry /\ cache'[n].sample = s
        /\ old # NoEntry =>
              /\ old.savedAt \in Nat /\ old.sample.of \in Scrapes
              /\ stamp[old.sample.of] <= old.savedAt
              /\ \A i \in R : /\ rules[i].resolution \in Nat
                              /\ old.savedAt + rules[i].resolution <= stamp[mutex]
    BY <1>5, OwnKept DEF Timely
  <2>2. /\ stamp[mutex] \in Nat /\ stamp[mutex] <= now /\ now \in Nat
        /\ readAt[mutex] \in Nat /\ setup.timeout \in Nat
        /\ stamp[mutex] <= readAt[mutex] + setup.timeout
    BY <1>1, ClockFacts
  <2>3. ASSUME NEW t \in Scrapes, NEW p \in Out(t), p.name = n
        PROVE  /\ readAt[p.of] <= readAt[mutex]
               /\ Recent(t, p) => readAt[t] # now \/ p.of = t
    <3>1. old # NoEntry /\ readAt[p.of] <= readAt[old.sample.of]
      BY <1>5, <2>3 DEF KeptInv, NotAhead
    <3>2. /\ readAt[old.sample.of] <= stamp[old.sample.of]
          /\ readAt[old.sample.of] \in Nat /\ stamp[old.sample.of] \in Nat
      BY <1>1, <3>1, EntryFacts, ClockFacts
    <3>3. readAt[p.of] \in Nat
      BY <2>3, OutFacts, ClockFacts
    <3>4. PICK i \in R : setup.timeout <= rules[i].resolution
      BY <1>5 DEF Timely
    <3>5. readAt[p.of] <= readAt[mutex]
      BY <2>1, <2>2, <3>1, <3>2, <3>3, <3>4
    <3>6. \A j \in R : ~(now < old.savedAt + rules[j].resolution)
      BY <2>1, <2>2, <3>1
    <3>7. QED
      BY <2>3, <3>5, <3>6 DEF Recent
  <2>4. QED
    BY <2>1, <2>3
<1>6. ASSUME Timely(n), Stored
      PROVE  /\ old # NoEntry /\ cache'[n] # NoEntry
             /\ s.of = old.sample.of /\ cache'[n].sample.of = old.sample.of
             /\ \A i \in R : now < old.savedAt + rules[i].resolution
                                => now < cache'[n].savedAt + rules[i].resolution
             /\ \E i \in R : stamp[mutex] < old.savedAt + rules[i].resolution
  <2>1. /\ old # NoEntry /\ cache'[n] # NoEntry
        /\ s.of = old.sample.of /\ cache'[n].sample.of = old.sample.of
        /\ cache'[n].savedAt \in {old.savedAt, stamp[mutex]} /\ old.savedAt \in Nat
        /\ \E i \in R : stamp[mutex] < old.savedAt + rules[i].resolution
    BY <1>6, StoredKept
  <2>2. \A i \in R : rules[i].resolution \in Nat
    BY SetupFacts DEF RulesOn, Rules, Base
  <2>3. stamp[mutex] \in Nat /\ now \in Nat
    BY <1>1, ClockFacts
  <2>4. cache'[n].savedAt >= old.savedAt
    <3>1. CASE cache'[n] = old
      BY <2>1, <3>1
    <3>2. CASE cache'[n] # old
      <4>1. \E i \in R : cache'[n].savedAt >= old.savedAt + rules[i].resolution
        BY <1>1, <1>6, <2>1, <3>2, EntryReplaced DEF Timely, SampleKept, SamplesInv
      <4>2. QED
        BY <2>1, <2>2, <2>3, <4>1
    <3>3. QED
      BY <3>1, <3>2
  <2>5. QED
    BY <2>1, <2>2, <2>3, <2>4
<1>7. ASSUME NEW t \in Scrapes, NEW p \in Out(t)
      PROVE  /\ RulesOn(p.name, "reduce") = {} => p.of = t
             /\ pc[t] = "done" => readAt[p.of] <= doneAt[t]
             /\ Timely(p.name) => NotAhead(p)' /\ Recent(t, p)' /\ InOrder(t, p)
  <2>1. /\ RulesOn(p.name, "reduce") = {} => p.of = t
        /\ pc[t] = "done" => readAt[p.of] <= doneAt[t]
        /\ Timely(p.name) => NotAhead(p) /\ Recent(t, p) /\ InOrder(t, p)
    BY <1>7 DEF KeptInv
  <2>2. CASE p.name # n
    BY <1>4, <2>1, <2>2
  <2>3. ASSUME p.name = n, Timely(n) PROVE NotAhead(p)' /\ Recent(t, p)'
    <3>1. CASE Own
      <4>1. NotAhead(p)'
        BY <1>1, <1>5, <2>3, <3>1 DEF NotAhead
      <4>2. Recent(t, p)'
        BY <1>1, <1>5, <2>1, <2>3, <3>1 DEF Recent
      <4>3. QED
        BY <4>1, <4>2
    <3>2. CASE Stored
      <4>1. NotAhead(p)'
        BY <1>1, <1>6, <2>1, <2>3, <3>2 DEF NotAhead
      <4>2. Recent(t, p)'
        BY <1>1, <1>2, <1>6, <2>1, <2>3, <3>2 DEF Recent
      <4>3. QED
        BY <4>1, <4>2
    <3>3. QED
      BY <1>1, <3>1, <3>2
  <2>4. QED
    BY <2>1, <2>2, <2>3
<1>8. ASSUME NEW t \in Scrapes, t = mutex, NEW p, p = s
      PROVE  /\ R = {} => p.of = t
             /\ Timely(n) => NotAhead(p)' /\ Recent(t, p)' /\ InOrder(t, p)
  <2>1. R = {} => p.of = t
    BY <1>1, <1>8 DEF Own, Stored
  <2>2. p.name = n /\ p.of = s.of /\ p.of \in Scrapes
    BY <1>1, <1>8
  <2>3. ASSUME Timely(n), Own PROVE NotAhead(p)' /\ Recent(t, p)' /\ InOrder(t, p)
    <3>1. readAt[mutex] \in Nat
      BY <1>1, ClockFacts
    <3>2. p.of = t /\ cache'[p.name] # NoEntry /\ cache'[p.name].sample.of = p.of
      BY <1>5, <1>8, <2>2, <2>3
    <3>3. QED
      BY <1>1, <1>8, <3>1, <3>2 DEF NotAhead, Recent, InOrder
  <2>4. ASSUME Timely(n), Stored PROVE NotAhead(p)' /\ Recent(t, p)' /\ InOrder(t, p)
    <3>1. /\ readAt[t] <= stamp[t] /\ stamp[t] <= now
          /\ readAt[t] \in Nat /\ stamp[t] \in Nat /\ now \in Nat
      BY <1>1, <1>8, ClockFacts
    <3>2. readAt[p.of] \in Nat
      BY <2>2 DEF Base, TypeOK
    <3>3. cache'[p.name] # NoEntry /\ cache'[p.name].sample.of = p.of
      BY <1>6, <2>2, <2>4
    <3>4. NotAhead(p)'
      BY <1>1, <3>2, <3>3 DEF NotAhead
    <3>5. Recent(t, p)'
      <4>1. readAt[t] = now => stamp[t] = now
        BY <3>1
      <4>2. readAt[t] = now => \E i \in R : now < cache'[n].savedAt + rules[i].resolution
        BY <1>6, <1>8, <2>4, <4>1
      <4>3. QED
        BY <1>1, <1>2, <2>2, <3>3, <4>2 DEF Recent
    <3>6. ASSUME NEW u \in Scrapes, NEW q \in published[u], q.name = n
          PROVE  readAt[q.of] <= readAt[p.of]
      <4>1. q \in Out(u)
        BY PublishedIsOut
      <4>2. NotAhead(q)
        BY <2>4, <3>6, <4>1 DEF KeptInv
      <4>3. QED
        BY <1>6, <2>2, <2>4, <3>6, <4>2 DEF NotAhead
    <3>7. InOrder(t, p)
      BY <2>2, <3>6 DEF InOrder
    <3>8. QED
      BY <3>4, <3>5, <3>7
  <2>5. QED
    BY <1>1, <2>1, <2>3, <2>4
<1>9. ASSUME NEW t \in Scrapes, NEW p \in Out(t)'
      PROVE  /\ RulesOn(p.name, "reduce")' = {} => p.of = t
             /\ pc'[t] = "done" => readAt'[p.of] <= doneAt'[t]
             /\ Timely(p.name)' => NotAhead(p)' /\ Recent(t, p)' /\ InOrder(t, p)'
  <2>1. CASE p \in Out(t)
    BY <1>1, <1>2, <1>3, <1>7, <2>1
  <2>2. CASE t = mutex /\ p = s
    <3>1. /\ R = {} => p.of = t
          /\ Timely(n) => NotAhead(p)' /\ Recent(t, p)' /\ InOrder(t, p)
      BY <1>8, <2>2
    <3>2. p.name = n /\ pc'[t] # "done" /\ (InOrder(t, p)' <=> InOrder(t, p))
      BY <1>1, <1>3, <2>2
    <3>3. /\ RulesOn(p.name, "reduce")' = R
          /\ Timely(p.name)' <=> Timely(n)
      BY <1>2, <3>2
    <3>4. QED
      BY <3>1, <3>2, <3>3
  <2>3. QED
    BY <1>1, <2>1, <2>2
<1>10. QED
  BY <1>9 DEF KeptInv

\* What is returned anew is no older than what has been, nor newer than what a scrape of
\* this instant returns.
LEMMA ReadsKept ==
    ASSUME Base, SamplesInv, KeptInv, TimelyReads, [Next]_vars,
           NEW t \in Scrapes, NEW u \in Scrapes,
           NEW p \in published'[t], NEW q \in published'[u],
           p.name = q.name, Timely(p.name), readAt'[u] >= doneAt'[t]
    PROVE  readAt'[q.of] >= readAt'[p.of]
<1>1. Steady
  BY StepKind, SampleDoneOut DEF Quiet
<1>2. ASSUME NEW v \in Scrapes, Return(v)
      PROVE  /\ mutex = v /\ doneAt'[v] = now /\ readAt' = readAt
             /\ published'[v] = Out(v) /\ Started(v)
             /\ \A w \in Scrapes : w # v => /\ published'[w] = published[w]
                                            /\ doneAt'[w] = doneAt[w]
  BY <1>2 DEF Return, Base, TypeOK, LockInv, Out, Started
<1>3. CASE Return(t)
  <2>1. p \in Out(t)
    BY <1>2, <1>3
  <2>2. q \in Out(u)
    BY <1>2, <1>3, PublishedIsOut
  <2>3. /\ p.of \in Scrapes /\ Started(p.of) /\ Started(u) /\ q.of \in Scrapes
    BY <2>1, <2>2, OutFacts
  <2>4. /\ readAt[p.of] <= now /\ readAt[u] <= now
        /\ readAt[p.of] \in Nat /\ readAt[u] \in Nat /\ now \in Nat
    BY <2>3, ClockFacts
  <2>5. readAt[u] = now
    BY <1>2, <1>3, <2>4
  <2>6. NotAhead(p) /\ Recent(u, q)
    BY <2>1, <2>2 DEF KeptInv
  <2>7. CASE q.of = u
    BY <1>2, <1>3, <2>4, <2>5, <2>7
  <2>8. CASE q.of = cache[q.name].sample.of
    <3>1. readAt[p.of] <= readAt[q.of]
      BY <2>6, <2>8 DEF NotAhead
    <3>2. readAt[q.of] \in Nat
      BY <2>3 DEF Base, TypeOK
    <3>3. QED
      BY <1>2, <1>3, <2>4, <3>1, <3>2
  <2>9. QED
    BY <2>5, <2>6, <2>7, <2>8 DEF Recent
<1>4. CASE Return(u) /\ t # u
  <2>1. p \in published[t] /\ q \in Out(u) /\ mutex = u
    BY <1>2, <1>4
  <2>2. p \in Out(t) /\ pc[t] = "done"
    BY <2>1, PublishedIsOut
  <2>3. p.of \in Scrapes /\ q.of \in Scrapes
    BY <2>1, <2>2, OutFacts
  <2>4. /\ readAt[p.of] \in Nat /\ readAt[q.of] \in Nat /\ readAt[u] \in Nat
        /\ doneAt[t] \in Nat
    BY <2>3 DEF Base, TypeOK
  <2>5. readAt[p.of] <= doneAt[t] /\ readAt[u] >= doneAt[t]
    BY <1>2, <1>4, <2>2 DEF KeptInv
  <2>6. InOrder(u, q)
    BY <2>1 DEF KeptInv
  <2>7. CASE q.of = u
    BY <1>2, <1>4, <2>4, <2>5, <2>7
  <2>8. CASE q.of # u
    <3>1. readAt[p.of] <= readAt[q.of]
      BY <2>1, <2>6, <2>8 DEF InOrder
    <3>2. QED
      BY <1>2, <1>4, <2>4, <3>1
  <2>9. QED
    BY <2>7, <2>8
<1>5. CASE ~Return(t) /\ ~Return(u)
  <2>1. p \in published[t] /\ q \in published[u]
    BY <1>5, Returns
  <2>2. p \in Out(t) /\ q \in Out(u) /\ pc[t] = "done"
    BY <2>1, PublishedIsOut
  <2>3. /\ p.of \in Scrapes /\ Started(p.of)
        /\ q.of \in Scrapes /\ Started(q.of) /\ Started(u)
    BY <2>2, OutFacts
  <2>4. /\ readAt'[p.of] = readAt[p.of] /\ readAt'[q.of] = readAt[q.of]
        /\ readAt'[u] = readAt[u] /\ doneAt'[t] = doneAt[t]
    BY <1>1, <2>2, <2>3 DEF Steady
  <2>5. readAt[q.of] >= readAt[p.of]
    BY <2>1, <2>4 DEF TimelyReads
  <2>6. QED
    BY <2>4, <2>5
<1>6. QED
  BY <1>3, <1>4, <1>5

\* A metric whose resolution is not reduced is returned as it was read.
LEMMA UnreducedReads ==
    ASSUME Base, SamplesInv, KeptInv, NEW t \in Scrapes, NEW u \in Scrapes,
           NEW p \in published[t], NEW q \in published[u],
           p.name = q.name, RulesOn(p.name, "reduce") = {}, readAt[u] >= doneAt[t]
    PROVE  readAt[q.of] >= readAt[p.of]
<1>1. p \in Out(t) /\ q \in Out(u) /\ pc[t] = "done"
  BY PublishedIsOut
<1>2. p.of = t /\ q.of = u /\ readAt[p.of] <= doneAt[t]
  BY <1>1 DEF KeptInv
<1>3. readAt[t] \in Nat /\ readAt[u] \in Nat /\ doneAt[t] \in Nat
  BY DEF Base, TypeOK
<1>4. QED
  BY <1>2, <1>3

LEMMA ReadsHold == Base /\ SamplesInv /\ ReadsInv /\ [Next]_vars => ReadsInv'
<1> SUFFICES ASSUME Base, SamplesInv, ReadsInv, [Next]_vars PROVE ReadsInv'
  OBVIOUS
<1>1. KeptInv /\ TimelyReads
  BY DEF ReadsInv
<1>2. KeptInv'
  BY <1>1, QuietOrKept, QuietKept, KeptKept
<1>3. setup' = setup
  BY StepKind, SampleDoneOut DEF Quiet, Steady
<1>4. \A n : Timely(n)' <=> Timely(n)
  BY <1>3, SetupStays DEF Timely
<1>5. TimelyReads'
  BY <1>1, <1>4, ReadsKept DEF TimelyReads
<1>6. QED
  BY <1>2, <1>5 DEF ReadsInv

LEMMA InitReads == Init => ReadsInv
  BY ConstantsAssumption DEF Init, ReadsInv, KeptInv, TimelyReads, Out

\* reduce_time_resolution: a client that asks again after it was answered never sees a
\* value produced before the one it has seen, as long as no scrape may take longer than
\* the resolution.
THEOREM ReadsKeepOrder == Spec => []ReadsDoNotGoBack
<1>1. Base /\ SamplesInv /\ ReadsInv /\ [Next]_vars => ReadsInv'
  BY ReadsHold
<1>2. ASSUME Base, SamplesInv, ReadsInv, NEW t \in Scrapes, NEW u \in Scrapes,
             NEW p \in published[t], NEW q \in published[u],
             p.name = q.name, readAt[u] >= doneAt[t], ClockIsOld(p.name),
             \A i \in RulesOn(p.name, "reduce") : setup.timeout <= rules[i].resolution
      PROVE  readAt[q.of] >= readAt[p.of]
  <2>1. CASE RulesOn(p.name, "reduce") = {}
    BY <1>2, <2>1, UnreducedReads DEF ReadsInv
  <2>2. CASE RulesOn(p.name, "reduce") # {}
    BY <1>2, <2>2 DEF ReadsInv, TimelyReads, Timely
  <2>3. QED
    BY <2>1, <2>2
<1>3. Base /\ SamplesInv /\ ReadsInv => ReadsDoNotGoBack
  BY <1>2 DEF ReadsDoNotGoBack
<1>4. QED
  BY <1>1, <1>3, InitReads, BaseHolds, SamplesHold, PTL DEF Spec

-----------------------------------------------------------------------------
(***************************************************************************)
(* The noise that is added.                                                *)
(***************************************************************************)
LEMMA DivMonotone ==
    ASSUME NEW m \in Nat, NEW n \in Nat, m <= n, NEW d \in Nat \ {0}
    PROVE  m \div d \in Nat /\ n \div d \in Nat /\ m \div d <= n \div d
<1> DEFINE j == m \div d
           k == n \div d
<1>1. j \in Int /\ k \in Int /\ m = (d * j) + (m % d) /\ n = (d * k) + (n % d)
  OBVIOUS
<1>2. m % d \in 0..d - 1 /\ n % d \in 0..d - 1
  OBVIOUS
<1> HIDE DEF j, k
<1>3. j >= 0 /\ k >= 0
  <2>1. j < 0 => d * j <= -d
    BY <1>1
  <2>2. k < 0 => d * k <= -d
    BY <1>1
  <2>3. QED
    BY <1>1, <1>2, <2>1, <2>2
<1>4. j <= k
  <2>1. j > k => d * j >= d * k + d
    BY <1>1
  <2>2. d * j \in Int /\ d * k \in Int /\ m % d \in Int /\ n % d \in Int
    BY <1>1, <1>2
  <2>3. QED
    BY <1>1, <1>2, <2>1, <2>2
<1>5. QED
  BY <1>1, <1>3, <1>4 DEF j, k

\* An amount within the amplitude stays within the rounded amplitude when it is rounded.
LEMMA QuantizedWithin ==
    ASSUME NEW a \in Int, NEW x \in Draws(a), NEW q \in Nat \ {0}
    PROVE  Within(Quantized(x, q), Quantized(a, q)) /\ Quantized(a, q) \in Nat
<1> DEFINE y == IF x < 0 THEN -x ELSE x
           m(z) == ((2 * z + q) \div (2 * q)) * q
<1>1. x \in Int /\ -a <= x /\ x <= a /\ a > 0 /\ y \in Nat /\ y <= a
  BY DEF Draws
<1>2. /\ 2 * y + q \in Nat /\ 2 * a + q \in Nat /\ 2 * y + q <= 2 * a + q
      /\ 2 * q \in Nat \ {0}
  BY <1>1
<1>3. /\ (2 * y + q) \div (2 * q) \in Nat /\ (2 * a + q) \div (2 * q) \in Nat
      /\ (2 * y + q) \div (2 * q) <= (2 * a + q) \div (2 * q)
  BY <1>2, DivMonotone
<1>4. \A j, k \in Nat : j <= k => j * q \in Nat /\ k * q \in Nat /\ j * q <= k * q
  OBVIOUS
<1>5. m(y) \in Nat /\ m(a) \in Nat /\ m(y) <= m(a)
  BY <1>3, <1>4
<1>6. Quantized(x, q) = IF x < 0 THEN -m(y) ELSE m(y)
  BY DEF Quantized
<1>7. Quantized(a, q) = m(a)
  BY <1>1 DEF Quantized
<1> HIDE DEF m, y
<1>8. QED
  BY <1>5, <1>6, <1>7 DEF Within

\* The sums of the first elements of a sequence of numbers exist.
LEMMA PartialSums ==
    ASSUME NEW L \in Nat, NEW d \in [1..L -> Int]
    PROVE  \E f \in [0..L -> Int] :
              f = [i \in 0..L |-> IF i = 0 THEN 0 ELSE f[i - 1] + d[i]]
<1> DEFINE Sums(k, f) == f = [i \in 0..k |-> IF i = 0 THEN 0 ELSE f[i - 1] + d[i]]
           Has(k) == \E f \in [0..k -> Int] : Sums(k, f)
           S == {k \in Nat : k <= L => Has(k)}
<1>1. Has(0)
  <2> DEFINE f == [i \in 0..0 |-> 0]
  <2>1. f \in [0..0 -> Int] /\ Sums(0, f)
    OBVIOUS
  <2>2. QED
    BY <2>1
<1>2. ASSUME NEW k \in Nat, k + 1 <= L, Has(k) PROVE Has(k + 1)
  <2>1. PICK f \in [0..k -> Int] : Sums(k, f)
    BY <1>2
  <2> DEFINE g == [i \in 0..k + 1 |-> IF i = k + 1 THEN f[k] + d[k + 1] ELSE f[i]]
  <2>2. d[k + 1] \in Int /\ f[k] \in Int
    BY <1>2
  <2>3. g \in [0..k + 1 -> Int]
    BY <2>2
  <2>4. ASSUME NEW i \in 0..k + 1
        PROVE  g[i] = IF i = 0 THEN 0 ELSE g[i - 1] + d[i]
    <3>1. CASE i = k + 1
      BY <3>1
    <3>2. CASE i \in 0..k
      BY <2>1, <3>2
    <3>3. QED
      BY <3>1, <3>2
  <2> HIDE DEF g
  <2>5. Sums(k + 1, g)
    BY <2>3, <2>4
  <2>6. QED
    BY <2>3, <2>5
<1> HIDE DEF Has
<1>3. L \in S
  <2>1. 0 \in S /\ \A k \in Nat : k \in S => k + 1 \in S
    BY <1>1, <1>2
  <2> HIDE DEF S
  <2>2. QED
    BY <2>1, SetInduction
<1>4. Has(L)
  BY <1>3
<1>5. QED
  BY <1>4 DEF Has

LEMMA AmplitudesSum ==
    ASSUME TypeOK, NEW n
    PROVE  /\ Amplitudes(n)[0] = 0
           /\ \A i \in 1..Len(rules) :
                 Amplitudes(n)[i] = Amplitudes(n)[i - 1] +
                    (IF i \in RulesOn(n, "noise")
                       THEN Quantized(rules[i].amplitude, rules[i].quantum) ELSE 0)
           /\ \A i \in 0..Len(rules) : Amplitudes(n)[i] \in Int
<1> DEFINE L == Len(rules)
           d == [i \in 1..L |-> IF i \in RulesOn(n, "noise")
                                  THEN Quantized(rules[i].amplitude, rules[i].quantum)
                                ELSE 0]
           F(f) == [i \in 0..L |-> IF i = 0 THEN 0
                                   ELSE f[i - 1] + (IF i \in RulesOn(n, "noise")
                               THEN Quantized(rules[i].amplitude, rules[i].quantum)
                             ELSE 0)]
<1>1. L \in Nat /\ \A i \in 1..L : rules[i].amplitude \in Int /\ rules[i].quantum \in Nat \ {0}
  BY SetupFacts DEF Rules
<1>2. \A i \in 1..L : Quantized(rules[i].amplitude, rules[i].quantum) \in Int
  BY <1>1, QuantizedInt
<1>3. d \in [1..L -> Int]
  BY <1>2
<1>4. \A i \in 1..L : d[i] = IF i \in RulesOn(n, "noise")
                               THEN Quantized(rules[i].amplitude, rules[i].quantum)
                             ELSE 0
  OBVIOUS
<1> HIDE DEF d, L
<1>5. PICK f \in [0..L -> Int] : f = [i \in 0..L |-> IF i = 0 THEN 0 ELSE f[i - 1] + d[i]]
  BY <1>1, <1>3, PartialSums
<1>6. f = F(f)
  BY <1>1, <1>4, <1>5
<1>7. Amplitudes(n) = CHOOSE g : g = F(g)
  BY DEF Amplitudes, L
<1> DEFINE A == Amplitudes(n)
<1>8. A = F(A)
  BY <1>6, <1>7
<1> HIDE DEF A
<1>9. A[0] = 0 /\ \A i \in 1..L : A[i] = A[i - 1] + d[i]
  BY <1>1, <1>4, <1>8
<1> DEFINE S == {i \in Nat : i <= L => A[i] \in Int}
<1>10. \A i \in 0..L : A[i] \in Int
  <2>1. 0 \in S /\ \A i \in Nat : i \in S => i + 1 \in S
    BY SMTT(30), <1>1, <1>3, <1>9
  <2> HIDE DEF S
  <2>2. \A i \in Nat : i \in S
    BY <2>1, SetInduction
  <2>3. QED
    BY <1>1, <2>2 DEF S
<1>11. QED
  BY <1>4, <1>9, <1>10 DEF A, L

-----------------------------------------------------------------------------
\* What is stored and what is kept has all the noise of its metric; what is in hand has
\* that of the rules so far, unless it is the stored one.
Total(n) == Amplitudes(n)[Len(rules)]
BlurredInHand ==
    LET s == work.sample  n == work.sample.name IN
    HasSample /\ NoiseFirst(n) =>
        \/ Within(s.noise, Amplitudes(n)[work.rule - 1])
        \/ Past("reduce") # {} /\ Within(s.noise, Total(n))
NoiseInv ==
    /\ \A n \in Names : NoiseFirst(n) /\ cache[n] # NoEntry
                           => Within(cache[n].sample.noise, Total(n))
    /\ \A t \in Scrapes : \A s \in Out(t) : NoiseFirst(s.name)
                                               => Within(s.noise, Total(s.name))
    /\ BlurredInHand

LEMMA AmplitudesStay ==
    ASSUME setup' = setup, NEW n
    PROVE  Amplitudes(n)' = Amplitudes(n) /\ Total(n)' = Total(n)
  BY DEF Amplitudes, Total, RulesOn, rules

\* A rule adds at most its own amplitude, and none once the stored sample is in hand.
LEMMA RuleBlurs ==
    ASSUME Base, NoiseInv, NoiseFirst(work.sample.name),
           NoMatch \/ Keep \/ Drop \/ ReduceHit \/ ReduceMiss \/ AddNoise
    PROVE  \/ Within(work'.sample.noise, Amplitudes(work.sample.name)[work.rule])
           \/ /\ Past("reduce")' # {}
              /\ Within(work'.sample.noise, Total(work.sample.name))
<1> DEFINE n == work.sample.name
           r == work.rule
           A == Amplitudes(n)
           P == Past("reduce")
<1>1. /\ r \in 1..Len(rules)
      /\ r \in RulesOn(n, "noise") <=> Rule.action = "noise" /\ n \in Rule.matches
      /\ r \in RulesOn(n, "reduce") <=> Rule.action = "reduce" /\ n \in Rule.matches
      /\ Past("reduce")' = IF r \in RulesOn(n, "reduce") THEN P \union {r} ELSE P
  BY PastGrows
<1>2. /\ HasSample /\ work.rule <= Len(rules) /\ work \in Works
      /\ work.sample \in Samples /\ n \in Names /\ work.sample.noise \in Int
  BY RuleStep, SampleFacts DEF Samples
<1>3. /\ A[r] = A[r - 1] + (IF r \in RulesOn(n, "noise")
                              THEN Quantized(Rule.amplitude, Rule.quantum) ELSE 0)
      /\ A[r] \in Int /\ A[r - 1] \in Int
  BY <1>1, SetupFacts, AmplitudesSum DEF Base, Rule
<1>4. \/ Within(work.sample.noise, A[r - 1])
      \/ P # {} /\ Within(work.sample.noise, Total(n))
  BY <1>2 DEF NoiseInv, BlurredInHand
<1> HIDE DEF A, P
<1>5. CASE NoMatch \/ Keep \/ Drop \/ ReduceMiss
  <2>1. work'.sample = work.sample
    BY <1>2, <1>5 DEF NoMatch, Keep, Drop, ReduceMiss, RuleDone, Works
  <2>2. r \notin RulesOn(n, "noise")
    BY <1>1, <1>5 DEF NoMatch, Keep, Drop, ReduceMiss, Applies
  <2>3. A[r] = A[r - 1]
    BY <1>3, <2>2
  <2>4. P # {} => Past("reduce")' # {}
    BY <1>1
  <2>5. QED
    BY <1>4, <2>1, <2>3, <2>4 DEF A
<1>6. CASE ReduceHit
  <2>1. work'.sample = cache[n].sample /\ cache[n] # NoEntry
    BY <1>2, <1>6 DEF ReduceHit, RuleDone, Works, Fresh
  <2>2. Past("reduce")' # {}
    BY <1>1, <1>6 DEF ReduceHit, Applies
  <2>3. QED
    BY <1>2, <2>1, <2>2 DEF NoiseInv
<1>7. CASE AddNoise
  <2>1. PICK x \in Draws(Rule.amplitude) :
           RuleDone([work.sample EXCEPT !.noise = @ + Quantized(x, Rule.quantum)],
                    work.keep, work.mustCache)
    BY <1>7 DEF AddNoise
  <2> DEFINE b == Quantized(x, Rule.quantum)
             c == Quantized(Rule.amplitude, Rule.quantum)
  <2>2. work'.sample.noise = work.sample.noise + b
    BY <1>2, <2>1 DEF RuleDone, Works, Samples
  <2>3. Rule.amplitude \in Int /\ Rule.quantum \in Nat \ {0}
    BY <1>1, SetupFacts DEF Base, Rule, Rules
  <2>4. b \in Int /\ c \in Int /\ Within(b, c)
    <3>1. x \in Int
      BY <2>1, <2>3 DEF Draws
    <3>2. QED
      BY <2>1, <2>3, <3>1, QuantizedInt, QuantizedWithin
  <2>5. r \in RulesOn(n, "noise")
    BY <1>1, <1>7 DEF AddNoise, Applies
  <2>6. P = {}
    <3>1. \A i \in P : r < i /\ i < r /\ i \in Int
      BY <1>1, <2>5 DEF NoiseFirst, P, Past, RulesOn
    <3>2. QED
      BY <1>1, <3>1
  <2>7. Within(work.sample.noise, A[r - 1])
    BY <1>4, <2>6
  <2>8. A[r] = A[r - 1] + c
    BY <1>3, <2>5
  <2> HIDE DEF b, c
  <2>9. Within(work'.sample.noise, A[r])
    BY <1>2, <1>3, <2>2, <2>4, <2>7, <2>8 DEF Within
  <2>10. QED
    BY <2>9 DEF A
<1>8. QED
  BY <1>5, <1>6, <1>7

LEMMA BlurredHolds == Base /\ NoiseInv /\ [Next]_vars => BlurredInHand'
<1> SUFFICES ASSUME Base, NoiseInv, [Next]_vars, HasSample',
                    NoiseFirst(work.sample.name)'
             PROVE  \/ Within(work'.sample.noise,
                              (Amplitudes(work.sample.name)[work.rule - 1])')
                    \/ /\ Past("reduce")' # {}
                       /\ Within(work'.sample.noise, Total(work.sample.name)')
  BY DEF BlurredInHand, Within
<1>1. setup' = setup
  BY StepKind, SampleDoneOut DEF Quiet, Steady
<1>2. PICK n : n = work'.sample.name
  OBVIOUS
<1>3. /\ Amplitudes(work.sample.name)' = Amplitudes(n)
      /\ Total(work.sample.name)' = Total(n)
      /\ NoiseFirst(n)
  BY <1>1, <1>2 DEF Amplitudes, Total, RulesOn, rules, NoiseFirst
<1>4. CASE First
  <2>1. Amplitudes(n)[0] = 0
    BY AmplitudesSum DEF Base
  <2>2. QED
    BY <1>3, <1>4, <2>1 DEF First, Within
<1>5. CASE UNCHANGED <<mutex, work, cache>> /\ Steady /\ HasSample
  <2>1. Past("reduce")' = Past("reduce")
    BY <1>1, <1>5 DEF Past, RulesOn, rules
  <2>2. QED
    BY <1>2, <1>3, <1>5, <2>1 DEF NoiseInv, BlurredInHand
<1>6. CASE NoMatch \/ Keep \/ Drop \/ ReduceHit \/ ReduceMiss \/ AddNoise
  <2>1. work'.sample.name = work.sample.name
    BY <1>6, PastGrows
  <2>2. work'.rule - 1 = work.rule
    BY <1>6, RuleStep, RuleDoneHolds, SampleFacts, SetupFacts DEF Base
  <2>3. QED
    BY <1>2, <1>3, <1>6, <2>1, <2>2, RuleBlurs
<1>7. QED
  BY <1>4, <1>5, <1>6, NextInHand

\* A sample that has been through all rules.
LEMMA AllBlurred ==
    ASSUME Base, NoiseInv, SampleDone, NoiseFirst(work.sample.name)
    PROVE  Within(work.sample.noise, Total(work.sample.name))
<1>1. HasSample /\ work.rule - 1 = Len(rules)
  BY SampleFacts, SetupFacts DEF SampleDone, Base
<1>2. QED
  BY <1>1 DEF NoiseInv, BlurredInHand, Total

LEMMA NoiseHolds == Base /\ SamplesInv /\ NoiseInv /\ [Next]_vars => NoiseInv'
<1> SUFFICES ASSUME Base, SamplesInv, NoiseInv, [Next]_vars PROVE NoiseInv'
  OBVIOUS
<1>1. setup' = setup
  BY StepKind, SampleDoneOut DEF Quiet, Steady
<1>2. \A n : /\ NoiseFirst(n)' <=> NoiseFirst(n)
             /\ Total(n)' = Total(n)
  BY <1>1, SetupStays, AmplitudesStay
<1>3. CASE Quiet
  <2>1. cache' = cache /\ \A t \in Scrapes : Out(t)' \subseteq Out(t)
    BY <1>3 DEF Quiet
  <2>2. QED
    BY <1>2, <2>1, BlurredHolds DEF NoiseInv, Within
<1>4. CASE SampleKept
  <2> DEFINE s == work.sample
             n == work.sample.name
  <2>1. /\ \A m \in Names : m # n => cache'[m] = cache[m]
        /\ ~work.mustCache => cache'[n] = cache[n]
        /\ work.mustCache => cache'[n].sample = s
        /\ \A t \in Scrapes : \A p \in Out(t)' : p \in Out(t) \/ (t = mutex /\ p = s)
    BY <1>4, KeptFacts
  <2>2. NoiseFirst(n) => Within(s.noise, Total(n))
    BY <1>4, AllBlurred DEF SampleKept
  <2>3. ASSUME NEW m \in Names, NoiseFirst(m), cache'[m] # NoEntry
        PROVE  Within(cache'[m].sample.noise, Total(m))
    <3>1. CASE cache'[m] = cache[m]
      BY <2>3, <3>1 DEF NoiseInv
    <3>2. CASE cache'[m] # cache[m]
      BY <2>1, <2>2, <2>3, <3>2
    <3>3. QED
      BY <3>1, <3>2
  <2>4. ASSUME NEW t \in Scrapes, NEW p \in Out(t)', NoiseFirst(p.name)
        PROVE  Within(p.noise, Total(p.name))
    BY <2>1, <2>2, <2>4 DEF NoiseInv
  <2>5. QED
    BY <1>2, <2>3, <2>4, BlurredHolds DEF NoiseInv, Within
<1>5. QED
  BY <1>3, <1>4, QuietOrKept

LEMMA InitNoise == Init => NoiseInv
  BY ConstantsAssumption DEF Init, NoiseInv, BlurredInHand, Out, HasSample

\* add_absolute_noise before reduce_time_resolution: the noise of what is returned is
\* within the sum of the amplitudes, each rounded to its quantum; it is not added again to
\* what comes out of the store.
THEOREM NoiseIsBounded == Spec => []NoiseWithinAmplitude
<1>1. Base /\ SamplesInv /\ NoiseInv /\ [Next]_vars => NoiseInv'
  BY NoiseHolds
<1>2. ASSUME Base, NoiseInv, NEW t \in Scrapes, NEW s \in published[t], NoiseFirst(s.name)
      PROVE  Within(s.noise, Amplitudes(s.name)[Len(rules)])
  BY <1>2, PublishedIsOut DEF NoiseInv, Total
<1>3. Base /\ NoiseInv => NoiseWithinAmplitude
  BY <1>2 DEF NoiseWithinAmplitude
<1>4. QED
  BY <1>1, <1>3, InitNoise, BaseHolds, SamplesHold, PTL DEF Spec
=============================================================================
