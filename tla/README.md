# metrics-proxy in TLA+

metrics-proxy is a filtering HTTP proxy in front of Prometheus exporters. A
client scrapes a path of the proxy; the proxy scrapes the backend behind it,
drops, thins out or blurs the metrics as its configuration says, and may keep
the response, and single samples, for a while. This directory models what of it
is hard to test: the response cache and its locks, the sample store that
concurrent scrapes share, the timeouts around both, how a configuration
becomes servers, how these start and fail together, and how a page is put together.

Paths below are relative to the repository: the crate is in `src/src`.

## Inventory

| Component | State | Operations | Interacts with | What is hard | What makes it correct |
|---|---|---|---|---|---|
| **DeadlineCacher** (`cache.rs:112-223`) | hash map of entry guards under one tokio Mutex; a RwLock and a value per guard; one removal task per fetch that ended | `get_or_insert_with`, the removal | called by CacheService, which hands it the fetch as a future; dropped with the request by the timeout layer | every await is an interleaving; the Mutex is held across one of them; the future may be dropped at any of them; removal is by key | at most one fetch per key, hits for the right key and in date, values stay for the duration and no longer, nobody waits for ever |
| **CacheLayer, CacheService** (`cache.rs:225-379`) | one DeadlineCacher per path, two counters | `call` | wraps the handler; asks DeadlineCacher | what the key contains against what reaches the backend; what is cached | successes only are shared, between requests that would have got the same |
| **SampleCacheStore, apply_filters** (`cache.rs:26-110`, `proxy.rs:283-420`) | per proxy, the last stored sample per metric and label set, under a std Mutex that may be poisoned | `get`, `put`; keep, drop, reduce_time_resolution, add_absolute_noise | called by the handler once per successful scrape, concurrently | the clock is read before the lock; rules act on each other; a panic poisons | stored values change once per resolution, clients see no value go back, noise is bounded and added once, the last verdict counts |
| **MetricsProxier::handle, scrape** (`proxy.rs:210-281`, `client.rs`) | none of its own | one scrape of the backend, its outcome turned into a response | called through the cache; calls the filters | timeouts, all kinds of failure | the status tells what went wrong |
| **Server::serve** (`server.rs:112-257`) | a router with its layers, per address; a task per connection | route, bind, accept, handshake, serve | builds the layers from an HttpProxy; hands connections to hyper | order of the layers, timeout against answer, clients that say nothing | each request gets an answer in time, 504 means that the backend was late, nobody keeps others from being accepted |
| **Config** (`config.rs`) | none once loaded | parse, check for conflicts, group by address | feeds `main` | proxies share servers; checks look at the first proxy of an address only | each proxy is served as it asked, and a file is refused exactly for cause |
| **main** (`main.rs`) | a set of server tasks | load, start all, wait for the first failure | everything | one of several fails or panics, while the others serve or not yet; addresses that only the operating system knows to be one | all serve, or the process ends and says why |
| **Rendering** (`proxy.rs:101-208`) | the HELP texts not yet written | samples to text | last step of the handler | a sorted iteration with a side effect; tests sort the lines | metrics in one group each, HELP and TYPE once and first, no sample lost or moved |
| **Header relaying** (`proxy.rs:20-99`) | the headers so far | clone with exclusions | handler | repeated headers | hop-by-hop headers stay behind, the others keep their first value |
| **CacheMetrics, telemetry** (`metrics.rs`) | counters | add | CacheService, router | what is counted when a request waits, is dropped, or fetches after all | a hit or a miss per answer of the cache |
| **TokioTimer** (`tokiotimer.rs`) | one Sleep per connection | sleep_until, reset | hyper, which resets the Sleep for each later request | a reset that goes nowhere is silent | each head gets its time |

A request runs through the layers from the outside in: telemetry, 408-to-504,
timeout, router, then per path the cache layer (only with a `cache_duration`),
the body timeout, and the handler. Dropping the future of an outer layer drops
everything inside, at whatever await it is; that is how a timeout or a client
that hangs up reaches the cache.

## Modules

| Module | What it models | State and actions |
|---|---|---|
| `DeadlineCacher` | `get_or_insert_with` and its removal task | see below |
| `DeadlineCacherProofs` | its theorems | |
| `CoalescingCache` | the abstract specification: what a coalescing cache promises its callers | ask, fetch, serve, give up, expire |
| `DeadlineCacherRefines` | the refinement mapping from `DeadlineCacher` to it | |
| `RefinementProofs` | that every step of the one is a step of the other | |
| `SampleFilter` | `apply_filters` and `SampleCacheStore`, under scrapes that overlap | one action per scrape fetched, per lock, per rule applied to a sample in hand, per return |
| `SampleFilterProofs` | its theorems | |
| `Config` | `Protocol`, `ListenerSpec`, `ConnectTo`, `Config::try_from`, `From<Config>` | the three loops, one proxy per step |
| `ConfigProofs` | its theorems | |
| `Induction` | lemmas about natural numbers that the proofs about loops use: a set of them has a least element, and induction over a set | |
| `Gateway` | `Server::serve`, `CacheService::call` with its counters, `handle`, `scrape` for a cached and an uncached path; composes `DeadlineCacher` | arrival, cache, fetch, timeouts |
| `GatewayProofs` | what `Gateway` takes from the proofs about the cache, its own theorems, and that it implements `CoalescingCache` | |
| `Startup` | `main`, the way of `Server::serve` to its accept loop, the connections, `TokioTimer` | load, spawn, join; route, bind, serve; connect, accept, handshake, head, answer |
| `StartupProofs` | its theorems | |
| `Exposition` | `handle` from the backend's answer to the page: header relaying, filtering, `render_scrape_data` | one action per header, per sample filtered, per sample rendered |
| `ExpositionProofs` | its theorems | |
| `MC...` | values for the constants of each | |

**DeadlineCacher.** A request is one call of `get_or_insert_with`, and names
the guard and the removal task ("reaper") it may create. `queue` and `mutex` are the tokio
Mutex, which is fair; a request that can be served at once takes and releases
it within one step, since there is no await in between, and `mutex` is set
only while a request awaits `entry.read()` with the Mutex in its hands.
`guard[r]` is the RwLock and the content of the guard that `r` made, `variants`
the map. `Call`, `LookUp` (`Hit`, `Miss` or `AwaitGuard`), `GuardReleased` and
`FetchDone` are the code between two awaits; `Cancel` is the drop of the
future, whose destructors release what it holds; `ReaperWake` and `ReaperRun`
are the removal task. A reaper fires at most `MaxLag` ticks late. With `Prompt`
no time passes while a task could run, which leaves out an overloaded runtime;
the runs without it leave it in.

**CoalescingCache.** Its state is where each caller is, the value that can be
served for each key (`store`), and the keys that have lost their promises
(`uncacheable`). A caller fetches only if there is no value and, with the promises
on, nobody else is fetching; who asked in time is served; a value goes when its
time is over. `DeadlineCacherRefines` maps the cache to it: `store` is what stands
in the map under an unlocked guard with a value, and waiting for the Mutex and for a
guard are one kind of waiting. Locks, guards and reapers are not mentioned.

**SampleFilter.** A scrape is one fetch and one call of `apply_filters`; `readAt`
is when the backend produced its values, and the call comes at most the
connector's timeout later, in any order with the others. `setup` chooses the rules,
what the backend may serve, that timeout and the clock. `stamp` is `now` as
it was read before the lock, `work` the loop's local variables, and each rule of
each sample is a step, so that a panic can happen in the middle. A sample is
its name (metric and labels), the scrape that brought it, and the noise added
to it; a regex is the set of names that it matches. The noise is an integer,
rounded to the quantum as `f64::round` does. `poisoned` is that of the std
Mutex.

**Config.** `file` is what the configuration says, with certificate files
reduced to "absent, unreadable, unusable, or this certificate". The loops of
`serde_yaml::from_reader`, `Config::try_from` and `From<Config>` are stepped
proxy by proxy; errors come in the order of the checks.

**Gateway.** A server with a path that has a `cache_duration` and one that has
none. All variables of `DeadlineCacher` are variables of `Gateway`, and its
actions are the cache's with what surrounds them: `Arrive` calls the cache or,
where there is none, starts the fetch (`direct`); `FetchEnds` decides by the
status what is cached; `TimeOut` and `Drop` cancel. Since each of its actions is an action of the cache or leaves the cache alone, the proofs about the cache can be used in it. The timers of the request
and of the fetch bound the clock. `hits` and `misses` are counted where the code
adds to them, after the await of the cache. The outcomes of a fetch are metrics, an
unusable body, another status, failure and timeout. For what clients see of the
cached path, `asking`, `servable` and `failing` map the server to `CoalescingCache`: what can be
served is told by the status its first client got, not by the guard.

**Startup.** `task` is where the task of each server is, `main` and `code` the
process, `conn` each connection. `valid` and `wanted` are what `Config` decides: a
file that is refused or accepted, and the servers it asks for. `Clashing` are servers whose
addresses differ in the configuration and are one to the operating system. A client
connects to a bound socket whether or not anybody accepts there yet. `timer` is
the one Sleep of an HTTP/1 connection, `waited` what has really passed.

**Exposition.** The loops of `safely_clone_response_headers`, `apply_filters`
and `render_scrape_data` as steps. The verdict of the filters on a sample is part of the
input; `SampleFilter` is about how it comes about. Names of metrics are numbers
in the order of the names; a line is a sample or the HELP and TYPE of a metric.

Synchronisation primitives and clocks of libraries (the fair tokio Mutex, the
tokio and std clocks) are modelled from how the code uses them and marked
external in `PROJECT.json`; everything else is mapped to its lines.

## Runs

Runs that pass:

| Run | Question | Bounds |
|---|---|---|
| `DeadlineCacher_safety` | Is whatever stands in the map going to be removed, are hits right and fresh, and are calls consolidated and values kept until something uncacheable comes back for their key? Is `CoalescingCache` implemented? | 4 calls, 2 keys, any outcome and drop, arbitrary delays |
| `DeadlineCacher_live` | Does every call end, and every value leave? | 3 calls, 2 keys, prompt |
| `SampleFilter_store` | Does `reduce_time_resolution` hold its promises, with noise before, after and without, does the last verdict count, what makes a scrape panic, and what is left after it? | 3 overlapping scrapes of 1 metric, or 2 metrics in any order or absent; 6 instants; one rule list per way in which actions meet; timeouts up to the resolution; a clock that starts before the resolution fits |
| `Config_files` | Which files are accepted, and what do they become? | every single listener and backend, regexes that compile or not; up to 3 sound proxies on 2 addresses, 2 paths, 3 identities, telemetry |
| `Gateway_serves` | Are failures kept to the request that met them, is every 504 earned, do the counters add up, is a backend that answers with successes asked once per `cache_duration`, do its clients see a `CoalescingCache`, and does the cache come free whatever the backend does? | 3 requests, 2 cached resources and an uncached one, success, failure, silence; timeouts of 1 and 2 ticks |
| `Startup_serves` | Is every end of the process earned, does it serve all or end, is every client accepted, and does each head get its time? | 2 proxies, one of them with TLS, that clash or not, and telemetry, any of them asked for; 2 connections, each with any number of requests; a timeout of 1 tick |
| `Exposition_pages` | Is the page well formed and complete, and do the right headers come with it? | up to 3 samples of 3 metrics and 5 of 2, any verdicts and documentation; up to 3 headers of 4 names |

Why the bounds are enough. The races of the cache involve a request whose
guard or value is in the map, one that waits for it with the Mutex held, one
queued behind, and a reaper: three requests on one key, a fourth for another key.
Reapers need no calls of their own. One or two ticks of duration separate "not yet"
from "due" and "overdue". In the store two scrapes can disagree on time, and a third looks at the
result; two rules can interact, and a third one overrides. Two proxies
on an address can clash; a third shows what the comparison with the first
one misses. Two servers can be up and down at once, and with the telemetry's there is a
last one; a connection that is slow needs one other to be kept waiting. A metric whose
samples are apart, with one of another metric between them, takes three samples, and
five show a stable order of more than two.

Deadlock is checked in every run: a specification may stutter only where no call,
scrape or request is left to serve (`AtRest`). Removal tasks that are stuck then
are what `ValuesAreEvicted` finds.

Runs that are expected to fail, each against a sentence of the documentation:

| Run | Property | What happens |
|---|---|---|
| `DeadlineCacher_contention` | `NoContention` | the Mutex is held while waiting for another fetch (`cache.rs:164`), and other keys wait with it |
| `DeadlineCacher_flights` | `SingleFlight` | the reaper of an uncacheable fetch removes the next fetch's guard (`cache.rs:208`): two fetches at once |
| `SampleFilter_frozen` | `ServedWithinResolution` | of two resolutions for one metric the longer finds a stored sample and the shorter misses it, so it is stored anew under the present time (`proxy.rs:410`) and served when it has the age of the longer one |
| `Config_timeouts` | `TimeoutsAsAsked` | the first proxy asks for 5 seconds and the second for nothing; the first one's timeouts apply to all on its address (`config.rs:619`) |
| `Gateway_forward` | `CachedCorrectly` | query string and credentials are in the key but never reach the backend (`client.rs:62`) |

Seen while modelling, and not given a run of their own:

* The reaper of an uncacheable fetch may also remove the next fetch's value before
  its time; `CachedForDuration` and `ConsolidatedWhileCacheable` therefore speak
  of keys for which nothing uncacheable has come back (`CacheableKeys`).
* A request queued before the reaper is served a value past its time
  (`HitsAreFresh` compares with the arrival of the request).
* A dropped fetch leaves an empty guard in the map, with nobody to remove it
  (the exception in `EntryHasReaper`).
* The configuration cannot see that 0.0.0.0 and a local address with the same port are one to
  bind: it accepts both, and the second bind fails when the servers start (`config.rs:490`;
  `ClashEndsAll` of `Startup` says what becomes of it).
* Rounding to the quantum goes past the amplitude (`proxy.rs:360`; the bound in
  `NoiseWithinAmplitude` is rounded as well).
* The default `request_response_timeout` is 35 s whatever the connector's timeout
  is (`config.rs:224`), though README.md:88-89 says 5 seconds more than that.
* A backend's own 408 becomes 504 (`server.rs:126`), and requests that waited for
  an uncacheable response fetch one by one, so that the last ones get 504 from
  a backend that is in time (both are admitted in `LateMeansLate`).
* With a connector timeout longer than the resolution, a scrape whose values are
  older than the stored ones may be filtered when those have run out, and clients see
  a value go back in time; `ReadsDoNotGoBack` is for timeouts up to the resolution.
* `header_read_timeout` begins with the first byte of a request, on HTTP/1: a client
  that connects or shakes hands and says nothing more is not timed at all
  (`server.rs:218-243`), and neither are the heads of HTTP/2.
* Paths that are different texts and match the same requests pass the configuration, and
  panic in the router (`server.rs:153`): the process exits with 101, not 71. With
  neither proxies nor telemetry it exits with 0 at once.
* Of a response header that is repeated only the first value is relayed
  (`proxy.rs:42`), a metric without a HELP loses its TYPE (`proxy.rs:185`), timestamps
  are not rendered, and a response other than 200 is passed on unfiltered
  (`proxy.rs:239`). The Content-Type of the backend goes with the page, though the page
  is always the classic text format.
* The timeout layer ends with the head of the response; README.md:88-91 includes
  the last byte sent.

## Fairness

`DeadlineCacher!FairSpec` assumes that a task that has been woken is polled
(`LookUp`, `GuardReleased`, `ReaperRun`), that timers fire (`ReaperWake`), that
time goes on, and that a fetch ends, because `scrape` gives the whole exchange
`connect_to.timeout`. `Gateway!FairSpec` does without the last assumption: the
backend need never answer, and it is the timers of the connector and of the
timeout layer that end a fetch or a request. Nothing obliges a client to ask or
to hang up. `Startup!FairSpec` assumes that the tasks that are ready run: main,
each server on its way to the accept loop, and the loop for each client that waits (so it
leaves out an `accept` that fails for ever, for want of file descriptors). Clients
need not speak, and time need not pass.

## Theorems

For all constants that satisfy the assumptions of the module: of the cache, any
set of requests and keys, any duration and lag, prompt scheduling or not. The assumptions
(`ConstantsAssumption`, `NoEntryAssumption`, `FilesAssumption`, `NoneAssumption`) give the constants
their types and say that a value that stands for "nothing" is none of the things. Every safety
property that a passing run checks is stated by a theorem, for every instance.

### The cache and the server

* `TypeCorrect`, `EntriesAreReaped`, `CacheHitsAreFresh` (`DeadlineCacherProofs`):
  `TypeOK`, `EntryHasReaper` and `HitsAreFresh` always hold. Neither of the
  last two is inductive. That a hit is fresh rests on the order of the Mutex's queue:
  a reaper that is due is in the queue, so a request that joins later finds the
  entry gone. `IInv` says so: `QueueInv` (each request and each reaper is in
  the queue exactly while it waits, and once), `MutexInv` (who holds
  the Mutex across an await finds its entry), `GuardInv` (a guard is locked
  exactly while its maker fetches, and a reaper exists only for fetches that
  ended), `MapInv` (an entry stands under its own key), `TimeInv` (no sleeping
  reaper is past its deadline) and `OrderInv` (no request stands before a reaper
  whose deadline it has missed). One lemma per action shows that it
  is preserved, `Invariance` puts them together.
* `Consolidation`, `Retention`: `ConsolidatedWhileCacheable` and
  `CachedForDuration` always hold, whatever fetches come back with and whichever
  are dropped. `OwnerInv` adds that for a key of which nothing uncacheable has come
  back, a guard that is being fetched, or whose reaper has not run yet, is the one
  the map has under the key; `ReapInv` says that every cached value has a reaper
  and that no reaper leaves its sleep early. The run `DeadlineCacher_flights` shows
  that the condition on the key is needed.
* `Implementation` (`RefinementProofs`): `DeadlineCacher` implements
  `CoalescingCache` (`ImplementsCache`). The invariants above are what each step needs: a look-up
  that finds nothing is a `Fetch` because an unlocked empty guard is a dropped one
  and, with the promises on, a fetch in flight would be the one in the map (`OwnerInv`); a
  hit is a `Serve` by `OrderInv`; a reaper that runs is an `Expire`, and only
  of what is past its time or has lost the promises (`ReapInv`). Lookups that end in waiting,
  wake-ups and hand-overs of locks are stutters. One lemma per abstract action.
* `ServedFresh` (`GatewayProofs`) carries `HitsAreFresh` over to the server, by the inductive
  invariant of the cache: the lemma `CacheStep` says that a step of `Gateway` is one of
  the cache's or leaves it alone.
* `OnlySuccessesAreShared`, `LateIsLate`, `CountersAddUp`, `TypeCorrect` (`GatewayProofs`):
  `ErrorsAreNotShared`, `LateMeansLate`, `CountsAddUp` and `TypeOK` of `Gateway`, for any
  timeouts and any backend. `StatusInv` rests on the cache's `IInv` and adds `RequestInv` (a request
  takes one path; it has a status or a result only when it is over; a fetch that meets no
  cache is never past the connector's deadline, so that its own timeout fires first only if it is
  the shorter one) and `ServedInv` (a guard with a value belongs to a success that will not
  change any more). `MoveEffect` and `AbortEffect` say what a step of the cache may do to
  what `Gateway` looks at. The counters need a finite set of requests; each step adds the one
  request to `Answered`, and to `Fetched`, that it adds to the counter.
* `BackendSpared` (`BackendIsSpared`): what `ConsolidatedWhileCacheable` and `CachedForDuration` say of guards and
  values, in terms of what the backend sees: two fetches of a resource whose answers are successes are
  `cache_duration` apart. `ReturnInv` ties a guard with a value to the status of its fetch, so that
  such a resource is one of the `CacheableKeys`; `FoundOrOver` then takes from `OwnerInv` and `ReapInv` that a
  look-up finds the last fetch's entry, or its time is over.
* `ServerCoalesces` (`ClientsShareSuccesses`): on its cached path the server implements
  `CoalescingCache` in terms of the statuses its clients got. It is not the refinement of
  `DeadlineCacher` over again: `ViewHolds` needs `ReturnInv` and `StatusInv` to say that a guard in the map has a value
  exactly if its client got a success, so that what the mapping here calls servable and failing is
  what the cache's calls `store` and `uncacheable`; `ViewSteps` then carries each step over.

### The sample store

For any number of scrapes, rules, samples and overlaps, and any clock and timeout. Each theorem
has its invariant of the two loops; each adds a conjunct to those before it. A sample is seen
in the store, in the hands of the holder of the lock, and in what a scrape has kept
(`Out`); all invariants speak of all three, because one step moves it from one to the
others (`SampleKept`), and `StepKind` sorts the steps by what they add.

* `TypeCorrect`, `PoisonStays`: `Base` knows where each scrape is and when it read the
  clock (at most `timeout` after its values were produced), who holds the lock and where
  it stands in its loops, and that a poisoned lock has no holder.
* `SamplesHold`: a sample in hand is the scrape's own, looked up in vain by all `reduce` rules so
  far, or it is the stored one (`HandInv`); an entry was saved after its scrape read the
  clock. `EntriesAreKept` (`EntriesLast`) follows: an entry is replaced only if a lookup missed, and
  a lookup by a scrape that read the clock before the entry was saved does not miss.
* `VerdictsAreLast` (`VerdictsHold`), by `VerdictInv`: the verdict so far is that of the last
  rule so far, and what has been kept is what those before it let through.
* `ValuesAreApart` (`ValuesChangeSlowly`), by `SlowInv`: what was ever kept of a metric is the
  stored sample, or a resolution older than it. Two values that differ are not compared with
  each other but each with the store.
* `PanicsHaveCause` (`PanicsAreEarned`), by `PanicInv`: a poisoned lock or a panic goes back to a scrape
  with a noise rule that has nothing to draw from; neither the clock nor the store makes one panic.
* `ServedInTime`: `ServedWithinResolution` holds where all `reduce` rules of a metric have one
  resolution. With two it does not (run `SampleFilter_frozen`), and the step that fails is the one the
  run shows: a sample found by one rule is stored anew because another missed it, so that
  `savedAt` is no longer the time of its scrape, which is what `ServedInv` says.
* `ReadsKeepOrder` (`ReadsDoNotGoBack`), by `KeptInv`: with a timeout up to the resolution, the
  store is as recent as anything ever kept (`NotAhead`), and what is in hand is no older
  than what was returned (`InOrder`). Values that are produced in the instant in which another
  answer goes out are the narrow case, and need `Recent`.
* `NoiseIsBounded` (`NoiseWithinAmplitude`), by `NoiseInv`: the noise in hand is within the
  amplitudes of the rules so far (`Amplitudes`, a sum over the rule list) or, once it came out of the store, of
  all; no rule is applied twice. That rounding keeps the bound is `QuantizedWithin`.

### Configuration

* `RefusalsHaveCause` (`RefusedForCause`), `ProxiesAreServed` (`ServedAsAsked`),
  `TypeCorrect` (`ConfigProofs`), for files with any number of proxies. The
  second loop compares a proxy only with the first one of its address. That this is enough is
  `CheckedInv`: all proxies checked so far speak the protocol of the first of their address
  and have a handler of their own. `SpecsInv` says what the first loop has parsed, `GroupInv` what
  the third has put where. `FirstErrorFound`: a list of checks yields an error if and only if one of them
  fails, by `LeastElement`.

### Start-up and rendering

* `ExitsAreEarned`, `HeadsAreTimed`, `TypeCorrect` (`StartupProofs`), for any number of
  servers and connections. `TaskInv`: a server has a task only if the configuration is valid and
  asks for it, so a join cannot end for another reason than the code says. `HeadInv`:
  while a head is awaited, what is left on the timer and what has been waited are
  `HeadTimeout` together; it is what a Sleep that is reset and not made anew has to keep.
* `HeadersAreRelayed`, `PagesAreWellFormed`, `TypeCorrect` (`ExpositionProofs`), for any
  responses. `HeaderInv`: after `n` headers of the response the page has the first values
  of those. `PageInv`: a documented sample that was kept finds its HELP where it still is, in
  `help` or on the page (`DocumentedInv`); the page is in order, a metric's HELP comes first
  and once (`OrderedInv`); and what is still to be rendered sorts behind what
  is on the page, whose HELP is gone from `help` (`NextInv`).
* `SamplesKeepTheirOrder` (`EachInItsOrder`): what is on the page and what is still to be rendered are
  together what the filters keep (`CompleteInv`); the rest is in the order in which the parser
  gave it, which need not be that of the backend's text (`KeptInOrder`), and of each metric what is on the page comes before the rest
  (`PageBeforeKept`), since a metric's first line is taken first.

### What is only model-checked

Liveness (the prover has no rules for `ENABLED`): `EveryCallEnds`, `ValuesAreEvicted`,
`CacheComesFree`, and of `Startup` `AllOrNothing`, `ClashEndsAll` and `EveryClientIsAccepted`.
Induction over the length of a list cannot be stated about a predicate here; the
proofs about rule lists use it about a set of lengths (`SetInduction`).

## Not modelled

* The inside of TLS and HTTP parsing, the body read timeout (no handler reads a
  body), and the sending of the body: libraries, and no state of this program.
* The text of a sample (`render_sample`, `render_labels`): numbers and labels as
  strings. The parser of the text format is a library's.
* `HttpMetricsLayer`, a library's layer around the router.
* A quantum of 0 (the value becomes NaN); clocks that are not monotonic.
* The YAML syntax, and what else `serde` refuses (unknown fields, URLs and durations that do not
  parse); `LoadError::ReadError`. That two addresses are one to the operating system is
  `Clashing` of `Startup`, not derived from the addresses.

## Plan

Done: `DeadlineCacher`, `CoalescingCache` and its refinement, `SampleFilter`
with scrapes that overtake each other, `Config`, `Gateway` with its counters and its
refinement of `CoalescingCache`, `Startup`, `Exposition`, and proofs of the safety properties
of all of them. To come, in this order:

1. `Gateway`: method and `Accept` beside the key, several cached paths on one server.
2. `SampleFilter` composed under `Gateway`: a scrape of the filter is a fetch of
   the gateway; poisoning as seen by clients.
