# OmegaCrawl in TLA+

This directory is a formal specification of OmegaCrawl, the website cloner in
`src/` (Go): TLA+ modules translated from its source, TLC configurations that
model-check them on small instances, and TLAPS proofs of what matters most for
every instance. Paths below are relative to `src/` unless they start with
`tla/`; `crawler/` stands for `internal/crawler/` and so on.

    tlc -workers 2 -config EngineFrontier.cfg MCCrawlEngine    # a run
    tlapm CrawlEngineProofs.tla                                # the proofs

`PROJECT.json` ties each definition to the lines it models, each property to a
mutation of the code that breaks it, each hazard to the properties that would
catch it, and lists the runs and the theorems.

## 1. The system

`Crawler.Start` (crawler/start.go) is the program. It seeds a priority queue of
URLs, starts a pool of browsers, and runs one dispatch loop that pops a URL,
checks limits, robots.txt, the rate limiter and the circuit breaker of its host,
and hands it to a goroutine: `crawlPage` drives a browser and queues the links
it finds, `crawlAsset` downloads a file. Other goroutines save the checkpoint,
watch the disk, prune maps, and serve the REST API, whose handlers pause,
resume and stop the crawl.

| component | state | operations | who calls it | what is hard |
|---|---|---|---|---|
| crawl engine (crawler/start.go, crawl_page.go, crawl_asset.go, status.go) | counters, `paused`, `resumeCh`, context, wait group, semaphores | the loop; `crawlPage`, `crawlAsset`; `Pause`, `Resume`, `Stop` | command line, API handlers, signals | every counter is shared; the loop reads several of them at different moments; six exits of an iteration release different things |
| deduplication (crawler/queueing.go, queue/bloom.go) | bloom filter, exact LRU set | `shouldQueue`, `QueueURL` | page goroutines | check, mark and push are three steps; false positives |
| local queue (queue/ops.go, heap.go) | heap, seen set | `PushURL`, `PopURL`, `Snapshot`, `LoadFromCheckpoint` | loop, page goroutines, checkpoint | a full queue loses a URL; order is among what is queued |
| checkpoint (crawler/checkpoint.go, periodic.go) | one file | save, load, remove | a ticker, start and end of `Start` | crash at any step; two savers |
| circuit breakers (resilience/circuitbreaker.go) | a map of breakers: state, counts, time stamps | `Allow`, `Success`, `Failure`, `Cleanup` | loop, page goroutines, ticker | atomics and a mutex side by side |
| distributed queues (queue/redis.go, postgres.go, kafka.go) | a shared list and seen set | as the local queue | several crawlers | two statements where one is needed; crash in between |
| coordinator (coordinator/) | lock files or Redis keys, workers, leadership | `AcquireLock`, `ReleaseLock`, `RegisterWorker`, leader election | `Start`, `Stop` | leases, expiry, several processes |
| browser pool (browserpool/) | slots, and the next one, under a mutex | `Start`, `Acquire`, `HealthCheck`, `Close` | page goroutines, ticker | a restart outside the mutex |
| assets (crawler/assets.go, asset_downloader.go) | content hashes, caches, worker channels | `saveCapturedResource`, `Execute`, `Submit` | page goroutines | placeholder entries; bounded channels |
| rate limiter (ratelimit/) | a token bucket per host | `Wait`, `Allow`, `ObserveLatency`, `Cleanup` | loop, page goroutines | read, then create; adaptive delay; clean-up under a caller |
| bounded structures (util/, sync/, pool/) | ring, LRU set and cache, memory budget, shards | push, add, get, reserve, release | everywhere | index arithmetic, eviction, condition variables |
| storage (storage/) | open WARC and WACZ files, incremental cache | `WriteRecord`, `Close`, `Save` | page goroutines, end of `Start` | write after close; partial writes |
| API and web UI (api/, webui/) | the current crawl | start, stop, pause, resume, status | HTTP clients | two requests at once |
| scheduler (scheduler/) | jobs and timers | `Add`, `Start`, `Stop`, `runJob` | nobody yet | a timer that fires after `Stop`; a second `Start` |
| page pipeline (crawler/do_crawl.go, capture.go, wait.go, network/) | a pool of interceptors, what each has seen and fetched, the site aggregate | `doCrawl`, `FetchBodies`, event handlers | `crawlPage`, the browser | bodies that come late, to another page's interceptor; a pool that is empty |
| rules (queue/strip.go, queue/glob.go, robots/) | none | pure functions | loop, page goroutines | corner cases: `..` above the root, `**`, which group of robots.txt is ours |
| offline copy (repair/, localize/) | the files of a finished clone | `repair.Run`, `localize.Run`, `Dedup` | end of `Start` | a reference must name what the pass kept |
| text work (rewrite/, audit/, markdown/) | none shared | pure transformations | pipeline, end of `Start` | corner cases of strings |
| access (auth/, captcha/) | one OAuth token, one login tab, cookies | `Authenticate`, `Solve` | page goroutines | a refresh token is good for one use; pages share the login tab; a paid task per attempt |
| change detection (changedetection/) | snapshots in memory and on disk | `CaptureSnapshot`, `CompareWithPrevious`, `LoadSnapshots` | pipeline | two snapshots in a second; what a reload brings back |
| outside services (notify/, plugin/, tracing/, jsengine/) | none shared with the crawl | calls under timeouts | pipeline | - |

How they interact: the loop and the page goroutines share the queue, the
deduplication sets, the counters and the breakers by memory; semaphores are
buffered channels; control calls set atomics and use one channel of capacity 1;
processes share nothing but the checkpoint file, or the distributed queue and
the coordinator.

What makes each part correct:

- *engine*: each URL is crawled at most once; a URL found is crawled unless a
  rule says otherwise; limits hold; counters are exact when they are read;
  `Stop` ends it, `Pause` holds it, `Resume` wakes it;
- *checkpoint*: the file is always one consistent state; nothing recorded as
  visited is crawled again; nothing that still has to be crawled is missing;
- *breaker*: an open breaker refuses, a half-open one admits a bounded number
  of probes, a failing host trips it, and no host is refused for ever;
- *distributed queues*: as the local one, over crashes and several processes;
- *coordinator*: one holder of a lock, one leader, no operation blocks for ever;
- *browser pool*: a browser has one user; no slot is lost; none outlives `Close`;
- *bounded structures*: they behave as the plain structure they optimise;
- *capture*: what a page has loaded is saved or asked for again, and the path a
  URL is mapped to has its content;
- *archives*: what was accepted before the close is in a file that ends, unless
  writing that file failed;
- *access*: a refresh token that is known to be exchanged is not presented again,
  and a page costs a bounded number of paid tasks;
- *offline copy*: a link that was made relative leads to a file that is there;
- *scheduler*: no minute an expression names is missed or used twice, and a job
  that is stopped stops.

## 2. The modules

| module | models | built on |
|---|---|---|
| `CrawlFrontier` | what the frontier promises (abstract) | - |
| `CrawlEngine` | one crawl in one process | refines `CrawlFrontier` |
| `CrawlRestart` | the checkpoint, crashes and restarts | extends `CrawlEngine` |
| `CircuitBreaker` | the breakers of one host | - |
| `FileCoordinator` | leader election among the processes of one machine | - |
| `RedisCoordinator` | leader election, locks and the registry by Redis | - |
| `SharedFrontier` | what a frontier shared by processes promises (abstract) | - |
| `DistributedQueue` | the queues of several crawlers in Redis, Postgres and Kafka | refines `SharedFrontier` |
| `PageCapture` | pages from tab to links, with the pool of interceptors | - |
| `PageAccess` | authentication and challenges before a page | - |
| `AssetStore`, `AssetDownloader` | saving bodies once; the batch downloader | - |
| `BrowserPool`, `RateLimiter`, `MemoryBudget` | what pages share and wait for | - |
| `Archive`, `ChangeDetector`, `OfflineTree` | what a crawl leaves behind, and the passes over it | - |
| `BoundedStructures`, `UrlRules`, `Scheduler` | ring and LRU list; rules on URLs; cron jobs | - |
| `CrawlEngineProofs`, `CrawlRestartProofs` | theorems about `CrawlEngine` and `CrawlRestart` | the second extends the first |
| `CircuitBreakerProofs` | theorems about `CircuitBreaker` | extends it |
| `DistributedProofs` | theorems about `DistributedQueue` and both coordinators | extends them |
| `UrlRulesProofs` | theorems about `UrlRules`, and lemmas about its operators | extends it |
| `PageProofs` | theorems about `PageAccess`, `PageCapture`, `AssetDownloader`, `AssetStore`, `BoundedStructures` | extends them |
| `SharedResourceProofs` | theorems about `MemoryBudget`, `BrowserPool`, `RateLimiter`, `Scheduler` | extends them |
| `ArchiveProofs` | theorems about `Archive`, `OfflineTree`, `ChangeDetector` | extends them |
| `MCCrawlEngine`, `MCCrawlRestart`, `MCCircuitBreaker`, `MCFileCoordinator` | instances for TLC | the above |
| `MCFrontiers`, `MCCoordinators` | the checkpoint and the three shared queues; both coordinators | the above |
| `MCComponents` | fourteen of the components above, one at a time | the above |

### CrawlEngine

The *dispatcher* is the goroutine that runs `Start`; `dpc` is its place in it and
`cand` the item it popped. A *worker* is the goroutine of one URL; since a URL is
popped at most once (a theorem, below), it is named by the URL and `pc[u]` is
its place. A buffered channel used as a semaphore is the set of URLs that have a
token in it. The rest of the state has the names of the code: `queue`, `seen`,
`paused`, `resumeCh`, `activePages`, `wg`, `hostURLCount`, `totalURLs`.

A step is what lies between two accesses to state another goroutine can change:

| step of the code | actions |
|---|---|
| start.go:27-100, reset, seeds, sitemap | `StartCrawl` `ResetPause` `SeedQueue` `Launch` `LaunchFailed` |
| loop head: context, pause, limit | `CheckContext` `CheckPaused` `PauseWoken` `PauseCancelled` `CheckLimit` |
| pop, empty queue, poll | `PopURL` `PopNothing` `CheckActive` `SleepOver` `SleepCancelled` |
| depth and host limit | `Refuse` `Admit` |
| assets: patterns, breaker, semaphore | `AssetRefused` `AssetPasses` `SpawnAsset` `AssetCancelled` |
| pages: host token, robots, rate, breaker, page token | `TakeHostSlot` `HostSlotCancelled` `PageRefused` `PagePasses` `SpawnPage` `PageCancelled` |
| `crawlPage` attempts and back-off | `Begin` `Capture` `FailAttempt` `Abandon` `Retry` `RetryCancelled` |
| `QueueURL` per link: check, mark, push | `ChooseLink` `SkipLink` `MarkLink` `PushLink` |
| deferred calls of a goroutine | `FreeHost` `FreeSem` `Deactivate` `WgDone` |
| drain and end | `Drained` `DrainAbandoned` `Cleanup` |
| status.go, crawler.go | `Pause` `Resume` `ResumeSend` `Stop` |

Abstractions: the site is a constant graph (`Links`), what a refusal depends on
outside the crawl (robots.txt, the breaker, a pattern) is a free choice, the
capture of a page succeeds or fails, and the rate limiter's `Wait` is part of
the gate. A `select` with several ready cases is several enabled actions.

Properties the runs check, and why each could fail:

- `ImplementsFrontier`: two pages find the same link, both pass `shouldQueue`
  (it reads under a read lock and marks later) and both push it; the queue's own
  seen set is what keeps the URL from being crawled twice. The refinement
  mapping is `StageOf`: queued when in the queue, taken while the dispatcher or
  a goroutine has it, settled after.
- `CountersExact`: the exit test reads `activePages`, the drain waits for `wg`;
  they are raised and lowered at different places.
- `MarkedIsQueued`: a URL is marked before it is pushed, so a URL marked and not
  pushed would be lost silently. It is stated for a queue that does not fill.
- `ConcurrencyLimits`, `NoTokenLeak`, `LimitOverrun`, `HostLimitRespected`: the
  three semaphores over all six exits of an iteration; the limit on URLs is
  tested in the loop and counted in goroutines, and is overrun by the semaphore
  capacities at most.
- `NoLostResume`, `PauseTakesHold`: `Resume` clears the flag and then sends on a
  channel of capacity 1, dropping the signal when it is full; `Pause` may come
  between the pause test and the pop.
- `StopEndsCrawl`, `EndsUnlessPaused`: liveness.

### CrawlRestart

`CrawlEngine` with the file. A save is four steps (wait for the mutex, copy the
host counts, snapshot the queue, write), done by a ticker's goroutine and by the
end of `Start`; `NewProcess` is a crash, a kill, or the next run of a program that
ended, enabled at every step. `SaverWrite` may fail without effect. The write is
one step, for the code writes a temporary file and renames it. `settled` and
`restored` are history variables of the properties.

`CheckpointConsistent` is not obvious: the counts are copied before the snapshot
is taken, with pops in between; in that order a host may be charged too little,
never for a URL still in the queue. `VisitedGrows` fails when the final save does
not exclude the periodic one, `NoRecrawl` when part of the state is not restored.

### CircuitBreaker

One record per breaker with the fields of the Go type, plus the mutex, the age
of its two time stamps in ticks, and two history counters: `passes`, the requests
let through since the state last changed, and `streak`, the failures in a row.
The dispatch loop is the only caller of `Allow`; each atomic load, swap and store
in it is a step, and each section under the mutex. `Success` and `Failure` hold
the mutex over two steps, as `Allow` changes the state without it. `Cleanup`
collects and then deletes; a deleted breaker lives on for the calls that have
it. `EndUnrecorded` is an asset, or a page cancelled in back-off: they take a
probe and never settle it.

The bounds in the properties are the exact ones the interleavings allow: one
request may pass an open breaker (admitted on a state read before it opened);
a half-open period admits its first request and `MaxProbes` per success; a
closed breaker may need `2 * FailureThreshold - 1` failures in a row, since a late
`ResetCounts` wipes the count once.

### FileCoordinator

Several crawlers with the file backend elect a leader in `checkLeader`, which
calls `AcquireLock("leader")` at each heartbeat. What matters is that flock
locks a file and not its name, so the state is the file that `leader.lock` names,
the files each process has open (`fd`) or recorded (`held`, the code's
`lockFiles`), and the owner and the content of each file. One action per system
call, with its error path; sections under `fc.mu` are one step each. `renewLock`
changes nothing and is not modelled; a lock is lost by `Stop` or by the death of
its process only. Worker IDs are taken to be different, which the code's
hostname and process number ensure on one machine as long as none is reused.

`OneLeaderByLock` relates what processes believe (`leaderID`) over crashes between
any two calls, and needs that nobody removes the name; `Stop` does, and with it
there can be two leaders (`file_coordinator_stop`). `Agreement` fails when an
error path keeps the lock or when a dead leader's ID is believed for ever.

### RedisCoordinator

The leader's key is set for `LockTTL` if it is absent and never renewed: it
expires under a live leader, and the election is a race that each worker enters
once per heartbeat. `rleader`, what a worker believes, is a cached value;
`LeaderLossLearned` says that a wrong belief does not last, over deaths, failed
commands and expiry, and needs that the worker reads the key before it expires
again (strong fairness).

A lock is renewed by a goroutine that ignores what its script answers and may be
late, so that a renewal is nothing the worker can rely on: it postpones the end of
a key that is still the worker's, and changes nothing else. The key may expire at
any time (`LockExpires`), under a live renewer too, and the worker is not told.
`lapsed`, a history variable, has the workers whose key is gone in this way, or by a
release of their own that was given up and that Redis ran later (`LateScript`).
`AcquireUnheard` is a key that was set for a worker that was told it was not.
`LockExclusive` is what remains: a worker that has noted the lock and has not lost it
so is the one Redis has as owner, whatever releases of earlier owners come late,
since the scripts compare the owner. That a worker who lost the key goes on in the
belief that it has it is listed below, among what the code does.

### DistributedQueue

A process is three goroutines (`push[w]`, `pop[w]` and the checkpoint `saved[w]`),
each a small state machine over the statements the code sends, and a store they
share: a list with a hash and a set (Redis), a table of rows and of visited URLs
(Postgres), a topic (Kafka, with the mirror of each process: `pendingSet`,
`unflushed`, `consumeSeenTopic`). A script is one step; what the code sends as
two statements is two. A statement may fail before or after the server has done it:
a pop whose reply is lost has taken the URL away (`RedisPop`, `PostgresPop`), a
write that fails may be in the topic all the same, once or twice
(`KafkaWriteUnheard`), and a commit may be known to the broker or not, which delivers
again what is not committed when it moves a partition (`Redeliver`). `faulted` has
the URLs an operation of which failed. A process dies and starts again, with its
checkpoint if there is one (`Restart`) or with the queue as it is (`StartAfresh`).

Redis loads a checkpoint by a pipeline that is no transaction: `RedisRestart` is its
DEL, `RedisLoadItem` the RPUSH of an item and `RedisLoadHash` its HSET, and
`RedisLoadVisited` the SADDs; others run in between, each command may be lost, and
the pipeline may be sent again. `Hashing(w)` is the item between its two commands and
`unhashed` those whose HSET was lost.

Until a crash, `HandedOutOnce` and `LostOnlyByFault` hold between all processes:
theorems, and what `ImplementsSharedFrontier` implies, so that no run lists them
again. After one, URLs may be handed out twice (the checkpoint is older than the list)
or, by the order of statements, not at all, so that they say nothing there.
`CheckpointCoversQueue` has the crashes: the hash of Redis, from which a
checkpoint is made, is behind the list by those two kinds of items only, while a
process loads and others push and pop; a message of Kafka is in the mirror of a process,
or about to be, unless its write or its delivery failed.

`SharedFrontier` is what a process may rely on, whatever the backend: a URL it has
found is added once, or skipped because it waits, was given out, is being added by
another, or a failure of it is on record; what waits is given out once, or lost to
a failure on record. `ImplementsSharedFrontier` maps the steps of the three
protocols to it: a URL waits from the statement that stores it to the statement
that settles its pop (`TokensOf`: copies in the store, and hands of pops), and a
process is about to add it from the check of its own set to the send (`Sending`).
The promise ends with the first crash, when a hand dies with what it holds.

### PageCapture

A page's stages are `ppc[p]`, in the order of `doCrawl` and `captureCurrentPage`:
`OpenTab`, `AcquireInterceptor` (or `AcquireTimesOut`), navigation and its
failures, `DiscoverRoutes`, `ExtractData`, `writeSiteAggregate`, `SaveHTML`,
`WaitFetches`, `TakePending`, `SaveResources`, `SaveMissing`, `QueueLinks`,
`CloseInterceptor`, `ReleaseInterceptor`, `CloseTab`; each early exit is a
disjunct. `event[<<p, u>>]` is a resource's life in the browser and
`intercept[p]` the interceptor the page took from the pool, whose state
(`seen`, `pendingBodies`, `fetching`, `resources`, `remaining`) is by interceptor:
a body fetched in a goroutine of one page arrives when its interceptor has been
reset and given to another. `seen` is an LRU set: a URL that is new to a full one
puts an old one out (`Evicted`), of which the interceptor then knows nothing.
`SeenIsHandled` follows each URL that had been loaded when `FetchBodies` took the
pending ones to the end of the page: it was saved, or listed as missing and asked for
again, though resources are capped and events go on arriving. It says nothing of a
URL that was put out of `seen`, nor of one that `saveMissingResources` does not ask
for: one that is invalid, excluded or on another domain (not in `Fetchable`).

### PageAccess

Two flows, one per configuration. OAuth: the mutex is held over the whole
refresh, so that two pages do not present the same refresh token. The server rotates
it (`spent`), keeps it, or refuses; or it rotates it and the answer is lost or cannot
be decoded (`unheard`): the code then still has the old token, and if the full
exchange fails as well the next page presents it once more. Challenges: two nested
retry loops; a submission that fails may have been accepted by the service, and is
repeated. `SpentOnce` is about both: a refresh token is not presented again once an
answer said that it was exchanged, and a page costs no more tasks than
`RetryCount * (RetryCount + 1)`, those counted that nobody heard of. `ParsesFound` is
`TRUE` in the run: the code's detection never succeeds (see below), and the run shows
what the loop does when it does. Login by form is not modelled: it shares a
tab and its cancel function among pages (see below), and nothing that these properties
relate.

### AssetStore and AssetDownloader

`saveCapturedResource` asks a filter of hashes, then a cache from hash to path,
saves, and tells both, with a lock for each and none over two of them. A URL goes
by one of five ways (`HashSeen`, `ByScript`, `CrawlAsset`, `FontSeen`,
`InScriptMarkup`) and its `apc[u]` is its place; a script that was saved is
fetched again by the walk that follows it (`ByScriptAgain`). `StoredAndMapped`
names everything that can come between a URL and its file: an evicted hash, a
false positive, a failed write, two URLs with one path, and a goroutine between
the filter and the cache. The downloader is workers between two bounded
channels: `Execute` submits all before it collects, and would block for ever if a
worker dropped what it cannot send.

### BrowserPool, RateLimiter, MemoryBudget

`BrowserPool`: `HealthCheck` looks at a slot under the mutex, launches without it,
and stores under it; `Acquire` restarts a dead browser in the same slot, and
`Close` may come before the store. `NoOrphanBrowser` says that no Chrome is left
running, but for the case the code has (`raced`): one `Acquire` started in a slot
that the check was replacing. `RateLimiter`: `get` reads the map, then creates
under the write lock and looks again. `TakeToken` is the reservation of
`rate.Limiter.Wait`: it takes a token that may not be there yet (`tokens` may be
negative) and sets the caller's `wake` by the rate of that moment, which
`ObserveLatency` may change while the caller sleeps. So a caller may go before the
slowed bucket has a token, and `RateRespected` says what holds instead: nobody goes
before one bucket for the host (`allowance`), from which all callers draw, would have
let it go (`turn`), however they meet in creating the limiter; and all of them
together never make more calls than the burst, one each, and those the fastest rate
gives (`quota`). `split` is the case the code has: `Cleanup` drops a limiter that is
in debt, or that a caller has read and not used yet. `MemoryBudget`: `cond.Wait` runs in a helper
goroutine that takes the mutex over from the reserver and hands it back by a
message; `helper[r]` and `mutex` follow who has it.

### Archive, ChangeDetector, OfflineTree

`Archive`: `writeRecord` is two steps, one writer after the other, each of which may
accept the record or refuse it. `closeWriters` is two as well; it ignores what both
return, and the writers keep their pointers, so that records may come after the close.
The WARC writer changes its file after `MaxRecords`; a gzip stream that has failed is
never replaced (`bad`) and refuses all that follows, and a file whose stream fails or
cannot be ended is `torn`. The WACZ writer keeps its records in memory and writes
the archive at the end, which may fail at many places (`zipFailed`). `ArchiveComplete`
says what a writer has let go of by then: nothing it accepted, but for files that
failed. The cache of validation headers is copied under its lock, which marks it as
clean, and written without it; a write that fails marks it as dirty again.
`CacheNotStale` has an update that comes between the copy and the write.

`ChangeDetector`: the newest snapshots in memory, all on disk under a name made of the
URL and the second, so that two may share a file. A snapshot takes the time before the
lock, and its file may not be written, or only emptied. A load lists the directory
(`LoadBegins`), reads the files without the lock and skips those it cannot read or
parse (`LoadReads`), and then replaces by them what is in memory (`LoadEnds`), while
captures go on. What it sorts by time is given by rank: the i-th snapshot of a URL is
the one that i - 1 others are newer than. `misfiled` has the URLs that met one of these
accidents: a snapshot not written, overwritten or skipped, one that overtook an older
one, or one that came during a load. For the others `HistoryTrue` says that memory has
the newest snapshots on disk, in their order: what a later run loads and compares with
is what this run would have compared with. `OfflineTree`: the three
passes in their order, with files that fail or are skipped, in any order of the
walk; `DocOf` and `WeightOf` are the canonical form and the noise of a URL.

### BoundedStructures, UrlRules, Scheduler

Each has the reference it is compared with: the sequence of the last items pushed;
the keys in the order of their use, which the pointers must follow both ways
(`Linked`); RFC 3986's paths without dots, read from the right; the meaning the
comment of `GlobMatch` gives its patterns; the first group of robots.txt that names
us.

In `UrlRules` a path is a sequence of names, and a text a sequence of tokens, one of
them the slash. A definition by recursion over a text is one by position, a set of the
places where the rest of a pattern matches, so that the proofs can follow it.
`url.Parse` takes the escapes out of a path once; what is left in it is read again by
`PathForURL`, and by the next `url.Parse` after `NormalizeURL` has written the path
without escaping it. So the constants say of each name what a second reading makes of
it: `Escape` (the segments it is when its escapes are taken out, which may be several,
or `..`), `Broken` (a `%` that begins no escape), `Before` (what is before a `?` or
`#`), `Tilde` (what it is with `~` for `%7E`), and whether it holds a dot (`Dotted`) or
`..` among other letters (`Twice`), which sends it to `_safe_path`. A path no second
reading changes is `Literal`.

- `NormalForm`: the normal form is that of RFC 3986 less a slash at the end, for every
  path whose `..` stay below the root; that the normal form of the URL so written is the
  same again is claimed for literal paths, and is false for others.
- `RefusedInNormalForm`: the same split, for the verdict of robots.txt.
- `FilesFit` is about the places that take a URL to a file or back. For any path, with
  whatever escapes, the file is within the host's directory. For a literal path with no
  name that holds `..`, a file's own URL leads to it again, a path and its normal form
  have one file, and no file stands where another needs a directory - each but for
  a name with a dot that is used as a directory (`/v1.0/`), where the code's guess that
  it is a file is wrong.
- `GlobsMatchLess`: patterns with no `*` but at the end match what their comment says;
  those with `**` match no more than that, and less (see below).
- `GroupsCount` is about the order of the groups of robots.txt.

`Scheduler` has a goroutine for each job and `Start`; its calendar is as short as
the constants say. An expression has five fields, or is an interval of any sign,
as `parseCron` takes it; `TimerOf` is what `runJob` makes of the next run, with its
second try for one in the past. `JobsKeepTime` says that while a job waits no
minute its expression names goes by, and that none is used twice, unless the
expression names none in the year ahead and the job waits a day (`WaitsADay`); and that
a goroutine whose context is cancelled starts its job once more at most, unless its
interval leaves it nothing to wait for (`NoWait`: none, or less than none by a minute
or more), when its timer and the cancellation are ready together each time. A tick passes only
when no goroutine can go on: the code runs within the tick.

## 3. Runs

| run | instance | shows |
|---|---|---|
| `engine_frontier` | Triangle: 3 pages and an asset on one host, found by two pages and at two depths; 2 pages and 1 asset at once; stops at any time | `CountersExact` `MarkedIsQueued` `ImplementsFrontier` |
| `engine_limits` | Crowd: 6 seeds on 3 hosts, all limits binding (pages 2, host 1, assets 1, 1 URL, 2 per host); symmetric URLs | `ConcurrencyLimits` `NoTokenLeak` `LimitOverrun` `HostLimitRespected` |
| `engine_control` | Pair: 2 pages that link to each other, 2 `Resume` calls in flight, retries, false positives | `TypeOK` `NoLostResume` `PauseTakesHold` and, with fairness, `StopEndsCrawl` `EndsUnlessPaused` |
| `engine_early_exit` | Pair | the loop may end with URLs in its queue |
| `frontiers` | by file: Pair, two processes one after the other; shared: 2 processes, 2 URLs, each backend, 1 crash, checkpoints of one process | `CheckpointConsistent` `NoRecrawl` `VisitedGrows` `CheckpointCoversQueue` `ImplementsSharedFrontier` |
| `restart_stop` | Pair, one process | a stopped crawl leaves no checkpoint |
| `restart_in_flight` | Pair, two processes | a checkpoint loses what is in flight |
| `breaker` | one breaker, 3 requests, thresholds 2, 1 probe, timeout 1 tick | `OpenRespected` `ProbeBound` `TripsInTime` and, with fairness, `Recovers` |
| `coordinators` | by file: 2 processes, 2 files; by Redis: 2 workers | `OneLeaderByLock` `LockExclusive` and, with fairness, `Agreement` `LeaderLossLearned` |
| `file_coordinator_stop` | 3 processes, 2 files; symmetric | two leaders after a leader's `Stop` |
| `components` | fourteen components, one at a time (`which`), bounds below | `NoOrphanBrowser` `SeenIsHandled` `ArchiveComplete` `CacheNotStale` `HistoryTrue` `RateRespected` `BudgetExact` `StructuresKeepOrder` `StoredAndMapped` `NoRequestLost` `RulesAgree` `GroupsCount` `SpentOnce` `LinksLead` `JobsKeepTime` |
| `seed_aggregate` | 2 pages, one the seed, each with an interceptor | another page's site data after the seed's |

Bounds, and why they are enough. A race in the deduplication needs two pages and
one link (Triangle has two such links, at different depths). A limit needs one
item more than it admits, on one host and on several (Crowd). A lost wake-up needs
two `Resume` calls, one whose signal is dropped. A restart property relates one
process to the next (`MaxRuns = 2`). Breakers share nothing, so that one object
alive at a time shows what several do (`Breaker = {b1}`); three requests are two that
close a half-open breaker and one that fails before its counts are reset; thresholds of 2 have
a first and a last failure. `MaxRetries` is 1 or 2, as an attempt differs from the next in its number only;
timeouts are 1 tick, since only "not yet" and "expired" are told apart.
Two processes take and lose the lock from each other (the theorem covers any
number); two leaders take three, one to stop and two to follow it, and two files.
Symmetry is used in `engine_limits` and `file_coordinator_stop`, where no temporal
property is checked.

`frontiers` checks two parts that share no state, one at a time (`which`), so that
the state graph is the sum of theirs. The shared queue has at most two copies of a
URL and one crash (`Bounds` in `MCFrontiers`). A URL is lost or doubled by itself, so
that the second matters where one takes the place of the other, in order and in
`maxSize`. Redis has both, after a crash while no checkpoint is being taken with two
commands; Postgres and Kafka have both before a crash and a checkpoint, and one in all
other cases; Kafka has both until something fails, with all that is committed flushed
and one process at a time in a push and in a pop, and after a crash it has one message.

`components` checks invariants of parts that share no state: `which` says whose
behaviour it is, and the others stay at their beginning, so that the state graph is
the sum of theirs and not the product. Its constraint `Bounds` in `MCComponents`
says where an instance is cut, and each cut leaves the case its property is about:

- browsers: three processes for two slots, one to take a slot the check is filling;
- page: two pages take one interceptor in turns, so that events and bodies of one
  arrive under the other; three resources, of which one may not be asked for, with a
  limit of two on the bodies and of two on the URLs seen, so that one is put out. Where
  routes, data and the end of the crawl are explored no events are, for nothing relates
  them;
- archive: three records, files of two, every write and close may fail; two URLs with
  two validators;
- changes: two URLs with the same file name, three seconds, two pages, two snapshots
  kept; the second URL is there to take a file or to lose one;
- rate: two callers, two limiters (the second is the one created after a clean-up that
  leaves nothing split), delays of one and two ticks, a burst of one;
- memory: four reservers, one as large as the budget and one that leaves room for
  a smaller one;
- ring and list: three places, and four keys (one is evicted);
- assets: three URLs with equal bodies and one that evicts their hash from a cache
  of one; a script is fetched once more;
- downloader: four requests, two workers, channels of one;
- rules: paths of four segments over ten names (plain, with a dot, with `..`, with
  escapes of a letter, of `..`, of a slash and of `~`, with a broken one, and with a
  `?` that an escape stood for), files of five lines, fourteen patterns;
- access: two pages, three refresh tokens of two ticks, two retries;
- offline: three pages, a style sheet and two images of which one URL begins with
  the other; one file skipped, one alias;
- schedule: one job with one of nine expressions (five of fields, and intervals of
  three ticks, of none, of one less than none and of three less) over 13 minutes of a
  year of 16, with two hours, days and months; two calls of `Start`, the second within
  four minutes.

Fairness. `FairSpec` has weak fairness of the dispatcher and of each worker: the
Go scheduler runs runnable goroutines, timers fire, and every browser and HTTP
operation is under a timeout. Strong fairness of `PauseCancelled` is the random
choice of `select` among ready cases, which does not prefer one for ever. Nothing
is assumed of `Pause`, `Resume` and `Stop`; once its flag is cleared a `Resume`
sends. `BreakerFairSpec` assumes that time passes, crawls end, and the dispatcher
comes back to the host. `CoordinatorFairSpec` assumes that tickers fire, that no
system call fails for ever (strong fairness of each call's success), that a
`select` takes its closed channel some day, and that a process exits when its
crawl is over; processes may die at any time or never.

### What the code does and its text does not say

Five runs are counterexamples to a comment or to the README; `PROJECT.json`
quotes the lines.

- `engine_early_exit`: the loop finds the queue empty, the last page pushes its
  links and ends, the loop finds no active page, and the crawl ends. (Test the
  queue again after `activePages` was seen to be zero.)
- `restart_stop`: the end of `Start` removes the checkpoint it just saved also
  when the crawl was interrupted.
- `restart_in_flight`: a URL popped and not finished is in the seen set of the
  snapshot and not in its queue; after a crash nobody crawls it.
- `file_coordinator_stop`: `Stop` unlocks `leader.lock` and then removes its name;
  a process that had opened it locks a file without a name, the next one creates
  the name again, and both lead. (Leave the file in place, or remove it before
  unlocking and look at the name again after locking.)
- `seed_aggregate`: a page claims the right to write site.json with a
  compare-and-swap and writes later; the seed page, which the comment says always
  wins, writes in between and is overwritten. (Write under a lock, or let the seed
  write last.)

Others are visible in the modules and have no run: the order of crawling is by
depth among the queued URLs only, so a deep page may come before a shallow one
that is found later (`Take` in `CrawlFrontier`); a pop may follow a `Pause`
(`PauseTakesHold` has 1, not 0); a false positive of the bloom filter drops a
URL before the exact set is asked (crawler/queueing.go:44-50); a link found when
the queue is full is marked and never queued again; a URL first found too deep
is dropped for good, although a shallower page links to it too; the clean-up of the
breakers finds one idle, two requests that were under way fail and trip it, and it is
deleted while it is open (`CleanupDelete`), which the comment of `Cleanup` rules out
(resilience/circuitbreaker.go:134).

Of the components:

- the queues: Redis's pop script deletes the hash field of another key than the one
  its push wrote (queue/redis.go:79), so that the hash only grows and a checkpoint
  has URLs that were popped long ago. A snapshot of Redis or Postgres whose read fails
  is taken to be empty and saved, and the next start deletes the queue and loads nothing
  (`RedisItems`, `PostgresItems`, `RedisRestart`);
- locks by Redis: a worker whose lock has expired is not told: `AcquireLock` answers
  from `lockKeys` (coordinator/redis_coordinator.go:149) and `renewLock` ignores what
  its script answers (345-353), so that two workers may each believe that they have it;
- archives: one gzip write that fails makes the WARC file refuse every record for the
  rest of the crawl (storage/warc.go:62), and nobody looks at the errors of closing
  either archive (crawler/warc_output.go:26-31);
- tokens: when the server exchanges a refresh token and its answer is lost or cannot
  be decoded, and the full exchange fails too, the next page presents the spent token
  once more (auth/oauth.go:74-90). When answers to submissions are lost, a page may pay for
  `RetryCount * (RetryCount + 1)` tasks (captcha/solve.go:100-113,158-174);
- memory (util/memory.go:44-63): a reserver that is cancelled while its helper
  waits unlocks, by `defer`, a mutex it does not hold, which Go does not let a
  program survive;
- challenges: the script that looks for one reports `found: true`, a Boolean, and the
  Go side decodes into a map of strings (crawler/captcha.go:93,104,149), which
  fails: no challenge is ever detected;
- scripts: the patterns of localize/js.go have back references, which Go's regular
  expressions do not (localize/js.go:61-62), so that compiling them panics in
  `localize.Run` after the pages and style sheets, and before any script, are rewritten;
- forms (read, not modelled): pages share one login tab (auth/form.go:30-36,105-110); one
  page's login cancels another's, and the last to end may call a nil function with
  the mutex locked. A failed `Authenticate` is only logged;
- the copy made by `localize.Run`: a file that `copyTree` skipped is still in the map,
  so that links to it are rewritten and lead nowhere (localize/localize.go:152);
- repair replaces the mapped prefix of a longer URL that is not mapped
  (repair/rewrite.go:12-15);
- `Dedup` lists the page it keeps among the replaced ones and leaves the replaced
  one out (localize/dedup.go:83-90); links to collapsed pages lead nowhere;
- `NormalizeURL`: where `..` goes above the root, the slash after the host is lost;
  a normal form has no slash at its end, and so escapes a `Disallow: /x/`. The path is
  written without escaping it again (queue/strip.go:42-49): `/a%3Fb` becomes `/a?b` and
  `/a%2541` becomes `/a%41`, which are other URLs, with another file and another
  normal form;
- `PathForURL`: every path that holds `..` anywhere, also within a name (`/a..b`), has
  the one file `_safe_path` (storage/path.go:49), whose own URL leads to
  `_safe_path/index.html`;
- globs: a `*` that is not last takes the first stop and no other (queue/glob.go:95-116),
  and what is before a `**` has to match all of the text (queue/glob.go:47), so that
  `/a/**` blocks `/a/` and nothing under it, against the comment. A class before
  `**` counts by its characters and can index past the end (queue/glob.go:50,74);
- robots.txt: rules for anybody that come before our group stay in force; those
  after it do not count;
- the rate limiter is set back to the base delay at each use, whatever the latency
  was; one that is in debt and idle for ten minutes is dropped, and its debt forgiven;
- change detection: `LoadSnapshots` is called by nothing in the crawler, so that each
  run compares with its own snapshots only;
- assets: a placeholder in the hash cache leaves a third URL without a file
  (crawler/assets.go:138-144); a second `Execute` of a downloader panics; a script
  that was saved is fetched twice, and a cycle of scripts four deep
  (crawler/js_deps.go:56,105);
- the scheduler: an expression that names no minute of the next year, such as the
  29th of February in most years, runs daily (scheduler/scheduler.go:143);
  `@every 0s`, and an interval of less than none by a minute or more, are accepted (118-127) and
  make a loop without a wait, in which a cancelled goroutine may start its job any
  number of times more; a second `Start` takes the cancel function of the first, whose goroutines `Stop`
  then leaves waiting for ever or, in the middle of a job, running on. Nothing
  constructs a Scheduler, although the README offers `--schedule`.

## 4. Proofs

The runs check small instances; the theorems hold for every value of the
constants that the assumption of each module admits. Every invariant and every
action property of a run that passes has one, and so has each of the two refinements.

| module | theorem | states |
|---|---|---|
| `CrawlEngineProofs` | `EngineTypeOK` | `Spec => []TypeOK` |
| | `EngineImplementsFrontier` | `Spec => ImplementsFrontier` |
| | `EngineNoLostResume`, `EnginePauseTakesHold` | the two invariants of `Pause` and `Resume` |
| | `EngineNoTokenLeak`, `EngineConcurrencyLimits` | the two of the semaphores |
| | `EngineCountersExact` | `activePages` and `wg` count what they should |
| | `EngineHostLimit`, `EngineLimitOverrun` | `HostLimitRespected`, `LimitOverrun` |
| | `EngineMarkedIsQueued` | `Spec /\ []QueueHasRoom => []MarkedIsQueued` |
| `CrawlRestartProofs` | `RestartNoRecrawl`, `RestartCheckpointConsistent`, `RestartVisitedGrows` | the three properties of the checkpoint |
| `CircuitBreakerProofs` | `BreakerOpenRespected`, `BreakerProbeBound`, `BreakerTripsInTime` | the three bounds of `breaker` |
| `DistributedProofs` | `QueueHandsOutOnce`, `QueueLosesOnlyByFault`, `QueueCheckpointCovers` | `HandedOutOnce`, `LostOnlyByFault`, `CheckpointCoversQueue` |
| | `QueueImplementsSharedFrontier` | `QueueSpec => ImplementsSharedFrontier` |
| | `CoordinatorTypes`, `CoordinatorOneLeader`, `RedisLockExclusive` | types, `OneLeaderByLock`, `LockExclusive` |
| `PageProofs` | `AccessSpentOnce`, `CaptureSeenIsHandled`, `DownloaderLosesNothing` | `SpentOnce`, `SeenIsHandled`, `NoRequestLost` |
| | `StoreKeepsBodies`, `StructuresInOrder` | `StoredAndMapped`, `StructuresKeepOrder` |
| `SharedResourceProofs` | `MemoryBudgetExact`, `PoolNoOrphan` | `BudgetExact`, `NoOrphanBrowser` |
| | `LimiterRespectsRate`, `SchedulerKeepsTime` | `RateRespected`, `JobsKeepTime` |
| `ArchiveProofs` | `ArchiveIsComplete`, `CacheIsNotStale` | `ArchiveComplete`, `CacheNotStale` |
| | `OfflineLinksLead`, `DetectorHistoryTrue` | `LinksLead`, `HistoryTrue` |
| `UrlRulesProofs` | `RulesInAgreement`, `RulesGroupsCount` | `RulesAgree`, `GroupsCount` |

Assumptions. What is counted or waited for is finite (URLs, reservers, browsers,
requests, callers, and the processes of a distributed queue); a value that stands
for "none" is not an element of the set it is used with; capacities that a
constructor sets to a default when they are not positive are positive. Three
say more: `LimiterAssumption` (a burst and delays of at least one, and a token that divides
into the parts of each delay: what a clean-up can break is `split`, in the property),
`OfflineAssumption` (the three words for references that name no file are no files) and
`RulesAssumption` (what the names of `UrlRules` stand for, see below).

### The engine

`Inv` (theorem `EngineInvariant`) strengthens `TypeOK` with what the type does not
tell: the item in hand is there exactly at the steps of the loop that use it, and
its goroutine has not started (`InHand`); a link is in hand exactly at `mark` and
`push` (`LinkInHand`); what is in the queue was never popped, and what was popped
is seen and not queued (`PoppedOnce`); before seeding there is nothing (`Fresh`).
`PoppedOnce` is what makes `ImplementsFrontier` inductive: `Take` needs a URL that
is queued and nowhere else. Each step is then a step of the frontier or a stutter,
action by action.

On top of it: `PauseInv` has where the loop can be when a URL was popped during a
pause. `TokenInv` says that page tokens belong to pages and asset tokens to assets;
`LimitInv`, that each semaphore is within its capacity and that what crawls holds
its tokens, from which `ConcurrencyLimits` follows by cardinality of subsets.
`Counted` has each counter as the size of the set of goroutines between the two
steps that change it, plus the one the loop has announced and not launched.
`HostInv` counts to a host the URLs it was charged for (`Charged`), the one in hand
among them. `OverrunInv` adds to the URLs counted the goroutines that have yet to
count themselves: each of those has a token, so the semaphores bound them, and from
the test of the limit to the hand-over there is room for one more.
`MarkedIsQueued` holds while the queue has room, which is its hypothesis: a full
queue loses what is pushed, and so do the model and the code.

### Restarts

`BaseInv` carries the engine's `Core` (its invariant without `Fresh`, which a
checkpoint ends) through crashes and restarts, with the order of a process's life
(`Phases`: it loads before it seeds, and saves after) and the mutex of the two savers
(`Exclusion`). `NoRecrawl` needs that what was restored as visited is in the seen
set (`RestoredInv`). `VisitedGrows` needs that a copy about to be written is ahead of
the file and behind the crawl (`AheadOf`), which the mutex gives. For
`CheckpointConsistent`, `CountInv` follows the counts from the copy to the file: a
host is charged for URLs popped and admitted, the copy of the counts is covered by
the queue and the visited set of now (`Covered`), and stays so as they go on, so that
it is covered by the snapshot taken later.

### Breakers

`TypeInv` has the mutex: a result past its lock holds it (`LockInv`). A breaker that
is open has let one request pass, and none while the loop is past the load that found
it open (`OpenInv`). In `ProbeInv` what a half-open breaker let pass and what it may
still let pass stay within the budget of its successes. `TripInv` bounds the failures
in a row by `failureCount + FailureThreshold - 1`, and by `failureCount` alone
while a late `ResetCounts` is still to come: this one reset is what the bound of
`2 * FailureThreshold - 1` is made of.

### Queues and coordinators

`QueueInv` says of the time before the first crash (`CalmInv`): a process pushes a URL
once; what was handed out, and what is in the queue or in the hand of a pop, is no
more than what was sent, and in Kafka, unless an operation on it failed, no more than
the processes that have it in their mirror or are about to (`Covering`, `CountedOf`);
who takes a URL for known is right, since it is in the queue, in a hand, handed out,
about to be sent, or an operation on it failed (`KnownOf`).

`CheckpointCoversQueue` has, for Redis, the invariant `HashInv`, over all crashes: the
list is a sequence over what is in the hash, what a load is about to put there and
what a load failed to put there (`Hashed`), and each step only adds to these, since
nothing removes a field of the hash but the DEL, which empties the list with it. For
Kafka it is `CountedOf`, before a crash: what is counted has a process that covers it.

`ImplementsSharedFrontier` has the same invariant: it is what tells a skipped URL
from a lost one, and the counts of `CalmInv` say that what is given out was waiting.
Each statement of a push or a pop is then one step of the frontier or none (a check,
a mark, a count, a statement that failed before the server did anything), by backend
and by statement. A step at which a process dies ends the promise, so that the
proof is about the steps with `crashes = 0` on both sides.

The file coordinator: a process past `Flock` owns the file it has open (`LockOwned`);
without a removal there is one file (`OneFile`); a process at work finds its own ID in it
only if it has the lock (`OwnID`, without which `Follow` could make a leader); a leader at
work has the lock (`LeaderHolds`). The Redis one: a call that has set the key still has it
or has lost it since (`lapsed`), and a release has forgotten it before its script runs
(`CallOf`), so that a script that is late deletes a key only of a worker that has set it
anew, and that worker is then among the lapsed.

### Pages

`SpentOnce`: a page within `oauthFlow` has `tokenMu` (`MutexHeld`), so that the refresh token
it read is still the stored one (`ReadIsStored`), and the stored one has been issued and not
exchanged, unless nobody heard of it (`StoredIsGood`); in `TaskInv` an attempt that has
ended has cost `RetryCount + 1` tasks at most, and one that has not as many as were
submitted in it (`Owed`). `SeenIsHandled`: an interceptor has one page
(`OwnInterceptor`), and what is due stays seen until the release or leaves both sets at
once, so that no event and no late body makes it pending again (`DueOf`).
`NoRequestLost`: a request is in one place at a time (`InOnePlace`), until the first
`Execute` closes its channels (`FirstExecute`).

`StoredAndMapped`: a URL past its save, or mapped, has its file (`FileOK`); a hash in the
filter is in the cache or on its way there, and in the cache has its file (`HashesOK`) -
each but for the bodies that `StoredAndMapped` excepts (`Exempt`), which only grow. The
ring's cells between head and tail are the last items in order (`RingInv`; its index
arithmetic stays within two rounds). The list's pointers are those of a sequence of
distinct keys (`ListOK`), and `AddLinks` and `RemoveLinks` say what `addToHead` and
`removeNode` do to it.

### What pages share

`BudgetExact` holds while no reserver is cancelled (`NoneGone`; see above what a
cancellation does): the mutex has one owner, handed over to the helper and back
(`MutexInv`), and a helper sleeps only while its bytes do not fit (`SleepInv`), so that
no release goes unnoticed. What is used is the size of a set, one element for each byte
held. `NoOrphanBrowser`: while the check launches, what is in the slot is dead or came by
`Acquire` (`SlotIsFree`). `RateRespected`: until a split there is one
limiter, whose tokens are the bucket's, debts included, and each caller wakes no earlier
than the bucket would let it go (`OneBucket`); the second part needs that every token
that is there or reserved is in the quota, and that of any callers who sleep one sleeps
until the quota has a token for each of them, at the fastest rate (`Paid`): a caller that
reserves sleeps for all that is owed by then (`ReservePays`), and a tick gives the
quota at least what it takes from the sleep (`TickPays`). `JobsKeepTime`: what
`nextRun` returns is the first minute named after now, or there is none in a year
(`NextIsFirst`), a timer is set ahead of now unless the interval leaves no wait
(`TimerAhead`), and so a goroutine with its context cancelled runs its job once at most
(`KeepsTime`).

### What is left behind

`ArchiveComplete` is about the end of a crawl, so `WhereRecordsAre` says where a record is
before it: in the WARC file that is open, in one that has ended or in one that failed; and
in the WACZ stream or its buffer. `CacheNotStale` needs `CopyCurrent`: while a save is
under way and nothing has been marked dirty since it took its copy, the copy is what is
in memory.
`LinksLead`: what is mapped is in the clone (`TreesOK`), a reference is a file's only
where a pass has been (`FormsOK`), and each page `Dedup` has seen is noise or has a
representative no heavier in its group (`GroupsOK`). `HistoryTrue`: a file is of its
URL and second and of none to come (`FilesNamed`), so that what is in memory is the
beginning of what is on disk (`Leads`) and a new snapshot goes in front of both
(`NewestFirst`); and a load under way has read, or has still to read, every file of a URL
that was not misfiled (`LoadOK`), so that what it puts into memory is what is on disk
(`LoadKeeps`).

### Rules

`UrlRules` has no protocol: its state is the path and the lines it asks about, and
the theorems are about what its functions compute on any of them. The invariants are
small, `PathInv` (a path is a sequence of segments) and `LinesInv`; the work is in
the lemmas. `StepByStep` gives a function defined position by position its existence, and
`HandedOn` its properties from one position to the next, by the smallest position that
would be an exception; the other lemmas are built on these two.

- `NormalForm`: going through the names from the left, with `TakeBack` as a stack, what
  is on the stack and will not be taken back is what `Kept` keeps, read from the right
  (`LessIs`). A normal form has no dots, and of a literal path no escapes, so its own is
  the same (`LiteralNormal`, `NormalAgain`).
- `RefusedInNormalForm`: a path without empty names differs from its normal form by
  the slash at its end. A rule that matches a text matches it with more after it
  (`MatchesMore`), so that only the rule that refuses can tell them apart, and then its
  last token that is no `*` is that slash (`MatchesBecause`).
- `FilesFit`: wherever `..` is left after the escapes are taken out the file is
  `_safe_path` (`NoneOutside`). Otherwise a file is the names of the path, with
  `index.html` after the last if that has no dot (`FileIs`); two cases, by the last name.
- `GlobsMatchLess`: for a pattern without `**`, the places where its last tokens match
  are the same by the code and by the comment (`ShortMeans`). With `**`, each token
  gets a place in the text (`Place`): before the first `**` its own number, between two of
  them counted from where the part before ended, which is where the code found it
  (`BetweenFits`), after the last counted from there; the places of neighbours follow
  each other, which is what the comment's meaning asks for (`MeansBecause`).
- `GroupsCount`: after each line, what the two flags and the rules are is said of
  the lines before it (`KnownAt`) and kept by one line more (`OneLine`).

`RulesAssumption` is what the names stand for: none is empty, a dot name or a slash;
`index.html`, where it is a name, holds a dot and no escape; a broken name has no
second reading, and what the others are read as are segments.

### Only model-checked

Liveness is beyond the prover: `StopEndsCrawl`, `EndsUnlessPaused`, `Recovers`,
`Agreement` and `LeaderLossLearned`. They hold on the instances of section 3.

## 5. Not modelled

- What happens inside the browser: scripts that scroll, click, wait or read the
  page (jsengine/, crawler/interaction*.go, wait.go). They are functions of a page;
  what they report is a choice where a model takes it.
- How references are found and written in HTML, CSS and scripts (rewrite/,
  localize/scan.go and js.go), and the reports made of files (audit/, markdown/,
  the HAR and service worker outputs): string work on one file at a time, with no
  state a second goroutine sees. `OfflineTree` has which file a reference names.
- Calls to outside programs that keep nothing (notify/, plugin/, tracing/), the
  options (config/), and thin layers over libraries (httpclient/, sync/, pool/).
- The heap array and the bit array of the bloom filter: `container/heap` and hash
  functions, behind the queue and the marked set that the engine has.
- The fetching and caching of robots.txt, whose verdict is a choice of the engine.
- Code nothing calls: the checkpoint made from a clone (crawler/resume_seed.go), the
  registration of workers by the file coordinator, which would wait for the mutex it
  holds (coordinator/file_coordinator.go:85), and a second `Start` or `Stop` of one
  crawler, which would close a channel again: the command line makes one per crawl.
- Login by form (auth/form.go) and by header or cookie, which are calls to one tab or
  constant values; and the comparison of two snapshots (changedetection/), a pure
  function of two pages that changes nothing.
- Of modelled parts: `Reset` and `RangeStates` of the breakers, the worker registry
  of the file coordinator, character classes of globs, and the outputs at the end
  of `Start`. Maps keyed by host are never pruned in practice:
  `pruneUnboundedMaps` (crawler/periodic.go:26-46) looks for keys nothing writes,
  so that a host semaphore is never replaced while it is in use, and the model has
  no pruning.

## 6. What could follow

Theorems: the types of the modules whose proofs have only those they need
(`BrowserPool`, `OfflineTree`, `AssetStore`); patterns with a `*` in the middle, of
which the code matches neither more nor less than it means.

Models: the page pipeline and the engine composed, so that an attempt's outcome is
the one `PageCapture` gives; several engines over `SharedFrontier` in place of the
local queue.
