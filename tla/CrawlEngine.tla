----------------------------- MODULE CrawlEngine -----------------------------
(***************************************************************************)
(* One crawl of internal/crawler: the dispatch loop of Start (start.go),   *)
(* one goroutine per dispatched URL (crawl_page.go, crawl_asset.go), the   *)
(* deduplication in front of the queue (queueing.go), the local priority   *)
(* queue (internal/queue/ops.go) and the control calls Pause, Resume and   *)
(* Stop (status.go, crawler.go), which other goroutines make at any time.  *)
(*                                                                         *)
(* A URL is popped at most once (that is one of the theorems), so the      *)
(* goroutine that crawls it is named by the URL.  A channel used as a      *)
(* semaphore is the set of URLs whose goroutine has a token in it.         *)
(***************************************************************************)
EXTENDS Naturals, Integers, FiniteSets

CONSTANTS
  URL,               \* normalised URLs
  Seeds,             \* seed URLs and the sitemap entries they bring
  Allowed,           \* valid URLs of an allowed domain, not excluded
  Asset,             \* URLs that do not look like HTML pages
  Host, HostOf,      \* hosts, and the host of each URL
  Links,             \* Links[u]: the URLs page u links to
  FalsePositive,     \* URLs the bloom filter may report although never added
  MaxDepth,          \* cfg.MaxDepth
  MaxTotalURLs,      \* cfg.MaxTotalURLs
  MaxURLsPerHost,    \* cfg.MaxURLsPerHost, 0 for no limit
  MaxQueueSize,      \* capacity of the queue
  Concurrency,       \* capacity of the page semaphore
  AssetConcurrency,  \* capacity of the asset semaphore
  HostConcurrency,   \* capacity of a host semaphore (2 in the code)
  MaxRetries,        \* attempts of crawlPage
  MaxResumers,       \* bound: Resume calls in progress at once
  ApiEnabled,        \* whether the REST API, hence Pause and Resume, is served
  None               \* no URL

ASSUME EngineAssumption ==
  /\ IsFiniteSet(URL) /\ None \notin URL
  /\ Seeds \subseteq URL /\ Allowed \subseteq URL /\ Asset \subseteq URL
  /\ FalsePositive \subseteq URL
  /\ HostOf \in [URL -> Host]
  /\ Links \in [URL -> SUBSET URL]
  /\ MaxDepth \in Nat /\ MaxURLsPerHost \in Nat
  /\ MaxTotalURLs \in Nat \ {0} /\ MaxQueueSize \in Nat \ {0}
  /\ Concurrency \in Nat \ {0} /\ AssetConcurrency \in Nat \ {0}
  /\ HostConcurrency \in Nat \ {0} /\ MaxRetries \in Nat \ {0}
  /\ MaxResumers \in Nat /\ ApiEnabled \in BOOLEAN

VARIABLES
  dpc,            \* where the dispatcher, the goroutine running Start, is
  cand,           \* the item it popped and has not yet handed over, or None
  ctxDone,        \* c.ctx is cancelled
  shutdown,       \* c.shutdown: Stop was called
  paused,         \* c.paused
  resumeCh,       \* tokens in the buffered channel c.resumeCh
  resuming,       \* Resume calls between the CompareAndSwap and the send
  poppedPaused,   \* history: URLs popped since the last Pause took effect
  queue,          \* URLs in c.urlQueue
  depth,          \* depth[u]: the depth u was pushed with
  seen,           \* the queue's own seen set
  marked,         \* URLs added to the bloom filter and the exact-dedup set
  hostURLCount,   \* c.hostURLCount
  totalURLs,      \* c.totalURLs
  activePages,    \* c.activePages
  wg,             \* counter of c.wg
  semaphore, assetSem, hostSem,  \* URLs holding a token of each
  pc,             \* pc[u]: where the goroutine of u is
  attempt,        \* attempt[u]: the attempt crawlPage is making
  todo,           \* todo[u]: links of page u not yet looked at
  cur             \* cur[u]: the link u's goroutine is queueing, or None

control == <<ctxDone, shutdown, paused, resumeCh, resuming>>
frontier == <<queue, depth, seen, marked>>
counters == <<hostURLCount, totalURLs, activePages, wg>>
sems == <<semaphore, assetSem, hostSem>>
workers == <<pc, attempt, todo, cur>>
vars == <<dpc, cand, control, poppedPaused, frontier, counters, sems, workers>>

DispatcherPC == {"init", "reset", "seed", "launch", "top", "paused?", "wait", "limit", "pop",
                 "empty", "sleep", "admit", "assetGate", "assetSlot", "hostSlot",
                 "gate", "pageSlot", "drain", "cleanup", "done"}

(* Steps of the dispatcher at which it holds a popped item. *)
Holding == {"admit", "assetGate", "assetSlot", "hostSlot", "gate", "pageSlot"}

WorkerPC == {"idle", "start", "fetch", "backoff", "links", "mark", "push",
             "asset", "freeHost", "freeSem", "inactive", "wgDone", "done"}

(* Steps of a goroutine that has been started and has not returned. *)
Running == WorkerPC \ {"idle", "done"}

Init ==
  /\ dpc = "init" /\ cand = None
  /\ ctxDone = FALSE /\ shutdown = FALSE
  /\ paused = FALSE /\ resumeCh = 0 /\ resuming = 0 /\ poppedPaused = 0
  /\ queue = {} /\ depth = [u \in URL |-> 0] /\ seen = {} /\ marked = {}
  /\ hostURLCount = [h \in Host |-> 0]
  /\ totalURLs = 0 /\ activePages = 0 /\ wg = 0
  /\ semaphore = {} /\ assetSem = {} /\ hostSem = {}
  /\ pc = [u \in URL |-> "idle"] /\ attempt = [u \in URL |-> 0]
  /\ todo = [u \in URL |-> {}] /\ cur = [u \in URL |-> None]

-----------------------------------------------------------------------------
(* The calls other goroutines make: API handlers, the signal handler, the  *)
(* disk-space check.                                                       *)

(* IsRunning: the handlers of pause and resume answer 409 otherwise. *)
IsRunning == dpc \notin {"init", "done"}

Pause ==
  /\ ApiEnabled /\ IsRunning /\ ~paused
  /\ paused' = TRUE /\ poppedPaused' = 0
  /\ UNCHANGED <<dpc, cand, ctxDone, shutdown, resumeCh, resuming, frontier, counters, sems, workers>>

(* Fault: the signal is forgotten. *)
Resume_Silent ==
  /\ ApiEnabled /\ IsRunning /\ paused /\ resuming < MaxResumers
  /\ paused' = FALSE
  /\ UNCHANGED <<dpc, cand, ctxDone, shutdown, resumeCh, resuming, poppedPaused, frontier, counters, sems, workers>>

(* The CompareAndSwap of Resume; only one of several callers wins it. *)
Resume ==
  /\ ApiEnabled /\ IsRunning /\ paused /\ resuming < MaxResumers
  /\ paused' = FALSE /\ resuming' = resuming + 1
  /\ UNCHANGED <<dpc, cand, ctxDone, shutdown, resumeCh, poppedPaused, frontier, counters, sems, workers>>

(* Fault: the channel takes every wake-up, not one. *)
ResumeSend_Piles ==
  /\ resuming > 0
  /\ resuming' = resuming - 1 /\ resumeCh' = resumeCh + 1
  /\ UNCHANGED <<dpc, cand, ctxDone, shutdown, paused, poppedPaused, frontier, counters, sems, workers>>

(* Its send on the channel of capacity 1, dropped when a token is there. *)
ResumeSend ==
  /\ resuming > 0
  /\ resuming' = resuming - 1 /\ resumeCh' = 1
  /\ UNCHANGED <<dpc, cand, ctxDone, shutdown, paused, poppedPaused, frontier, counters, sems, workers>>

Stop ==
  /\ ~shutdown
  /\ shutdown' = TRUE /\ ctxDone' = TRUE
  /\ UNCHANGED <<dpc, cand, paused, resumeCh, resuming, poppedPaused, frontier, counters, sems, workers>>

-----------------------------------------------------------------------------
(* Start, up to the loop. *)

StartCrawl ==
  /\ dpc = "init"
  /\ dpc' = "reset"
  /\ UNCHANGED <<cand, control, poppedPaused, frontier, counters, sems, workers>>

(* paused.Store(false), and the stale token of an earlier crawl is drained. *)
ResetPause ==
  /\ dpc = "reset"
  /\ paused' = FALSE /\ resumeCh' = 0
  /\ dpc' = "seed"
  /\ UNCHANGED <<cand, ctxDone, shutdown, resuming, poppedPaused, frontier, counters, sems, workers>>

(* The seeds are pushed under queueMu before any goroutine exists; a seed    *)
(* the bloom filter knows, or reports wrongly, is skipped.  With nothing to  *)
(* crawl Start returns an error and its deferred calls run.                  *)
SeedQueue(skipped) ==
  LET new == (Seeds \ marked) \ skipped IN
  /\ dpc = "seed"
  /\ skipped \subseteq FalsePositive
  /\ marked' = marked \cup new
  /\ \E pushed \in SUBSET (new \ seen) :
       /\ Cardinality(queue \cup pushed) <= MaxQueueSize
       /\ pushed = new \ seen \/ Cardinality(queue \cup pushed) = MaxQueueSize
       /\ queue' = queue \cup pushed
       /\ seen' = seen \cup pushed
       /\ depth' = [u \in URL |-> IF u \in pushed THEN 0 ELSE depth[u]]
  /\ IF queue' = {} THEN dpc' = "done" /\ ctxDone' = TRUE
                    ELSE dpc' = "launch" /\ UNCHANGED ctxDone
  /\ UNCHANGED <<cand, shutdown, paused, resumeCh, resuming, poppedPaused, counters, sems, workers>>

Goto(l) == /\ dpc' = l
           /\ UNCHANGED <<cand, control, poppedPaused, frontier, counters, sems, workers>>

(* The browser pool starts; the coordinator and the periodic goroutines with *)
(* it.                                                                       *)
Launch == dpc = "launch" /\ Goto("top")

(* No browser could be started: Start returns the error. *)
LaunchFailed ==
  /\ dpc = "launch"
  /\ dpc' = "done" /\ ctxDone' = TRUE
  /\ UNCHANGED <<cand, shutdown, paused, resumeCh, resuming, poppedPaused, frontier, counters, sems, workers>>

-----------------------------------------------------------------------------
(* The dispatch loop. *)

CheckContext == dpc = "top" /\ Goto(IF ctxDone THEN "drain" ELSE "paused?")

CheckPaused == dpc = "paused?" /\ Goto(IF paused THEN "wait" ELSE "limit")

(* Fault: the pause test is an if where the code has a loop. *)
PauseWoken_Once ==
  /\ dpc = "wait" /\ resumeCh = 1
  /\ resumeCh' = 0 /\ dpc' = "limit"
  /\ UNCHANGED <<cand, ctxDone, shutdown, paused, resuming, poppedPaused, frontier, counters, sems, workers>>

PauseWoken ==
  /\ dpc = "wait" /\ resumeCh = 1
  /\ resumeCh' = 0 /\ dpc' = "paused?"
  /\ UNCHANGED <<cand, ctxDone, shutdown, paused, resuming, poppedPaused, frontier, counters, sems, workers>>

(* Fault: a paused crawl does not watch the context. *)
PauseCancelled_Deaf == dpc = "wait" /\ ctxDone /\ ~paused /\ Goto("drain")

PauseCancelled == dpc = "wait" /\ ctxDone /\ Goto("drain")

(* Fault: the limit is one too high. *)
CheckLimit_OffByOne == dpc = "limit" /\ Goto(IF totalURLs > MaxTotalURLs THEN "drain" ELSE "pop")

CheckLimit == dpc = "limit" /\ Goto(IF totalURLs >= MaxTotalURLs THEN "drain" ELSE "pop")

(* PopURL returns one of the shallowest items. *)
PopURL(u) ==
  /\ dpc = "pop"
  /\ u \in queue /\ \A v \in queue : depth[u] <= depth[v]
  /\ queue' = queue \ {u}
  /\ cand' = u /\ dpc' = "admit"
  /\ poppedPaused' = IF paused THEN poppedPaused + 1 ELSE poppedPaused
  /\ UNCHANGED <<control, depth, seen, marked, counters, sems, workers>>

PopNothing == dpc = "pop" /\ queue = {} /\ Goto("empty")

(* Nothing was queued a moment ago: the crawl is over when nothing is active now. *)
CheckActive == dpc = "empty" /\ Goto(IF activePages = 0 THEN "drain" ELSE "sleep")

SleepOver == dpc = "sleep" /\ Goto("top")

SleepCancelled == dpc = "sleep" /\ ctxDone /\ Goto("drain")

(* Leave the popped item and go on; nothing puts it back. *)
DropTo(l) == /\ dpc' = l /\ cand' = None
             /\ UNCHANGED <<control, poppedPaused, frontier>>

(* Fault: the limit is one too high. *)
OverHostLimit_OffByOne(h) == MaxURLsPerHost > 0 /\ hostURLCount[h] > MaxURLsPerHost

OverHostLimit(h) == MaxURLsPerHost > 0 /\ hostURLCount[h] >= MaxURLsPerHost

Refuse ==
  /\ dpc = "admit"
  /\ depth[cand] > MaxDepth \/ OverHostLimit(HostOf[cand])
  /\ DropTo("top")
  /\ UNCHANGED <<counters, sems, workers>>

Admit ==
  /\ dpc = "admit"
  /\ depth[cand] <= MaxDepth /\ ~OverHostLimit(HostOf[cand])
  /\ hostURLCount' = [hostURLCount EXCEPT ![HostOf[cand]] = @ + 1]
  /\ dpc' = IF cand \in Asset THEN "assetGate" ELSE "hostSlot"
  /\ UNCHANGED <<cand, control, poppedPaused, frontier, totalURLs, activePages, wg, sems, workers>>

(* A blocked pattern or an open circuit breaker. *)
AssetRefused ==
  /\ dpc = "assetGate"
  /\ DropTo("top")
  /\ UNCHANGED <<counters, sems, workers>>

AssetPasses ==
  /\ dpc = "assetGate"
  /\ wg' = wg + 1 /\ dpc' = "assetSlot"
  /\ UNCHANGED <<cand, control, poppedPaused, frontier, hostURLCount, totalURLs, activePages, sems, workers>>

(* activePages.Add(1) and the go statement follow the acquired token at once *)
(* and only the dispatcher reads activePages: one step.                      *)
Spawn == /\ activePages' = activePages + 1
         /\ pc' = [pc EXCEPT ![cand] = "start"]
         /\ dpc' = "top" /\ cand' = None
         /\ UNCHANGED <<control, poppedPaused, frontier, hostURLCount, totalURLs, wg, attempt, todo, cur>>

SpawnAsset ==
  /\ dpc = "assetSlot"
  /\ Cardinality(assetSem) < AssetConcurrency
  /\ assetSem' = assetSem \cup {cand}
  /\ Spawn
  /\ UNCHANGED <<semaphore, hostSem>>

AssetCancelled ==
  /\ dpc = "assetSlot" /\ ctxDone
  /\ wg' = wg - 1
  /\ DropTo("drain")
  /\ UNCHANGED <<hostURLCount, totalURLs, activePages, sems, workers>>

OnHost(h) == {u \in hostSem : HostOf[u] = h}

TakeHostSlot ==
  /\ dpc = "hostSlot"
  /\ Cardinality(OnHost(HostOf[cand])) < HostConcurrency
  /\ hostSem' = hostSem \cup {cand} /\ dpc' = "gate"
  /\ UNCHANGED <<cand, control, poppedPaused, frontier, counters, semaphore, assetSem, workers>>

HostSlotCancelled ==
  /\ dpc = "hostSlot" /\ ctxDone
  /\ DropTo("top")
  /\ UNCHANGED <<counters, sems, workers>>

(* Fault: the token of a refused page is kept. *)
PageRefused_KeepsToken ==
  /\ dpc = "gate"
  /\ DropTo("top")
  /\ UNCHANGED <<counters, sems, workers>>

(* robots.txt, the rate limiter (whose Wait fails once the context is done) *)
(* or the circuit breaker refuses the page: its host token goes back.       *)
PageRefused ==
  /\ dpc = "gate"
  /\ hostSem' = hostSem \ {cand}
  /\ DropTo("top")
  /\ UNCHANGED <<counters, semaphore, assetSem, workers>>

PagePasses ==
  /\ dpc = "gate"
  /\ wg' = wg + 1 /\ dpc' = "pageSlot"
  /\ UNCHANGED <<cand, control, poppedPaused, frontier, hostURLCount, totalURLs, activePages, sems, workers>>

(* Fault: the host token is given back when the page is handed over, not     *)
(* when its crawl is over.                                                   *)
SpawnPage_FreesHost ==
  /\ dpc = "pageSlot"
  /\ Cardinality(semaphore) < Concurrency
  /\ semaphore' = semaphore \cup {cand}
  /\ hostSem' = hostSem \ {cand}
  /\ Spawn
  /\ UNCHANGED assetSem

SpawnPage ==
  /\ dpc = "pageSlot"
  /\ Cardinality(semaphore) < Concurrency
  /\ semaphore' = semaphore \cup {cand}
  /\ Spawn
  /\ UNCHANGED <<assetSem, hostSem>>

(* Fault: the cancelled item stays in the wait group. *)
PageCancelled_KeepsWait ==
  /\ dpc = "pageSlot" /\ ctxDone
  /\ hostSem' = hostSem \ {cand}
  /\ DropTo("drain")
  /\ UNCHANGED <<counters, semaphore, assetSem, workers>>

PageCancelled ==
  /\ dpc = "pageSlot" /\ ctxDone
  /\ hostSem' = hostSem \ {cand} /\ wg' = wg - 1
  /\ DropTo("drain")
  /\ UNCHANGED <<hostURLCount, totalURLs, activePages, semaphore, assetSem, workers>>

(* The goroutines are waited for, until the drain timer or a cancellation. *)
Drained == dpc = "drain" /\ wg = 0 /\ Goto("cleanup")

DrainAbandoned == dpc = "drain" /\ wg > 0 /\ Goto("cleanup")

(* Outputs are written and Start returns; its deferred calls cancel the      *)
(* context.  The checkpoint file is CrawlRestart's subject.                  *)
Cleanup ==
  /\ dpc = "cleanup"
  /\ dpc' = "done" /\ ctxDone' = TRUE
  /\ UNCHANGED <<cand, shutdown, paused, resumeCh, resuming, poppedPaused, frontier, counters, sems, workers>>

-----------------------------------------------------------------------------
(* The goroutine of URL u. *)

Step(u, from, to) == pc[u] = from /\ pc' = [pc EXCEPT ![u] = to]

Elsewhere == <<dpc, cand, control, poppedPaused>>

Begin(u) ==
  /\ Step(u, "start", IF u \in Asset THEN "asset" ELSE "fetch")
  /\ totalURLs' = totalURLs + 1
  /\ UNCHANGED <<Elsewhere, frontier, hostURLCount, activePages, wg, sems, attempt, todo, cur>>

(* crawlAsset: whatever becomes of the download, it queues nothing. *)
FinishAsset(u) ==
  /\ Step(u, "asset", "freeSem")
  /\ UNCHANGED <<Elsewhere, frontier, counters, sems, attempt, todo, cur>>

(* doCrawl captured the page; its links are looked at one by one. *)
Capture(u) ==
  /\ Step(u, "fetch", "links")
  /\ todo' = [todo EXCEPT ![u] = Links[u]]
  /\ UNCHANGED <<Elsewhere, frontier, counters, sems, attempt, cur>>

(* A retryable error before the last attempt. *)
FailAttempt(u) ==
  /\ attempt[u] + 1 < MaxRetries
  /\ Step(u, "fetch", "backoff")
  /\ attempt' = [attempt EXCEPT ![u] = @ + 1]
  /\ UNCHANGED <<Elsewhere, frontier, counters, sems, todo, cur>>

(* The last attempt failed, or the error is not retryable, or no browser  *)
(* could be acquired, or a panic was recovered.                           *)
Abandon(u) ==
  /\ Step(u, "fetch", "freeHost")
  /\ UNCHANGED <<Elsewhere, frontier, counters, sems, attempt, todo, cur>>

Retry(u) ==
  /\ Step(u, "backoff", "fetch")
  /\ UNCHANGED <<Elsewhere, frontier, counters, sems, attempt, todo, cur>>

RetryCancelled(u) ==
  /\ ctxDone
  /\ Step(u, "backoff", "freeHost")
  /\ UNCHANGED <<Elsewhere, frontier, counters, sems, attempt, todo, cur>>

(* The conditions of shouldQueue.  It holds queueMu for reading only, so    *)
(* another goroutine can be between its own check and its own additions.    *)
MayQueue(l) ==
  /\ l \in Allowed
  /\ totalURLs < MaxTotalURLs
  /\ Cardinality(queue) < MaxQueueSize
  /\ l \notin marked

SkipLink(u, l) ==
  /\ pc[u] = "links" /\ l \in todo[u]
  /\ ~MayQueue(l) \/ l \in FalsePositive
  /\ todo' = [todo EXCEPT ![u] = @ \ {l}]
  /\ UNCHANGED <<Elsewhere, frontier, counters, sems, pc, attempt, cur>>

ChooseLink(u, l) ==
  /\ l \in todo[u] /\ MayQueue(l)
  /\ Step(u, "links", "mark")
  /\ todo' = [todo EXCEPT ![u] = @ \ {l}]
  /\ cur' = [cur EXCEPT ![u] = l]
  /\ UNCHANGED <<Elsewhere, frontier, counters, sems, attempt>>

(* Fault: a cancelled crawl gives up a link it has marked. *)
MarkLink_GivesUp(u) ==
  /\ Step(u, "mark", IF ctxDone THEN "links" ELSE "push")
  /\ marked' = marked \cup {cur[u]}
  /\ UNCHANGED <<Elsewhere, queue, depth, seen, counters, sems, attempt, todo, cur>>

(* bloomFilter.Add and exactDedup.Add. *)
MarkLink(u) ==
  /\ Step(u, "mark", "push")
  /\ marked' = marked \cup {cur[u]}
  /\ UNCHANGED <<Elsewhere, queue, depth, seen, counters, sems, attempt, todo, cur>>

(* Fault: the queue trusts shouldQueue and does not look again. *)
PushURL_Trusting(l, d) ==
  IF Cardinality(queue) >= MaxQueueSize
    THEN UNCHANGED <<queue, depth, seen>>
    ELSE /\ queue' = queue \cup {l}
         /\ seen' = seen \cup {l}
         /\ depth' = [depth EXCEPT ![l] = d]

(* PushURL, atomic under the queue's own mutex. *)
PushURL(l, d) ==
  IF l \in seen \/ Cardinality(queue) >= MaxQueueSize
    THEN UNCHANGED <<queue, depth, seen>>
    ELSE /\ queue' = queue \cup {l}
         /\ seen' = seen \cup {l}
         /\ depth' = [depth EXCEPT ![l] = d]

PushLink(u) ==
  /\ Step(u, "push", "links")
  /\ PushURL(cur[u], depth[u] + 1)
  /\ cur' = [cur EXCEPT ![u] = None]
  /\ UNCHANGED <<Elsewhere, marked, counters, sems, attempt, todo>>

(* All links are done: doCrawl returns nil and crawlPage returns. *)
FinishPage(u) ==
  /\ todo[u] = {}
  /\ Step(u, "links", "freeHost")
  /\ UNCHANGED <<Elsewhere, frontier, counters, sems, attempt, todo, cur>>

(* The deferred calls of the goroutine, last registered first. *)
FreeHost(u) ==
  /\ Step(u, "freeHost", "freeSem")
  /\ hostSem' = hostSem \ {u}
  /\ UNCHANGED <<Elsewhere, frontier, counters, semaphore, assetSem, attempt, todo, cur>>

FreeSem(u) ==
  /\ Step(u, "freeSem", "inactive")
  /\ IF u \in Asset THEN assetSem' = assetSem \ {u} /\ UNCHANGED semaphore
                    ELSE semaphore' = semaphore \ {u} /\ UNCHANGED assetSem
  /\ UNCHANGED <<Elsewhere, frontier, counters, hostSem, attempt, todo, cur>>

(* Fault: the deferred decrement is missing. *)
Deactivate_Forgets(u) ==
  /\ Step(u, "inactive", "wgDone")
  /\ UNCHANGED <<Elsewhere, frontier, counters, sems, attempt, todo, cur>>

Deactivate(u) ==
  /\ Step(u, "inactive", "wgDone")
  /\ activePages' = activePages - 1
  /\ UNCHANGED <<Elsewhere, frontier, hostURLCount, totalURLs, wg, sems, attempt, todo, cur>>

WgDone(u) ==
  /\ Step(u, "wgDone", "done")
  /\ wg' = wg - 1
  /\ UNCHANGED <<Elsewhere, frontier, hostURLCount, totalURLs, activePages, sems, attempt, todo, cur>>

-----------------------------------------------------------------------------
Prepare == StartCrawl \/ ResetPause

Seed == \E skipped \in SUBSET FalsePositive : SeedQueue(skipped)

Loop ==
  \/ CheckContext \/ CheckPaused \/ PauseWoken \/ PauseCancelled \/ CheckLimit
  \/ \E u \in URL : PopURL(u)
  \/ PopNothing \/ CheckActive \/ SleepOver \/ SleepCancelled
  \/ Refuse \/ Admit
  \/ AssetRefused \/ AssetPasses \/ SpawnAsset \/ AssetCancelled
  \/ TakeHostSlot \/ HostSlotCancelled \/ PageRefused \/ PagePasses
  \/ SpawnPage \/ PageCancelled

Drain == Drained \/ DrainAbandoned

Dispatcher == Prepare \/ Seed \/ Launch \/ LaunchFailed \/ Loop \/ Drain \/ Cleanup

Worker(u) ==
  \/ Begin(u) \/ FinishAsset(u)
  \/ Capture(u) \/ FailAttempt(u) \/ Abandon(u) \/ Retry(u) \/ RetryCancelled(u)
  \/ \E l \in URL : SkipLink(u, l) \/ ChooseLink(u, l)
  \/ MarkLink(u) \/ PushLink(u) \/ FinishPage(u)
  \/ FreeHost(u) \/ FreeSem(u) \/ Deactivate(u) \/ WgDone(u)

Environment == Pause \/ Resume \/ ResumeSend \/ Stop

(* Start has returned, and the last goroutine with it: the system may stop. *)
Terminated == dpc = "done" /\ (\A u \in URL : pc[u] \notin Running) /\ UNCHANGED vars

Next == Dispatcher \/ (\E u \in URL : Worker(u)) \/ Environment \/ Terminated

Spec == Init /\ [][Next]_vars

(* Goroutines run; a select with a ready case proceeds; timers fire; every   *)
(* browser and HTTP operation is under a timeout.  A select picks among its  *)
(* ready cases at random, so the pause wait does not prefer the wake-ups to  *)
(* the cancelled context for ever.  Nobody is bound to call Pause, Resume or *)
(* Stop.                                                                     *)
FairSpec == /\ Spec
            /\ WF_vars(Dispatcher) /\ SF_vars(PauseCancelled) /\ WF_vars(ResumeSend)
            /\ \A u \in URL : WF_vars(Worker(u))

-----------------------------------------------------------------------------
(* Types of the variables of CrawlEngine. *)
TypeOK ==
  /\ dpc \in DispatcherPC /\ cand \in URL \cup {None}
  /\ ctxDone \in BOOLEAN /\ shutdown \in BOOLEAN /\ paused \in BOOLEAN
  /\ resumeCh \in {0, 1} /\ resuming \in Nat /\ poppedPaused \in Nat
  /\ queue \subseteq URL /\ seen \subseteq URL /\ marked \subseteq URL
  /\ depth \in [URL -> Nat]
  /\ hostURLCount \in [Host -> Nat]
  /\ totalURLs \in Nat /\ activePages \in Int /\ wg \in Int
  /\ semaphore \subseteq URL /\ assetSem \subseteq URL /\ hostSem \subseteq URL
  /\ pc \in [URL -> WorkerPC] /\ attempt \in [URL -> Nat]
  /\ todo \in [URL -> SUBSET URL] /\ cur \in [URL -> URL \cup {None}]

(* How far a URL has come, as the frontier sees it. *)
StageOf(u) == IF u \notin seen THEN "new"
              ELSE IF u \in queue THEN "queued"
              ELSE IF cand = u \/ pc[u] \in Running THEN "taken"
              ELSE "settled"

Frontier == INSTANCE CrawlFrontier WITH stage <- [u \in URL |-> StageOf(u)]

(* The engine implements the frontier: each URL is crawled at most once, by  *)
(* one goroutine, discovered by a page being crawled and one level below it, *)
(* and the shallowest queued URL is taken first, however the goroutines of   *)
(* crawlPage, which check, mark and push a link in three steps, interleave.  *)
ImplementsFrontier == Frontier!FrontierSpec

WorkersAt(S) == {u \in URL : pc[u] \in S}

(* activePages and the wait group, moved at different places by the dispatch *)
(* loop and the deferred calls of its goroutines, count exactly the          *)
(* goroutines: the loop's exit test and the drain in Start rest on it.       *)
CountersExact ==
  /\ activePages = Cardinality(WorkersAt(Running \ {"wgDone"}))
  /\ wg = Cardinality(WorkersAt(Running)) + IF dpc \in {"assetSlot", "pageSlot"} THEN 1 ELSE 0

(* The goroutines that crawl, and not merely unwind, are within the three    *)
(* concurrency limits of Start's loop: pages, pages of one host, assets.     *)
Crawling == WorkersAt({"start", "fetch", "backoff", "links", "mark", "push", "asset"})

ConcurrencyLimits ==
  /\ Cardinality(Crawling \ Asset) <= Concurrency
  /\ Cardinality(Crawling \cap Asset) <= AssetConcurrency
  /\ \A h \in Host : Cardinality({u \in Crawling \ Asset : HostOf[u] = h}) <= HostConcurrency

(* A semaphore token is held by the dispatcher's item or by a goroutine that *)
(* still has its deferred release to run: no path of Start's loop, whether   *)
(* it drops the item, is cancelled or hands it over, leaks a token.          *)
NoTokenLeak ==
  /\ semaphore \cup assetSem \subseteq WorkersAt(Running \ {"inactive", "wgDone"})
  /\ hostSem \subseteq WorkersAt(Running \ {"freeSem", "inactive", "wgDone"})
                      \cup (IF dpc \in {"gate", "pageSlot"} THEN {cand} ELSE {})

(* The URL limit is tested in the loop but counted in the goroutines, so it  *)
(* may be overrun, by what the semaphores hold and one item in hand at most. *)
LimitOverrun == totalURLs <= MaxTotalURLs + Concurrency + AssetConcurrency

(* cfg.MaxURLsPerHost bounds the goroutines ever started for a host. *)
HostLimitRespected ==
  MaxURLsPerHost > 0 =>
    \A h \in Host : Cardinality({u \in URL : HostOf[u] = h /\ pc[u] # "idle"}) <= MaxURLsPerHost

(* shouldQueue marks a URL before it is pushed.  As long as the queue does   *)
(* not fill up, every URL marked is in the queue's seen set, or on its way   *)
(* there in the hands of the goroutine that marked it: none is shadowed.     *)
MarkedIsQueued == marked \subseteq seen \cup {cur[u] : u \in WorkersAt({"push"})}

(* A dispatcher waiting for Resume although the crawl is not paused has a    *)
(* wake-up in the channel, or a Resume about to send one.                    *)
NoLostResume == dpc = "wait" /\ ~paused => resumeCh = 1 \/ resuming > 0

(* Once Pause took effect at most one more URL is popped before Resume: the  *)
(* one whose iteration had passed the pause test of the loop.                *)
PauseTakesHold == poppedPaused <= 1

(* Stop ends Start, wherever the loop is blocked: paused, sleeping, waiting  *)
(* for a token or draining.                                                  *)
StopEndsCrawl == shutdown ~> dpc = "done"

(* Start returns unless the crawl is left paused: it neither spins on an     *)
(* empty queue nor waits for a goroutine or a wake-up that never comes.      *)
EndsUnlessPaused == <>[](~paused) => <>(dpc = "done")

-----------------------------------------------------------------------------
(* What a comment of Start says, and the code does not do.                  *)

(* start.go:22: Start "runs the main crawl loop until all URLs are processed *)
(* or the crawl is stopped"; so when the loop ends by its own decision, and   *)
(* not for the limit on URLs, the queue is empty.                            *)
AllProcessed == dpc = "drain" /\ ~shutdown /\ totalURLs < MaxTotalURLs => queue = {}
=============================================================================
