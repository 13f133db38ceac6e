-------------------------- MODULE CrawlEngineProofs --------------------------
(***************************************************************************)
(* Theorems about CrawlEngine, for every site, every limit and any number  *)
(* of goroutines.                                                          *)
(***************************************************************************)
EXTENDS CrawlEngine, FiniteSetTheorems, TLAPS

(* The dispatcher holds an item exactly at the steps between the pop and the *)
(* hand-over, and the goroutine of that item does not run yet.               *)
InHand == /\ cand # None <=> dpc \in Holding
          /\ cand # None => cand \notin queue /\ cand \in seen /\ pc[cand] = "idle"

(* A goroutine that marks or pushes a link has one. *)
LinkInHand == \A u \in URL : pc[u] \in {"mark", "push"} => cur[u] \in URL

(* Only URLs that were queued, and are not any more, have a goroutine. *)
PoppedOnce == /\ queue \subseteq seen
              /\ \A u \in URL : pc[u] # "idle" => u \in seen /\ u \notin queue

(* A URL that was never pushed has no depth yet, and before the seeds there *)
(* is none that was.                                                        *)
Fresh == /\ \A u \in URL : u \notin seen => depth[u] = 0
         /\ dpc \in {"init", "reset", "seed"} => seen = {} /\ marked = {}

(* What holds of a process that was restored from a checkpoint as well. *)
Core == TypeOK /\ InHand /\ LinkInHand /\ PoppedOnce

Inv == Core /\ Fresh

(* The invariant holds before Start. *)
LEMMA InitInv == Init => Inv
<1> SUFFICES ASSUME Init PROVE Inv
  OBVIOUS
<1> USE EngineAssumption DEF Init
<1>1. TypeOK
  <2>1. dpc \in DispatcherPC /\ cand \in URL \cup {None}
    BY DEF DispatcherPC
  <2>2. ctxDone \in BOOLEAN /\ shutdown \in BOOLEAN /\ paused \in BOOLEAN
    OBVIOUS
  <2>3. /\ resumeCh \in {0, 1} /\ resuming \in Nat /\ poppedPaused \in Nat
        /\ queue \subseteq URL /\ seen \subseteq URL /\ marked \subseteq URL
        /\ totalURLs \in Nat /\ activePages \in Int /\ wg \in Int
        /\ semaphore \subseteq URL /\ assetSem \subseteq URL /\ hostSem \subseteq URL
    OBVIOUS
  <2>4. /\ depth \in [URL -> Nat] /\ attempt \in [URL -> Nat]
        /\ hostURLCount \in [Host -> Nat]
    OBVIOUS
  <2>5. pc \in [URL -> WorkerPC]
    BY DEF WorkerPC
  <2>6. todo \in [URL -> SUBSET URL] /\ cur \in [URL -> URL \cup {None}]
    OBVIOUS
  <2> QED BY <2>1, <2>2, <2>3, <2>4, <2>5, <2>6 DEF TypeOK
<1>2. InHand /\ LinkInHand /\ PoppedOnce /\ Fresh
  BY DEF InHand, LinkInHand, PoppedOnce, Fresh, Holding
<1> QED BY <1>1, <1>2 DEF Inv, Core

(* The calls of other goroutines move nothing but the control variables. *)
LEMMA EnvironmentCore == Core /\ Environment => Core'
<1> SUFFICES ASSUME Core, Environment PROVE Core'
  OBVIOUS
<1> USE EngineAssumption DEF Core, TypeOK, InHand, LinkInHand, PoppedOnce, control, frontier, counters, sems, workers
<1>1. CASE Pause
  BY <1>1 DEF Pause
<1>2. CASE Resume
  <2>1. resuming' \in Nat
    BY <1>2 DEF Resume
  <2>2. paused' \in BOOLEAN
    BY <1>2, <2>1 DEF Resume
  <2> QED BY <1>2, <2>1, <2>2 DEF Resume
<1>3. CASE ResumeSend
  BY <1>3 DEF ResumeSend
<1>4. CASE Stop
  BY <1>4 DEF Stop
<1> QED BY <1>1, <1>2, <1>3, <1>4 DEF Environment

(* Start, before its seeds. *)
LEMMA PrepareCore == Core /\ Prepare => Core'
<1> SUFFICES ASSUME Core, Prepare PROVE Core'
  OBVIOUS
<1> USE EngineAssumption DEF Core, TypeOK, InHand, LinkInHand, PoppedOnce, control, frontier, counters, sems, workers, DispatcherPC, Holding
<1>1. CASE StartCrawl
  BY <1>1 DEF StartCrawl
<1>2. CASE ResetPause
  BY <1>2 DEF ResetPause
<1> QED BY <1>1, <1>2 DEF Prepare

(* An iteration of the loop: what it pops stays in its hand until it is      *)
(* dropped or handed over to the goroutine that bears its name.              *)
LEMMA LoopCore == Core /\ Loop => Core'
<1> SUFFICES ASSUME Core, Loop PROVE Core'
  OBVIOUS
<1> USE EngineAssumption DEF Core, TypeOK, InHand, LinkInHand, PoppedOnce, control, frontier, counters, sems, workers, DispatcherPC, Holding
<1>1. CASE CheckContext
  BY <1>1 DEF CheckContext, Goto
<1>2. CASE CheckPaused
  BY <1>2 DEF CheckPaused, Goto
<1>3. CASE PauseWoken
  BY <1>3 DEF PauseWoken
<1>4. CASE PauseCancelled
  BY <1>4 DEF PauseCancelled, Goto
<1>5. CASE CheckLimit
  BY <1>5 DEF CheckLimit, Goto
<1>6. CASE \E u \in URL : PopURL(u)
  <2>1. poppedPaused' \in Nat
    BY <1>6 DEF PopURL
  <2> QED BY <1>6, <2>1 DEF PopURL
<1>7. CASE PopNothing
  BY <1>7 DEF PopNothing, Goto
<1>8. CASE CheckActive
  BY <1>8 DEF CheckActive, Goto
<1>9. CASE SleepOver
  BY <1>9 DEF SleepOver, Goto
<1>10. CASE SleepCancelled
  BY <1>10 DEF SleepCancelled, Goto
<1>11. CASE Refuse
  BY <1>11 DEF Refuse, DropTo
<1>12. CASE Admit
  <2>1. hostURLCount' \in [Host -> Nat]
    BY <1>12 DEF Admit
  <2> QED BY <1>12, <2>1 DEF Admit
<1>13. CASE AssetRefused
  BY <1>13 DEF AssetRefused, DropTo
<1>14. CASE AssetPasses
  <2>1. wg' \in Int
    BY <1>14 DEF AssetPasses
  <2> QED BY <1>14, <2>1 DEF AssetPasses
<1>15. CASE SpawnAsset
  <2>1. activePages' \in Int
    BY <1>15 DEF SpawnAsset, Spawn, WorkerPC
  <2> QED BY <1>15, <2>1 DEF SpawnAsset, Spawn, WorkerPC
<1>16. CASE AssetCancelled
  <2>1. wg' \in Int
    BY <1>16 DEF AssetCancelled, DropTo
  <2> QED BY <1>16, <2>1 DEF AssetCancelled, DropTo
<1>17. CASE TakeHostSlot
  BY <1>17 DEF TakeHostSlot
<1>18. CASE HostSlotCancelled
  BY <1>18 DEF HostSlotCancelled, DropTo
<1>19. CASE PageRefused
  BY <1>19 DEF PageRefused, DropTo
<1>20. CASE PagePasses
  <2>1. wg' \in Int
    BY <1>20 DEF PagePasses
  <2> QED BY <1>20, <2>1 DEF PagePasses
<1>21. CASE SpawnPage
  <2>1. activePages' \in Int
    BY <1>21 DEF SpawnPage, Spawn, WorkerPC
  <2> QED BY <1>21, <2>1 DEF SpawnPage, Spawn, WorkerPC
<1>22. CASE PageCancelled
  <2>1. wg' \in Int
    BY <1>22 DEF PageCancelled, DropTo
  <2> QED BY <1>22, <2>1 DEF PageCancelled, DropTo
<1> QED BY <1>1, <1>2, <1>3, <1>4, <1>5, <1>6, <1>7, <1>8, <1>9, <1>10, <1>11, <1>12, <1>13, <1>14, <1>15, <1>16, <1>17, <1>18, <1>19, <1>20, <1>21, <1>22 DEF Loop

(* The seeds: the only URLs that are queued without being found on a page. *)
LEMMA SeedCore == Core /\ Seed => Core'
<1> SUFFICES ASSUME Core, NEW skipped \in SUBSET FalsePositive, SeedQueue(skipped) PROVE Core'
  BY DEF Seed
<1> USE EngineAssumption DEF SeedQueue
<1> DEFINE new == (Seeds \ marked) \ skipped
<1>1. PICK pushed \in SUBSET (new \ seen) :
        /\ queue' = queue \cup pushed /\ seen' = seen \cup pushed
        /\ depth' = [u \in URL |-> IF u \in pushed THEN 0 ELSE depth[u]]
  OBVIOUS
<1>2. pushed \subseteq URL /\ marked' \subseteq URL
  BY DEF Core, TypeOK
<1>3. dpc' \in {"done", "launch"} /\ ctxDone' \in BOOLEAN /\ dpc = "seed"
  BY DEF Core, TypeOK
<1>4. UNCHANGED <<cand, shutdown, paused, resumeCh, resuming, poppedPaused, counters, sems, workers>>
  OBVIOUS
<1> HIDE DEF SeedQueue, new
<1>5. TypeOK'
  BY <1>1, <1>2, <1>3, <1>4 DEF Core, TypeOK, DispatcherPC, counters, sems, workers
<1>6. cand = None
  BY <1>3 DEF Core, InHand, Holding
<1>7. (InHand /\ LinkInHand /\ PoppedOnce)'
  BY <1>1, <1>2, <1>3, <1>4, <1>6
     DEF Core, TypeOK, InHand, LinkInHand, PoppedOnce, Holding, counters, sems, workers
<1> QED BY <1>5, <1>7 DEF Core

(* The pool starts or does not, the goroutines are drained, Start returns. *)
LEMMA EndCore == Core /\ (Launch \/ LaunchFailed \/ Drain \/ Cleanup) => Core'
<1> SUFFICES ASSUME Core, (Launch \/ LaunchFailed \/ Drain \/ Cleanup) PROVE Core'
  OBVIOUS
<1> USE EngineAssumption DEF Core, TypeOK, InHand, LinkInHand, PoppedOnce, control, frontier, counters, sems, workers, DispatcherPC, Holding
<1>1. CASE Launch
  BY <1>1 DEF Launch, Goto
<1>2. CASE LaunchFailed
  BY <1>2 DEF LaunchFailed
<1>3. CASE Drained
  BY <1>3 DEF Drained, Goto
<1>4. CASE DrainAbandoned
  BY <1>4 DEF DrainAbandoned, Goto
<1>5. CASE Cleanup
  BY <1>5 DEF Cleanup
<1> QED BY <1>1, <1>2, <1>3, <1>4, <1>5 DEF Drain

(* The goroutine of u: a link it pushes was never pushed before, or is not. *)
LEMMA WorkerCore == ASSUME NEW u \in URL, Core, Worker(u) PROVE Core'
<1> USE EngineAssumption DEF Core, TypeOK, InHand, LinkInHand, PoppedOnce, control, frontier, counters, sems, workers, Elsewhere, Step, WorkerPC, DispatcherPC, Holding
<1>1. CASE Begin(u)
  <2>1. totalURLs' \in Nat
    BY <1>1 DEF Begin
  <2> QED BY <1>1, <2>1 DEF Begin
<1>2. CASE FinishAsset(u)
  BY <1>2 DEF FinishAsset
<1>3. CASE Capture(u)
  <2>1. todo' \in [URL -> SUBSET URL]
    BY <1>3 DEF Capture
  <2> QED BY <1>3, <2>1 DEF Capture
<1>4. CASE FailAttempt(u)
  <2>1. attempt' \in [URL -> Nat]
    BY <1>4 DEF FailAttempt
  <2> QED BY <1>4, <2>1 DEF FailAttempt
<1>5. CASE Abandon(u)
  BY <1>5 DEF Abandon
<1>6. CASE Retry(u)
  BY <1>6 DEF Retry
<1>7. CASE RetryCancelled(u)
  BY <1>7 DEF RetryCancelled
<1>8. CASE \E l \in URL : SkipLink(u, l)
  <2>1. todo' \in [URL -> SUBSET URL]
    BY <1>8 DEF SkipLink
  <2> QED BY <1>8, <2>1 DEF SkipLink
<1>9. CASE \E l \in URL : ChooseLink(u, l)
  <2>1. todo' \in [URL -> SUBSET URL]
    BY <1>9 DEF ChooseLink
  <2>2. cur' \in [URL -> URL \cup {None}] /\ cur'[u] \in URL
    BY <1>9, <2>1 DEF ChooseLink
  <2> QED BY <1>9, <2>1, <2>2 DEF ChooseLink
<1>10. CASE MarkLink(u)
  BY <1>10 DEF MarkLink
<1>11. CASE PushLink(u)
  <2>1. depth' \in [URL -> Nat] /\ queue' \subseteq URL /\ seen' \subseteq URL
    BY <1>11 DEF PushLink, PushURL
  <2>2. pc' \in [URL -> WorkerPC] /\ cur' \in [URL -> URL \cup {None}]
    BY <1>11 DEF PushLink
  <2>3. UNCHANGED <<Elsewhere, marked, counters, sems, attempt, todo>>
    BY <1>11 DEF PushLink
  <2>4. TypeOK'
    BY <2>1, <2>2, <2>3
  <2>5. (InHand /\ LinkInHand)'
    BY <1>11, <2>3 DEF PushLink, PushURL
  <2>6. PoppedOnce'
    BY <1>11, <2>3 DEF PushLink, PushURL
  <2> QED BY <2>4, <2>5, <2>6
<1>12. CASE FinishPage(u)
  BY <1>12 DEF FinishPage
<1>13. CASE FreeHost(u)
  BY <1>13 DEF FreeHost
<1>14. CASE FreeSem(u)
  BY <1>14 DEF FreeSem
<1>15. CASE Deactivate(u)
  <2>1. activePages' \in Int
    BY <1>15 DEF Deactivate
  <2> QED BY <1>15, <2>1 DEF Deactivate
<1>16. CASE WgDone(u)
  <2>1. wg' \in Int
    BY <1>16 DEF WgDone
  <2> QED BY <1>16, <2>1 DEF WgDone
<1> QED BY <1>1, <1>2, <1>3, <1>4, <1>5, <1>6, <1>7, <1>8, <1>9, <1>10, <1>11, <1>12, <1>13, <1>14, <1>15, <1>16 DEF Worker

(* No step breaks what holds in every process. *)
LEMMA NextCore == Core /\ [Next]_vars => Core'
<1> SUFFICES ASSUME Core, [Next]_vars PROVE Core'
  OBVIOUS
<1>1. CASE UNCHANGED vars
  BY <1>1 DEF Core, TypeOK, InHand, LinkInHand, PoppedOnce, vars, control, frontier, counters, sems, workers
<1>2. CASE Dispatcher
  BY <1>2, PrepareCore, SeedCore, LoopCore, EndCore DEF Dispatcher
<1>3. CASE \E u \in URL : Worker(u)
  BY <1>3, WorkerCore
<1>4. CASE Environment
  BY <1>4, EnvironmentCore
<1> QED BY <1>1, <1>2, <1>3, <1>4 DEF Next, Terminated

(* A URL gets its depth when it is pushed, and nothing is pushed or marked   *)
(* before the seeds.                                                         *)
LEMMA NextFresh == Inv /\ [Next]_vars => Fresh'
<1> SUFFICES ASSUME Inv, [Next]_vars PROVE Fresh'
  OBVIOUS
<1> USE DEF Inv, Core, TypeOK, Fresh
<1>1. CASE UNCHANGED vars
  BY <1>1 DEF vars, frontier
<1>2. CASE Seed
  BY <1>2 DEF Seed, SeedQueue
<1>3. CASE Loop
  BY <1>3 DEF Loop, CheckContext, CheckPaused, PauseWoken, PauseCancelled, CheckLimit, PopURL,
              PopNothing, CheckActive, SleepOver, SleepCancelled, Refuse, Admit, AssetRefused,
              AssetPasses, SpawnAsset, AssetCancelled, TakeHostSlot, HostSlotCancelled, PageRefused,
              PagePasses, SpawnPage, PageCancelled, Spawn, DropTo, Goto, frontier
<1>4. CASE Prepare \/ Launch \/ LaunchFailed \/ Drain \/ Cleanup \/ Environment
  BY <1>4 DEF Prepare, StartCrawl, ResetPause, Launch, LaunchFailed, Drain, Drained, DrainAbandoned,
              Goto, Cleanup, Environment, Pause, Resume, ResumeSend, Stop, frontier
<1>5. ASSUME NEW u \in URL, Worker(u) PROVE Fresh'
  <2>1. dpc' = dpc /\ pc[u] # "idle"
    BY <1>5 DEF Worker, Begin, FinishAsset, Capture, FailAttempt, Abandon, Retry, RetryCancelled,
                SkipLink, ChooseLink, MarkLink, PushLink, FinishPage, FreeHost, FreeSem, Deactivate,
                WgDone, Elsewhere, Step
  <2>2. dpc \notin {"init", "reset", "seed"}
    BY <2>1 DEF PoppedOnce
  <2>3. CASE PushLink(u)
    BY <2>1, <2>2, <2>3 DEF PushLink, PushURL
  <2>4. CASE ~PushLink(u)
    BY <1>5, <2>1, <2>2, <2>4
       DEF Worker, Begin, FinishAsset, Capture, FailAttempt, Abandon, Retry, RetryCancelled,
           SkipLink, ChooseLink, MarkLink, FinishPage, FreeHost, FreeSem, Deactivate, WgDone, frontier
  <2> QED BY <2>3, <2>4
<1> QED BY <1>1, <1>2, <1>3, <1>4, <1>5 DEF Next, Dispatcher, Terminated

(* Nor what holds of a first process. *)
LEMMA NextInv == Inv /\ [Next]_vars => Inv'
BY NextCore, NextFresh DEF Inv

(* The invariant that the theorems below rest on. *)
THEOREM EngineInvariant == Spec => []Inv
<1> QED BY InitInv, NextInv, PTL DEF Spec

(* Every variable keeps its type, whatever the site and the limits. *)
THEOREM EngineTypeOK == Spec => []TypeOK
<1>1. Inv => TypeOK
  BY DEF Inv, Core
<1> QED BY EngineInvariant, <1>1, PTL

-----------------------------------------------------------------------------
(* CrawlEngine implements CrawlFrontier. *)

Taken(u) == cand = u \/ pc[u] \in Running

(* A step that neither touches the queue nor begins or ends a crawl is not  *)
(* seen by the frontier.                                                    *)
LEMMA Unseen ==
  ASSUME UNCHANGED <<queue, depth, seen>>,
         \A u \in seen \ queue : Taken(u)' <=> Taken(u)
  PROVE  UNCHANGED Frontier!fvars
<1>1. \A u \in URL : StageOf(u)' = StageOf(u)
  BY DEF StageOf, Taken
<1> QED BY <1>1 DEF Frontier!fvars

(* One that ends the crawl of w, and does nothing else, settles it. *)
LEMMA Settled ==
  ASSUME UNCHANGED <<queue, depth, seen>>,
         NEW w \in URL, w \in seen, w \notin queue, Taken(w), ~Taken(w)',
         \A u \in URL \ {w} : Taken(u)' <=> Taken(u)
  PROVE  Frontier!Settle(w)
<1>1. StageOf(w) = "taken" /\ StageOf(w)' = "settled"
  BY DEF StageOf, Taken
<1>2. \A u \in URL \ {w} : StageOf(u)' = StageOf(u)
  BY DEF StageOf, Taken
<1> QED BY <1>1, <1>2 DEF Frontier!Settle

(* SeedQueue plants the seeds it pushed. *)
LEMMA SeedPlants == Inv /\ Seed => \E S \in SUBSET Seeds : Frontier!Plant(S)
<1> SUFFICES ASSUME Inv, NEW skipped \in SUBSET FalsePositive, SeedQueue(skipped)
             PROVE  \E S \in SUBSET Seeds : Frontier!Plant(S)
  BY DEF Seed
<1>1. PICK pushed \in SUBSET (((Seeds \ marked) \ skipped) \ seen) :
        /\ queue' = queue \cup pushed /\ seen' = seen \cup pushed
        /\ depth' = [u \in URL |-> IF u \in pushed THEN 0 ELSE depth[u]]
  BY DEF SeedQueue
<1>2. dpc = "seed" /\ UNCHANGED <<cand, workers>>
  BY DEF SeedQueue
<1>3. seen = {} /\ queue = {} /\ cand = None /\ pushed \subseteq Seeds
  BY <1>1, <1>2 DEF Inv, Core, Fresh, PoppedOnce, InHand, Holding
<1>4. depth' = depth
  BY <1>1, <1>3 DEF Inv, Core, TypeOK, Fresh
<1>5. \A u \in URL : StageOf(u) = "new" /\ StageOf(u)' = IF u \in pushed THEN "queued" ELSE "new"
  BY <1>1, <1>3 DEF StageOf
<1>6. Frontier!Plant(pushed)
  BY <1>3, <1>4, <1>5 DEF Frontier!Plant
<1> QED BY <1>3, <1>6

(* A pop takes the shallowest queued URL. *)
LEMMA PopTakes ==
  ASSUME Inv, NEW w \in URL, PopURL(w)
  PROVE  Frontier!Take(w)
<1> USE DEF PopURL
<1>1. StageOf(w) = "queued" /\ StageOf(w)' = "taken"
  BY EngineAssumption DEF Inv, Core, PoppedOnce, StageOf
<1>2. \A u \in URL \ {w} : StageOf(u)' = StageOf(u)
  BY EngineAssumption DEF Inv, Core, InHand, Holding, StageOf, workers
<1>3. \A v \in URL : StageOf(v) = "queued" => depth[w] <= depth[v]
  BY DEF StageOf
<1> QED BY <1>1, <1>2, <1>3 DEF Frontier!Take

(* A push that the queue accepts is a discovery, by the page that is crawled; *)
(* one that it refuses changes nothing.                                       *)
LEMMA PushDiscovers ==
  ASSUME Inv, NEW p \in URL, PushLink(p)
  PROVE  Frontier!Discover(p, cur[p]) \/ UNCHANGED Frontier!fvars
<1>0. PICK l \in URL : l = cur[p]
  BY DEF PushLink, Step, Inv, Core, LinkInHand
<1>1. pc[p] = "push" /\ pc' = [pc EXCEPT ![p] = "links"] /\ cand' = cand /\ PushURL(l, depth[p] + 1)
  BY <1>0 DEF PushLink, Step, Elsewhere
<1>2. p \in seen /\ p \notin queue
  BY <1>1 DEF Inv, Core, PoppedOnce
<1>3. \A u \in URL : pc'[u] \in Running <=> pc[u] \in Running
  BY <1>1 DEF Inv, Core, TypeOK, Running, WorkerPC
<1>4. CASE UNCHANGED <<queue, depth, seen>>
  BY <1>1, <1>3, <1>4, Unseen DEF Taken, Inv, Core, TypeOK
<1>5. CASE /\ l \notin seen /\ queue' = queue \cup {l} /\ seen' = seen \cup {l}
           /\ depth' = [depth EXCEPT ![l] = depth[p] + 1]
  <2>1. StageOf(p) = "taken" /\ StageOf(l) = "new" /\ StageOf(l)' = "queued"
    BY <1>1, <1>2, <1>5 DEF StageOf, Running, WorkerPC
  <2>2. \A u \in URL \ {l} : StageOf(u)' = StageOf(u)
    BY <1>1, <1>3, <1>5 DEF StageOf
  <2>3. Frontier!Discover(p, l)
    BY <1>2, <1>5, <2>1, <2>2 DEF Frontier!Discover
  <2> QED BY <1>0, <2>3
<1> QED BY <1>1, <1>4, <1>5 DEF PushURL

(* The steps of the dispatcher that let go of the item in its hand. *)
Drop == \/ Refuse \/ AssetRefused \/ AssetCancelled
        \/ HostSlotCancelled \/ PageRefused \/ PageCancelled

(* An item that is dropped is never crawled: it is settled. *)
LEMMA DropSettles == Inv /\ Drop => Frontier!Settle(cand)
<1> SUFFICES ASSUME Inv, Drop PROVE Frontier!Settle(cand)
  OBVIOUS
<1>1. dpc \in Holding /\ cand' = None /\ UNCHANGED <<queue, depth, seen, pc>>
  BY DEF Drop, DropTo, Refuse, AssetRefused, AssetCancelled, HostSlotCancelled, PageRefused,
         PageCancelled, Holding, frontier, workers
<1>2. PICK w \in URL : w = cand
  BY <1>1 DEF Inv, Core, TypeOK, InHand
<1>3. w # None /\ w \in seen /\ w \notin queue /\ pc[w] = "idle"
  BY <1>1, <1>2 DEF Inv, Core, InHand
<1>4. Frontier!Settle(w)
  BY <1>1, <1>2, <1>3, EngineAssumption, Settled DEF Taken, Running
<1> QED BY <1>2, <1>4

(* A loop step that neither pops nor drops leaves the item where it is, or  *)
(* starts its goroutine.                                                    *)
LEMMA LoopUnseen ==
  ASSUME Inv, Loop, ~Drop, \A u \in URL : ~PopURL(u)
  PROVE  UNCHANGED Frontier!fvars
<1>1. UNCHANGED <<queue, depth, seen>>
  BY DEF Loop, Drop, CheckContext, CheckPaused, PauseWoken, PauseCancelled, CheckLimit, PopNothing,
         CheckActive, SleepOver, SleepCancelled, Goto, Admit, AssetPasses, SpawnAsset, TakeHostSlot,
         PagePasses, SpawnPage, Spawn, frontier
<1>2. CASE UNCHANGED <<cand, pc>>
  BY <1>1, <1>2, Unseen DEF Taken
<1>3. CASE SpawnAsset \/ SpawnPage
  <2>1. cand \in URL /\ cand' = None /\ pc' = [pc EXCEPT ![cand] = "start"]
    BY <1>3 DEF SpawnAsset, SpawnPage, Spawn, Inv, Core, TypeOK, InHand, Holding
  <2>2. \A u \in seen \ queue : Taken(u)' <=> Taken(u)
    BY <2>1, EngineAssumption DEF Taken, Running, WorkerPC, Inv, Core, TypeOK
  <2> QED BY <1>1, <2>2, Unseen
<1>4. UNCHANGED <<cand, pc>> \/ SpawnAsset \/ SpawnPage
  BY DEF Loop, Drop, CheckContext, CheckPaused, PauseWoken, PauseCancelled, CheckLimit, PopNothing,
         CheckActive, SleepOver, SleepCancelled, Goto, Admit, AssetPasses, TakeHostSlot, PagePasses,
         workers
<1> QED BY <1>2, <1>3, <1>4

(* Of a goroutine's steps the frontier sees the push and the very last. *)
LEMMA WorkerSeen ==
  ASSUME Inv, NEW u \in URL, Worker(u)
  PROVE  (\E v \in URL : Frontier!Discover(u, v)) \/ Frontier!Settle(u) \/ UNCHANGED Frontier!fvars
<1> USE DEF Elsewhere, Step
<1>1. CASE PushLink(u)
  BY <1>1, PushDiscovers DEF PushLink, Inv, Core, LinkInHand
<1>2. CASE WgDone(u)
  <2>1. /\ UNCHANGED <<cand, queue, depth, seen>>
        /\ pc[u] = "wgDone" /\ pc' = [pc EXCEPT ![u] = "done"]
    BY <1>2 DEF WgDone, frontier
  <2>2. cand # u /\ u \in seen /\ u \notin queue
    BY <2>1, EngineAssumption DEF Inv, Core, InHand, PoppedOnce
  <2>3. Taken(u) /\ ~Taken(u)' /\ \A v \in URL \ {u} : Taken(v)' <=> Taken(v)
    BY <2>1, <2>2 DEF Taken, Running, WorkerPC, Inv, Core, TypeOK
  <2> QED BY <2>1, <2>2, <2>3, Settled
<1>3. CASE ~PushLink(u) /\ ~WgDone(u)
  <2>1. UNCHANGED <<cand, queue, depth, seen>>
    BY <1>3 DEF Worker, Begin, FinishAsset, Capture, FailAttempt, Abandon, Retry, RetryCancelled,
                SkipLink, ChooseLink, MarkLink, FinishPage, FreeHost, FreeSem, Deactivate, frontier
  <2>2. \/ pc' = pc
        \/ \E from, to \in Running : pc[u] = from /\ pc' = [pc EXCEPT ![u] = to]
    BY <1>3 DEF Worker, Begin, FinishAsset, Capture, FailAttempt, Abandon, Retry, RetryCancelled,
                SkipLink, ChooseLink, MarkLink, FinishPage, FreeHost, FreeSem, Deactivate,
                Running, WorkerPC
  <2>3. \A v \in seen \ queue : Taken(v)' <=> Taken(v)
    BY <2>1, <2>2 DEF Taken, Inv, Core, TypeOK
  <2> QED BY <2>1, <2>3, Unseen
<1> QED BY <1>1, <1>2, <1>3

(* Start's other steps, and those of its callers, touch nothing of the frontier. *)
LEMMA OthersUnseen ==
  ASSUME Prepare \/ Launch \/ LaunchFailed \/ Drain \/ Cleanup \/ Environment \/ UNCHANGED vars
  PROVE  UNCHANGED Frontier!fvars
<1>1. UNCHANGED <<cand, queue, depth, seen, pc>>
  BY DEF Prepare, StartCrawl, ResetPause, Launch, LaunchFailed, Drain, Drained, DrainAbandoned, Goto,
         Cleanup, Environment, Pause, Resume, ResumeSend, Stop, vars, frontier, workers
<1> QED BY <1>1, Unseen DEF Taken

(* Every step of the engine is a step of the frontier or a stutter. *)
LEMMA FrontierStep == Inv /\ [Next]_vars => [Frontier!FrontierNext]_(Frontier!fvars)
<1> SUFFICES ASSUME Inv, [Next]_vars PROVE [Frontier!FrontierNext]_(Frontier!fvars)
  OBVIOUS
<1>1. CASE Seed
  BY <1>1, SeedPlants DEF Frontier!FrontierNext
<1>2. CASE Loop
  <2>1. CASE Drop
    <3>1. cand \in URL
      BY <2>1, DropSettles DEF Inv, Core, TypeOK, InHand, Drop, Refuse, AssetRefused, AssetCancelled,
                               HostSlotCancelled, PageRefused, PageCancelled, Holding
    <3> QED BY <2>1, <3>1, DropSettles DEF Frontier!FrontierNext
  <2>2. CASE \E u \in URL : PopURL(u)
    BY <2>2, PopTakes DEF Frontier!FrontierNext
  <2> QED BY <1>2, <2>1, <2>2, LoopUnseen
<1>3. CASE \E u \in URL : Worker(u)
  BY <1>3, WorkerSeen DEF Frontier!FrontierNext
<1>4. CASE Prepare \/ Launch \/ LaunchFailed \/ Drain \/ Cleanup \/ Environment \/ UNCHANGED vars
  BY <1>4, OthersUnseen
<1> QED BY <1>1, <1>2, <1>3, <1>4 DEF Next, Dispatcher, Terminated

(* Each URL is crawled at most once, found by a page being crawled and one   *)
(* level below it, and the shallowest queued URL is taken first: the         *)
(* dispatcher and any number of goroutines implement CrawlFrontier.          *)
THEOREM EngineImplementsFrontier == Spec => ImplementsFrontier
<1>1. Init => Frontier!FrontierInit
  BY DEF Init, Frontier!FrontierInit, StageOf
<1> QED BY <1>1, EngineInvariant, FrontierStep, PTL
        DEF Spec, ImplementsFrontier, Frontier!FrontierSpec

-----------------------------------------------------------------------------
(* A wake-up is never lost: whoever clears c.paused while the dispatcher    *)
(* waits still has its send to make.                                        *)
THEOREM EngineNoLostResume == Spec => []NoLostResume
<1>1. Init => NoLostResume
  BY DEF Init, NoLostResume
<1>2. Inv /\ NoLostResume /\ [Next]_vars => NoLostResume'
  <2> SUFFICES ASSUME Inv, NoLostResume, [Next]_vars, dpc' = "wait", ~paused'
               PROVE  resumeCh' = 1 \/ resuming' > 0
    BY DEF NoLostResume
  <2> USE DEF NoLostResume, Inv, Core, TypeOK, control
  <2>1. CASE UNCHANGED vars
    BY <2>1 DEF vars
  <2>2. CASE Environment
    BY <2>2 DEF Environment, Pause, Resume, ResumeSend, Stop
  <2>3. CASE \E u \in URL : Worker(u)
    BY <2>3 DEF Worker, Begin, FinishAsset, Capture, FailAttempt, Abandon, Retry, RetryCancelled,
                SkipLink, ChooseLink, MarkLink, PushLink, FinishPage, FreeHost, FreeSem, Deactivate,
                WgDone, Elsewhere
  <2>4. CASE Dispatcher
    BY <2>4 DEF Dispatcher, Prepare, StartCrawl, ResetPause, Seed, SeedQueue, Launch, LaunchFailed,
                Loop, CheckContext, CheckPaused, PauseWoken, PauseCancelled, CheckLimit, PopURL,
                PopNothing, CheckActive, SleepOver, SleepCancelled, Refuse, Admit, AssetRefused,
                AssetPasses, SpawnAsset, AssetCancelled, TakeHostSlot, HostSlotCancelled, PageRefused,
                PagePasses, SpawnPage, PageCancelled, Spawn, DropTo, Goto, Drain, Drained,
                DrainAbandoned, Cleanup
  <2> QED BY <2>1, <2>2, <2>3, <2>4 DEF Next, Terminated
<1> QED BY <1>1, <1>2, EngineInvariant, PTL DEF Spec

(* While a pause holds, the dispatcher may be past the pause test only if it *)
(* has not popped since.                                                     *)
PauseInv == /\ poppedPaused \in {0, 1}
            /\ paused /\ poppedPaused = 1 => dpc \notin {"limit", "pop"}

(* Once Pause took effect at most one more URL is popped before Resume. *)
THEOREM EnginePauseTakesHold == Spec => []PauseTakesHold
<1>1. Init => PauseInv
  BY DEF Init, PauseInv
<1>2. Inv /\ PauseInv /\ [Next]_vars => PauseInv'
  <2> SUFFICES ASSUME Inv, PauseInv, [Next]_vars PROVE PauseInv'
    OBVIOUS
  <2> USE DEF PauseInv, Inv, Core, TypeOK, control
  <2>1. CASE UNCHANGED vars
    BY <2>1 DEF vars
  <2>2. CASE Environment
    BY <2>2 DEF Environment, Pause, Resume, ResumeSend, Stop
  <2>3. CASE \E u \in URL : Worker(u)
    BY <2>3 DEF Worker, Begin, FinishAsset, Capture, FailAttempt, Abandon, Retry, RetryCancelled,
                SkipLink, ChooseLink, MarkLink, PushLink, FinishPage, FreeHost, FreeSem, Deactivate,
                WgDone, Elsewhere
  <2>4. CASE \E u \in URL : PopURL(u)
    BY <2>4 DEF PopURL
  <2>5. CASE Dispatcher /\ \A u \in URL : ~PopURL(u)
    BY <2>5 DEF Dispatcher, Prepare, StartCrawl, ResetPause, Seed, SeedQueue, Launch, LaunchFailed,
                Loop, CheckContext, CheckPaused, PauseWoken, PauseCancelled, CheckLimit,
                PopNothing, CheckActive, SleepOver, SleepCancelled, Refuse, Admit, AssetRefused,
                AssetPasses, SpawnAsset, AssetCancelled, TakeHostSlot, HostSlotCancelled, PageRefused,
                PagePasses, SpawnPage, PageCancelled, Spawn, DropTo, Goto, Drain, Drained,
                DrainAbandoned, Cleanup
  <2> QED BY <2>1, <2>2, <2>3, <2>4, <2>5 DEF Next, Terminated
<1>3. PauseInv => PauseTakesHold
  BY DEF PauseInv, PauseTakesHold
<1> QED BY <1>1, <1>2, <1>3, EngineInvariant, PTL DEF Spec

-----------------------------------------------------------------------------
(* No path of the loop or of a goroutine leaks a token of a semaphore. *)

(* Assets take tokens of the asset semaphore and of no other, and pages none *)
(* of it: the goroutine of a URL releases what was taken for that URL.       *)
TokenKinds == /\ assetSem \subseteq Asset
              /\ (semaphore \cup hostSem) \cap Asset = {}
              /\ dpc \in {"assetGate", "assetSlot"} => cand \in Asset
              /\ dpc \in {"hostSlot", "gate", "pageSlot"} => cand \notin Asset
              /\ \A u \in URL : pc[u] = "asset" => u \in Asset

TokenInv == NoTokenLeak /\ TokenKinds

(* The loop takes tokens for its item and gives back those it took. *)
LEMMA LoopKeepsTokens == Inv /\ TokenInv /\ Loop => TokenInv'
<1> SUFFICES ASSUME Inv, TokenInv, Loop PROVE TokenInv'
  OBVIOUS
<1> USE DEF Inv, Core, TypeOK, InHand, Holding, TokenInv, TokenKinds, NoTokenLeak, WorkersAt, Running, WorkerPC
<1>1. CASE SpawnAsset \/ SpawnPage
  <2>1. cand \in URL /\ dpc' = "top" /\ cand' = None /\ pc' = [pc EXCEPT ![cand] = "start"]
    BY <1>1 DEF SpawnAsset, SpawnPage, Spawn
  <2>2. CASE SpawnAsset
    BY <2>1, <2>2 DEF SpawnAsset
  <2>3. CASE SpawnPage
    BY <2>1, <2>3 DEF SpawnPage
  <2> QED BY <1>1, <2>2, <2>3
<1>2. CASE PagePasses
  BY <1>2 DEF PagePasses, sems, workers
<1>3. CASE PageRefused \/ PageCancelled
  BY <1>3 DEF PageRefused, PageCancelled, DropTo, workers
<1>4. CASE TakeHostSlot
  BY <1>4 DEF TakeHostSlot, workers
<1>5. CASE Admit \/ AssetPasses
  BY <1>5 DEF Admit, AssetPasses, sems, workers
<1>6. CASE ~(SpawnAsset \/ SpawnPage \/ PagePasses \/ PageRefused \/ PageCancelled \/ TakeHostSlot
             \/ Admit \/ AssetPasses)
  <2>1. /\ UNCHANGED <<sems, pc>>
        /\ dpc \notin {"gate", "pageSlot"}
        /\ dpc' \notin {"assetGate", "assetSlot", "hostSlot", "gate", "pageSlot"}
    BY <1>6 DEF Loop, CheckContext, CheckPaused, PauseWoken, PauseCancelled, CheckLimit, PopURL,
         PopNothing, CheckActive, SleepOver, SleepCancelled, Refuse, AssetRefused,
         AssetCancelled, HostSlotCancelled, DropTo, Goto, workers
  <2> QED BY <2>1 DEF sems
<1> QED BY <1>1, <1>2, <1>3, <1>4, <1>5, <1>6

(* The deferred calls of a goroutine release its tokens in their order. *)
LEMMA WorkerKeepsTokens ==
  ASSUME Inv, TokenInv, NEW u \in URL, Worker(u)
  PROVE  TokenInv'
<1> USE DEF Inv, Core, TypeOK, InHand, Holding, TokenInv, TokenKinds, NoTokenLeak, WorkersAt, Running, WorkerPC,
            Elsewhere, Step, sems
<1>0. cand' = cand /\ dpc' = dpc
  BY DEF Worker, Begin, FinishAsset, Capture, FailAttempt, Abandon, Retry, RetryCancelled, SkipLink,
         ChooseLink, MarkLink, PushLink, FinishPage, FreeHost, FreeSem, Deactivate, WgDone
<1>1. CASE FreeHost(u)
  BY <1>0, <1>1 DEF FreeHost
<1>2. CASE FreeSem(u)
  BY <1>0, <1>2 DEF FreeSem
<1>3. CASE Begin(u)
  BY <1>0, <1>3 DEF Begin
<1>4. CASE FinishAsset(u) \/ Deactivate(u) \/ WgDone(u)
  BY <1>0, <1>4 DEF FinishAsset, Deactivate, WgDone
<1>5. CASE ~(FreeHost(u) \/ FreeSem(u) \/ Begin(u) \/ FinishAsset(u) \/ Deactivate(u) \/ WgDone(u))
  <2>1. UNCHANGED sems
    BY <1>5 DEF Worker, Capture, FailAttempt, Abandon, Retry, RetryCancelled,
           SkipLink, ChooseLink, MarkLink, PushLink, FinishPage
  <2>2. \/ pc' = pc
        \/ \E to \in {"fetch", "backoff", "links", "mark", "push", "freeHost"} :
             pc[u] \notin {"freeSem", "inactive", "wgDone"} /\ pc' = [pc EXCEPT ![u] = to]
    BY <1>5 DEF Worker, Capture, FailAttempt, Abandon, Retry, RetryCancelled,
           SkipLink, ChooseLink, MarkLink, PushLink, FinishPage
  <2> QED BY <1>0, <2>1, <2>2
<1> QED BY <1>1, <1>2, <1>3, <1>4, <1>5

(* Nobody else touches a semaphore. *)
LEMMA OthersKeepTokens ==
  ASSUME Inv, TokenInv,
         Prepare \/ Seed \/ Launch \/ LaunchFailed \/ Drain \/ Cleanup \/ Environment \/ UNCHANGED vars
  PROVE  TokenInv'
<1>1. /\ UNCHANGED <<cand, sems, pc>>
      /\ \/ dpc' = dpc
         \/ dpc \notin Holding /\ dpc' \notin Holding
  BY DEF Prepare, StartCrawl, ResetPause, Seed, SeedQueue, Launch, LaunchFailed, Drain, Drained,
         DrainAbandoned, Goto, Cleanup, Environment, Pause, Resume, ResumeSend, Stop, vars, workers,
         Holding
<1> QED BY <1>1 DEF TokenInv, TokenKinds, NoTokenLeak, WorkersAt, sems, Holding

(* Tokens are where they should be, always. *)
LEMMA EngineTokens == Spec => []TokenInv
<1>1. Init => TokenInv
  BY DEF Init, TokenInv, TokenKinds, NoTokenLeak
<1>2. Inv /\ TokenInv /\ [Next]_vars => TokenInv'
  BY LoopKeepsTokens, WorkerKeepsTokens, OthersKeepTokens DEF Next, Dispatcher, Terminated
<1> QED BY <1>1, <1>2, EngineInvariant, PTL DEF Spec

(* Whether the loop drops an item, is cancelled or hands it over, and        *)
(* however a goroutine ends, no semaphore token is left behind.              *)
THEOREM EngineNoTokenLeak == Spec => []NoTokenLeak
<1>1. TokenInv => NoTokenLeak
  BY DEF TokenInv
<1> QED BY <1>1, EngineTokens, PTL

-----------------------------------------------------------------------------
(* The concurrency limits. *)

Capacities == /\ Cardinality(semaphore) <= Concurrency
              /\ Cardinality(assetSem) <= AssetConcurrency
              /\ \A h \in Host : Cardinality(OnHost(h)) <= HostConcurrency

(* What crawls has its tokens; a page has its host's from before the hand-over. *)
TokensHeld == /\ Crawling \ Asset \subseteq semaphore
              /\ Crawling \cap Asset \subseteq assetSem
              /\ Crawling \ Asset \subseteq hostSem
              /\ dpc \in {"gate", "pageSlot"} => cand \in hostSem

LimitInv == Capacities /\ TokensHeld

(* Taking a token from a semaphore that is not full does not overfill it. *)
LEMMA OneMore ==
  ASSUME NEW S, S \subseteq URL, NEW x \in URL, NEW n \in Nat, Cardinality(S) < n
  PROVE  Cardinality(S \cup {x}) <= n
<1>1. IsFiniteSet(S) /\ Cardinality(S) \in Nat
  BY EngineAssumption, FS_Subset, FS_CardinalityType
<1> QED BY <1>1, FS_AddElement

(* Releasing tokens keeps within the capacity. *)
LEMMA NoMore ==
  ASSUME NEW S, S \subseteq URL, NEW T, T \subseteq S, NEW n \in Nat, Cardinality(S) <= n
  PROVE  Cardinality(T) <= n
<1>1. IsFiniteSet(S) /\ IsFiniteSet(T)
  BY EngineAssumption, FS_Subset
<1>2. Cardinality(S) \in Nat /\ Cardinality(T) \in Nat /\ Cardinality(T) <= Cardinality(S)
  BY <1>1, FS_Subset, FS_CardinalityType
<1> QED BY <1>2

(* The loop takes a token only from a semaphore that is not full. *)
LEMMA LoopKeepsLimits == Inv /\ TokenInv /\ LimitInv /\ Loop => LimitInv'
<1> SUFFICES ASSUME Inv, TokenInv, LimitInv, Loop PROVE LimitInv'
  OBVIOUS
<1> USE DEF LimitInv, TokensHeld, Crawling, WorkersAt
<1>1. CASE SpawnAsset
  <2>1. /\ cand \in Asset /\ cand \in URL /\ dpc' = "top"
        /\ pc' = [pc EXCEPT ![cand] = "start"]
        /\ assetSem' = assetSem \cup {cand} /\ UNCHANGED <<semaphore, hostSem>>
    BY <1>1, EngineAssumption DEF SpawnAsset, Spawn, TokenInv, TokenKinds
  <2>2. Capacities'
    BY <1>1, <2>1, OneMore, EngineAssumption DEF Capacities, SpawnAsset, OnHost, Inv, Core, TypeOK
  <2>3. TokensHeld'
    BY <2>1 DEF Inv, Core, TypeOK
  <2> QED BY <2>2, <2>3
<1>2. CASE SpawnPage
  <2>1. /\ cand \notin Asset /\ cand \in URL /\ cand \in hostSem /\ dpc' = "top"
        /\ pc' = [pc EXCEPT ![cand] = "start"]
        /\ semaphore' = semaphore \cup {cand} /\ UNCHANGED <<assetSem, hostSem>>
    BY <1>2 DEF SpawnPage, Spawn, TokenInv, TokenKinds, Inv, Core, TypeOK, InHand, Holding
  <2>2. Capacities'
    BY <1>2, <2>1, OneMore, EngineAssumption DEF Capacities, SpawnPage, OnHost, Inv, Core, TypeOK
  <2>3. TokensHeld'
    BY <2>1 DEF Inv, Core, TypeOK
  <2> QED BY <2>2, <2>3
<1>3. CASE TakeHostSlot
  <2>1. /\ cand \in URL /\ hostSem' = hostSem \cup {cand} /\ dpc' = "gate"
        /\ UNCHANGED <<cand, semaphore, assetSem, pc>>
    BY <1>3 DEF TakeHostSlot, Inv, Core, TypeOK, InHand, Holding, workers
  <2>2. ASSUME NEW h \in Host PROVE Cardinality(OnHost(h)') <= HostConcurrency
    <3>1. CASE h = HostOf[cand]
      <4>1. OnHost(h)' = OnHost(h) \cup {cand} /\ OnHost(h) \subseteq URL
        BY <2>1, <3>1 DEF OnHost, Inv, Core, TypeOK
      <4>2. Cardinality(OnHost(h)) < HostConcurrency
        BY <1>3, <3>1 DEF TakeHostSlot
      <4> QED BY <2>1, <4>1, <4>2, OneMore, EngineAssumption
    <3>2. CASE h # HostOf[cand]
      <4>1. OnHost(h)' = OnHost(h)
        BY <2>1, <3>2 DEF OnHost
      <4> QED BY <4>1 DEF Capacities
    <3> QED BY <3>1, <3>2
  <2>3. Capacities'
    BY <2>1, <2>2 DEF Capacities
  <2> QED BY <2>1, <2>3
<1>4. CASE PageRefused \/ PageCancelled
  <2>1. /\ hostSem' = hostSem \ {cand} /\ UNCHANGED <<semaphore, assetSem, pc>>
        /\ pc[cand] = "idle" /\ dpc' \notin {"gate", "pageSlot"}
    BY <1>4 DEF PageRefused, PageCancelled, DropTo, Inv, Core, InHand, Holding, workers
  <2>2. \A h \in Host : OnHost(h)' \subseteq OnHost(h) /\ OnHost(h) \subseteq URL
    BY <2>1 DEF OnHost, Inv, Core, TypeOK
  <2>3. Capacities'
    BY <2>1, <2>2, NoMore, EngineAssumption DEF Capacities
  <2>4. TokensHeld'
    BY <2>1
  <2> QED BY <2>3, <2>4
<1>5. CASE ~(SpawnAsset \/ SpawnPage \/ TakeHostSlot \/ PageRefused \/ PageCancelled)
  <2>1. /\ UNCHANGED <<sems, pc>>
        /\ dpc' \in {"gate", "pageSlot"} => dpc \in {"gate", "pageSlot"} /\ cand' = cand
    BY <1>5 DEF Loop, CheckContext, CheckPaused, PauseWoken, PauseCancelled, CheckLimit, PopURL,
         PopNothing, CheckActive, SleepOver, SleepCancelled, Refuse, Admit, AssetRefused, AssetPasses,
         AssetCancelled, HostSlotCancelled, PagePasses, DropTo, Goto, sems, workers
  <2> QED BY <2>1 DEF Capacities, OnHost, sems
<1> QED BY <1>1, <1>2, <1>3, <1>4, <1>5

(* A goroutine only releases tokens, when its crawl is over. *)
LEMMA WorkerKeepsLimits ==
  ASSUME Inv, LimitInv, NEW u \in URL, Worker(u)
  PROVE  LimitInv'
<1> USE DEF LimitInv, TokensHeld, Crawling, WorkersAt, Elsewhere, Step
<1>0. cand' = cand /\ dpc' = dpc
  BY DEF Worker, Begin, FinishAsset, Capture, FailAttempt, Abandon, Retry, RetryCancelled, SkipLink,
         ChooseLink, MarkLink, PushLink, FinishPage, FreeHost, FreeSem, Deactivate, WgDone
<1>1. /\ semaphore' \subseteq semaphore /\ assetSem' \subseteq assetSem /\ hostSem' \subseteq hostSem
  BY DEF Worker, Begin, FinishAsset, Capture, FailAttempt, Abandon, Retry, RetryCancelled, SkipLink,
         ChooseLink, MarkLink, PushLink, FinishPage, FreeHost, FreeSem, Deactivate, WgDone, sems
<1>2. \A h \in Host : OnHost(h)' \subseteq OnHost(h) /\ OnHost(h) \subseteq URL
  BY <1>1 DEF OnHost, Inv, Core, TypeOK
<1>3. Capacities'
  BY <1>1, <1>2, NoMore, EngineAssumption DEF Capacities, Inv, Core, TypeOK
<1>4. CASE FreeHost(u)
  <2>1. /\ pc[u] = "freeHost" /\ pc' = [pc EXCEPT ![u] = "freeSem"]
        /\ hostSem' = hostSem \ {u} /\ UNCHANGED <<semaphore, assetSem>>
    BY <1>4 DEF FreeHost
  <2>2. cand # u \/ dpc \notin {"gate", "pageSlot"}
    BY <2>1 DEF Inv, Core, InHand, Holding
  <2> QED BY <1>0, <1>3, <2>1, <2>2 DEF Inv, Core, TypeOK
<1>5. CASE FreeSem(u)
  <2>1. /\ pc[u] = "freeSem" /\ pc' = [pc EXCEPT ![u] = "inactive"] /\ UNCHANGED hostSem
        /\ semaphore \ {u} \subseteq semaphore' /\ assetSem \ {u} \subseteq assetSem'
    BY <1>5 DEF FreeSem
  <2> QED BY <1>0, <1>3, <2>1 DEF Inv, Core, TypeOK
<1>6. CASE ~FreeHost(u) /\ ~FreeSem(u)
  <2>1. UNCHANGED <<semaphore, assetSem, hostSem>>
    BY <1>6 DEF Worker, Begin, FinishAsset, Capture, FailAttempt, Abandon, Retry, RetryCancelled,
         SkipLink, ChooseLink, MarkLink, PushLink, FinishPage, Deactivate, WgDone, sems
  <2>2. \A v \in URL : pc'[v] \in {"start", "fetch", "backoff", "links", "mark", "push", "asset"}
                         => pc[v] \in {"start", "fetch", "backoff", "links", "mark", "push", "asset"}
    BY <1>6 DEF Worker, Begin, FinishAsset, Capture, FailAttempt, Abandon, Retry, RetryCancelled,
         SkipLink, ChooseLink, MarkLink, PushLink, FinishPage, Deactivate, WgDone, Inv, Core, TypeOK
  <2> QED BY <1>0, <1>3, <2>1, <2>2
<1> QED BY <1>4, <1>5, <1>6

(* Nobody else takes a token or starts a goroutine. *)
LEMMA OthersKeepLimits ==
  ASSUME Inv, LimitInv,
         Prepare \/ Seed \/ Launch \/ LaunchFailed \/ Drain \/ Cleanup \/ Environment \/ UNCHANGED vars
  PROVE  LimitInv'
<1>1. /\ UNCHANGED <<cand, sems, pc>>
      /\ \/ dpc' = dpc
         \/ dpc \notin Holding /\ dpc' \notin Holding
  BY DEF Prepare, StartCrawl, ResetPause, Seed, SeedQueue, Launch, LaunchFailed, Drain, Drained,
         DrainAbandoned, Goto, Cleanup, Environment, Pause, Resume, ResumeSend, Stop, vars, workers,
         Holding
<1> QED BY <1>1 DEF LimitInv, Capacities, OnHost, TokensHeld, Crawling, WorkersAt, sems, Holding

(* Tokens are within the capacities, and what crawls has them, always. *)
LEMMA EngineLimits == Spec => []LimitInv
<1>1. Init => LimitInv
  BY FS_EmptySet, EngineAssumption
     DEF Init, LimitInv, Capacities, OnHost, TokensHeld, Crawling, WorkersAt
<1>2. Inv /\ TokenInv /\ LimitInv /\ [Next]_vars => LimitInv'
  BY LoopKeepsLimits, WorkerKeepsLimits, OthersKeepLimits DEF Next, Dispatcher, Terminated
<1> QED BY <1>1, <1>2, EngineInvariant, EngineTokens, PTL DEF Spec

(* The goroutines that crawl, and not merely unwind, are never more than the *)
(* three limits: pages, pages of one host, assets.                           *)
THEOREM EngineConcurrencyLimits == Spec => []ConcurrencyLimits
<1>1. Inv /\ LimitInv => ConcurrencyLimits
  <2> SUFFICES ASSUME Inv, LimitInv PROVE ConcurrencyLimits
    OBVIOUS
  <2> USE EngineAssumption DEF LimitInv, Capacities, TokensHeld
  <2>1. semaphore \subseteq URL /\ assetSem \subseteq URL
    BY DEF Inv, Core, TypeOK
  <2>2. Cardinality(Crawling \ Asset) <= Concurrency
    BY <2>1, NoMore
  <2>3. Cardinality(Crawling \cap Asset) <= AssetConcurrency
    BY <2>1, NoMore
  <2>4. ASSUME NEW h \in Host
        PROVE  Cardinality({u \in Crawling \ Asset : HostOf[u] = h}) <= HostConcurrency
    <3>1. /\ {u \in Crawling \ Asset : HostOf[u] = h} \subseteq OnHost(h)
          /\ OnHost(h) \subseteq URL
      BY DEF OnHost, Inv, Core, Core, TypeOK
    <3> QED BY <3>1, NoMore
  <2> QED BY <2>2, <2>3, <2>4 DEF ConcurrencyLimits
<1> QED BY <1>1, EngineInvariant, EngineLimits, PTL

-----------------------------------------------------------------------------
(* The counters count the goroutines. *)

(* A goroutine more, or one less, is counted as such. *)
LEMMA OneIn ==
  ASSUME NEW S, S \subseteq URL, NEW x \in URL, x \notin S
  PROVE  Cardinality(S) \in Nat /\ Cardinality(S \cup {x}) = Cardinality(S) + 1
<1>1. IsFiniteSet(S)
  BY EngineAssumption, FS_Subset
<1> QED BY <1>1, FS_AddElement, FS_CardinalityType

(* See OneIn. *)
LEMMA OneOut ==
  ASSUME NEW S, S \subseteq URL, NEW x \in S
  PROVE  Cardinality(S) \in Nat /\ Cardinality(S \ {x}) = Cardinality(S) - 1
<1>1. IsFiniteSet(S)
  BY EngineAssumption, FS_Subset
<1> QED BY <1>1, FS_RemoveElement, FS_CardinalityType

(* The dispatcher has added its item to the wait group and not handed it over. *)
Announced == IF dpc \in {"assetSlot", "pageSlot"} THEN 1 ELSE 0

Active == WorkersAt(Running \ {"wgDone"})
Waited == WorkersAt(Running)

Counted == activePages = Cardinality(Active) /\ wg = Cardinality(Waited) + Announced

(* The sets and their sizes, under names. *)
LEMMA SetsCounted ==
  ASSUME Core
  PROVE  /\ CountersExact <=> Counted
         /\ Active \subseteq URL /\ Waited \subseteq URL
         /\ activePages \in Int /\ wg \in Int
         /\ Cardinality(Active) \in Nat /\ Cardinality(Waited) \in Nat
<1>1. Active \subseteq URL /\ Waited \subseteq URL
  BY DEF Active, Waited, WorkersAt
<1>2. Cardinality(Active) \in Nat /\ Cardinality(Waited) \in Nat
  BY <1>1, EngineAssumption, FS_Subset, FS_CardinalityType
<1>3. CountersExact <=> Counted
  BY DEF CountersExact, Counted, Active, Waited, Announced
<1>4. activePages \in Int /\ wg \in Int
  BY DEF Core, TypeOK
<1> QED BY <1>1, <1>2, <1>3, <1>4

(* No goroutine crosses the border of its set. *)
LEMMA SameSets ==
  ASSUME \A v \in URL : /\ pc'[v] \in Running \ {"wgDone"} <=> pc[v] \in Running \ {"wgDone"}
                        /\ pc'[v] \in Running <=> pc[v] \in Running
  PROVE  Active' = Active /\ Waited' = Waited
BY DEF Active, Waited, WorkersAt

(* The loop announces an item, hands it over or takes the announcement back. *)
LEMMA LoopKeepsCounters == Core /\ Counted /\ Loop => Counted'
<1> SUFFICES ASSUME Core, Counted, Loop PROVE Counted'
  OBVIOUS
<1>1. CASE SpawnAsset \/ SpawnPage
  <2>1. /\ cand \in URL /\ pc[cand] = "idle" /\ dpc \in {"assetSlot", "pageSlot"} /\ dpc' = "top"
        /\ pc' = [pc EXCEPT ![cand] = "start"]
        /\ activePages' = activePages + 1 /\ wg' = wg
    BY <1>1 DEF SpawnAsset, SpawnPage, Spawn, Core, TypeOK, InHand, Holding
  <2>2. /\ Active' = Active \cup {cand} /\ cand \notin Active
        /\ Waited' = Waited \cup {cand} /\ cand \notin Waited
    BY <2>1 DEF Active, Waited, WorkersAt, Running, WorkerPC, Core, TypeOK
  <2>3. Cardinality(Active') = Cardinality(Active) + 1 /\ Cardinality(Waited') = Cardinality(Waited) + 1
    BY <2>1, <2>2, SetsCounted, OneIn
  <2>4. Announced = 1 /\ Announced' = 0
    BY <2>1 DEF Announced
  <2> QED BY <2>1, <2>3, <2>4, SetsCounted DEF Counted
<1>2. CASE AssetPasses \/ PagePasses
  <2>1. wg' = wg + 1 /\ UNCHANGED <<activePages, pc>> /\ Announced = 0 /\ Announced' = 1
    BY <1>2 DEF AssetPasses, PagePasses, Announced, workers
  <2>2. Active' = Active /\ Waited' = Waited
    BY <2>1, SameSets
  <2> QED BY <2>1, <2>2, SetsCounted DEF Counted
<1>3. CASE AssetCancelled \/ PageCancelled
  <2>1. wg' = wg - 1 /\ UNCHANGED <<activePages, pc>> /\ Announced = 1 /\ Announced' = 0
    BY <1>3 DEF AssetCancelled, PageCancelled, DropTo, Announced, workers
  <2>2. Active' = Active /\ Waited' = Waited
    BY <2>1, SameSets
  <2> QED BY <2>1, <2>2, SetsCounted DEF Counted
<1>4. CASE ~(SpawnAsset \/ SpawnPage \/ AssetPasses \/ PagePasses \/ AssetCancelled \/ PageCancelled)
  <2>1. /\ UNCHANGED <<activePages, wg, pc>>
        /\ dpc \notin {"assetSlot", "pageSlot"} /\ dpc' \notin {"assetSlot", "pageSlot"}
    BY <1>4 DEF Loop, CheckContext, CheckPaused, PauseWoken, PauseCancelled, CheckLimit, PopURL,
         PopNothing, CheckActive, SleepOver, SleepCancelled, Refuse, Admit, AssetRefused, TakeHostSlot,
         HostSlotCancelled, PageRefused, DropTo, Goto, counters, workers
  <2>2. Active' = Active /\ Waited' = Waited /\ Announced' = Announced
    BY <2>1, SameSets DEF Announced
  <2> QED BY <2>1, <2>2 DEF Counted
<1> QED BY <1>1, <1>2, <1>3, <1>4

(* The last two deferred calls of a goroutine take it off one counter each. *)
LEMMA WorkerKeepsCounters ==
  ASSUME Core, Counted, NEW u \in URL, Worker(u)
  PROVE  Counted'
<1>0. Announced' = Announced
  BY DEF Worker, Begin, FinishAsset, Capture, FailAttempt, Abandon, Retry, RetryCancelled, SkipLink,
         ChooseLink, MarkLink, PushLink, FinishPage, FreeHost, FreeSem, Deactivate, WgDone,
         Elsewhere, Announced
<1>1. CASE Deactivate(u)
  <2>1. /\ pc[u] = "inactive" /\ pc' = [pc EXCEPT ![u] = "wgDone"]
        /\ activePages' = activePages - 1 /\ wg' = wg
    BY <1>1 DEF Deactivate, Step
  <2>2. Active' = Active \ {u} /\ u \in Active /\ Waited' = Waited
    BY <2>1 DEF Active, Waited, WorkersAt, Running, WorkerPC, Core, TypeOK
  <2>3. Cardinality(Active') = Cardinality(Active) - 1
    BY <2>2, SetsCounted, OneOut
  <2> QED BY <1>0, <2>1, <2>2, <2>3, SetsCounted DEF Counted
<1>2. CASE WgDone(u)
  <2>1. /\ pc[u] = "wgDone" /\ pc' = [pc EXCEPT ![u] = "done"]
        /\ wg' = wg - 1 /\ activePages' = activePages
    BY <1>2 DEF WgDone, Step
  <2>2. Active' = Active /\ Waited' = Waited \ {u} /\ u \in Waited
    BY <2>1 DEF Active, Waited, WorkersAt, Running, WorkerPC, Core, TypeOK
  <2>3. Cardinality(Waited') = Cardinality(Waited) - 1
    BY <2>2, SetsCounted, OneOut
  <2>4. Announced \in Int
    BY DEF Announced
  <2> QED BY <1>0, <2>1, <2>2, <2>3, <2>4, SetsCounted DEF Counted
<1>3. CASE ~Deactivate(u) /\ ~WgDone(u)
  <2>1. UNCHANGED <<activePages, wg>>
    BY <1>3 DEF Worker, Begin, FinishAsset, Capture, FailAttempt, Abandon, Retry, RetryCancelled,
                SkipLink, ChooseLink, MarkLink, PushLink, FinishPage, FreeHost, FreeSem, counters
  <2>2. \/ pc' = pc
        \/ \E from, to \in Running \ {"wgDone"} : pc[u] = from /\ pc' = [pc EXCEPT ![u] = to]
    BY <1>3 DEF Worker, Begin, FinishAsset, Capture, FailAttempt, Abandon, Retry, RetryCancelled,
                SkipLink, ChooseLink, MarkLink, PushLink, FinishPage, FreeHost, FreeSem,
                Step, Running, WorkerPC
  <2>3. \A v \in URL : /\ pc'[v] \in Running \ {"wgDone"} <=> pc[v] \in Running \ {"wgDone"}
                       /\ pc'[v] \in Running <=> pc[v] \in Running
    BY <2>2 DEF Core, TypeOK
  <2> QED BY <1>0, <2>1, <2>3, SameSets DEF Counted
<1> QED BY <1>1, <1>2, <1>3

(* What the other steps leave alone: the goroutines, the counters, and the   *)
(* item, for they happen when the dispatcher has none in its hand or is not  *)
(* the one to move.                                                          *)
LEMMA OthersMoveNoWorker ==
  ASSUME Prepare \/ Seed \/ Launch \/ LaunchFailed \/ Drain \/ Cleanup \/ Environment \/ UNCHANGED vars
  PROVE  /\ UNCHANGED <<cand, counters, sems, pc, cur>>
         /\ \/ dpc' = dpc
            \/ dpc \notin Holding \cup {"pop"} /\ dpc' \notin Holding \cup {"pop"}
BY DEF Prepare, StartCrawl, ResetPause, Seed, SeedQueue, Launch, LaunchFailed, Drain, Drained,
       DrainAbandoned, Goto, Cleanup, Environment, Pause, Resume, ResumeSend, Stop, vars, workers,
       Holding

(* However the deferred calls and the loop interleave, activePages and the   *)
(* wait group count the goroutines exactly.                                  *)
THEOREM EngineCountersExact == Spec => []CountersExact
<1>1. Init => Counted
  <2> SUFFICES ASSUME Init PROVE Counted
    OBVIOUS
  <2>1. Active = {} /\ Waited = {} /\ Announced = 0
    BY DEF Init, Active, Waited, WorkersAt, Running, Announced
  <2>2. Cardinality(Active) = 0 /\ Cardinality(Waited) = 0
    BY <2>1, FS_EmptySet
  <2> QED BY <2>1, <2>2 DEF Init, Counted
<1>2. Core /\ Counted /\ [Next]_vars => Counted'
  <2> SUFFICES ASSUME Core, Counted, [Next]_vars PROVE Counted'
    OBVIOUS
  <2>1. CASE Prepare \/ Seed \/ Launch \/ LaunchFailed \/ Drain \/ Cleanup \/ Environment \/ UNCHANGED vars
    <3>1. UNCHANGED <<activePages, wg, pc>> /\ Announced' = Announced
      BY <2>1, OthersMoveNoWorker DEF counters, Announced, Holding
    <3> QED BY <3>1, SameSets DEF Counted
  <2> QED BY <2>1, LoopKeepsCounters, WorkerKeepsCounters DEF Next, Dispatcher, Terminated
<1>3. Core /\ Counted => CountersExact
  BY SetsCounted
<1>4. Inv => Core
  BY DEF Inv
<1> QED BY <1>1, <1>2, <1>3, <1>4, EngineInvariant, PTL DEF Spec

-----------------------------------------------------------------------------
(* The limit on the URLs of one host. *)

(* URLs of host h that were admitted and not dropped again. *)
Charged(h) == {u \in URL : HostOf[u] = h /\ (pc[u] # "idle" \/ (u = cand /\ dpc \in Holding \ {"admit"}))}

HostInv ==
  \A h \in Host : /\ Cardinality(Charged(h)) <= hostURLCount[h]
                  /\ MaxURLsPerHost > 0 => hostURLCount[h] <= MaxURLsPerHost

(* A step that charges no host keeps it, if it admits no URL either. *)
LEMMA HostFrame ==
  ASSUME Core, HostInv, hostURLCount' = hostURLCount, \A h \in Host : Charged(h)' \subseteq Charged(h)
  PROVE  HostInv'
<1> SUFFICES ASSUME NEW h \in Host PROVE Cardinality(Charged(h)') <= hostURLCount[h]
  BY DEF HostInv
<1>1. Charged(h) \subseteq URL /\ hostURLCount[h] \in Nat
  BY DEF Charged, Core, TypeOK
<1>2. Charged(h)' \subseteq Charged(h) /\ Cardinality(Charged(h)) <= hostURLCount[h]
  BY DEF HostInv
<1> QED BY <1>1, <1>2, NoMore

(* The loop charges the host of an item when it admits it, and the hand-over *)
(* is of an item that is charged for.                                        *)
LEMMA LoopKeepsHosts == Core /\ HostInv /\ Loop => HostInv'
<1> SUFFICES ASSUME Core, HostInv, Loop PROVE HostInv'
  OBVIOUS
<1>1. CASE Admit
  <2>1. /\ cand \in URL /\ HostOf[cand] \in Host /\ ~OverHostLimit(HostOf[cand]) /\ dpc = "admit"
        /\ hostURLCount' = [hostURLCount EXCEPT ![HostOf[cand]] = @ + 1]
        /\ pc' = pc /\ cand' = cand /\ pc[cand] = "idle"
    BY <1>1, EngineAssumption DEF Admit, Core, TypeOK, InHand, Holding, workers
  <2>2. ASSUME NEW h \in Host
        PROVE  /\ Cardinality(Charged(h)') <= hostURLCount'[h]
               /\ MaxURLsPerHost > 0 => hostURLCount'[h] <= MaxURLsPerHost
    <3>0. /\ hostURLCount \in [Host -> Nat] /\ MaxURLsPerHost \in Nat
          /\ Charged(h) \subseteq URL /\ Cardinality(Charged(h)) <= hostURLCount[h]
      BY EngineAssumption DEF Core, TypeOK, Charged, HostInv
    <3>1. CASE h = HostOf[cand]
      <4>1. Charged(h)' \subseteq Charged(h) \cup {cand} /\ cand \notin Charged(h)
        BY <2>1 DEF Charged
      <4>2. Cardinality(Charged(h) \cup {cand}) = Cardinality(Charged(h)) + 1 /\ Cardinality(Charged(h)) \in Nat
        BY <2>1, <3>0, <4>1, OneIn
      <4>3. hostURLCount'[h] = hostURLCount[h] + 1 /\ hostURLCount'[h] \in Nat
        BY <2>1, <3>0, <3>1
      <4>4. Charged(h) \cup {cand} \subseteq URL /\ Cardinality(Charged(h) \cup {cand}) <= hostURLCount'[h]
        BY <2>1, <3>0, <4>2, <4>3
      <4>5. Cardinality(Charged(h)') <= hostURLCount'[h]
        BY <4>1, <4>3, <4>4, NoMore
      <4>6. MaxURLsPerHost > 0 => hostURLCount'[h] <= MaxURLsPerHost
        BY <2>1, <3>0, <3>1, <4>3 DEF OverHostLimit
      <4> QED BY <4>5, <4>6
    <3>2. CASE h # HostOf[cand]
      <4>1. Charged(h)' \subseteq Charged(h) /\ hostURLCount'[h] = hostURLCount[h]
        BY <2>1, <3>0, <3>2 DEF Charged
      <4>2. Cardinality(Charged(h)') <= hostURLCount[h]
        BY <3>0, <4>1, NoMore
      <4> QED BY <4>1, <4>2 DEF HostInv
    <3> QED BY <3>1, <3>2
  <2> QED BY <2>2 DEF HostInv
<1>2. CASE SpawnAsset \/ SpawnPage
  <2>1. /\ cand \in URL /\ dpc \in Holding \ {"admit"} /\ dpc' = "top" /\ hostURLCount' = hostURLCount
        /\ pc' = [pc EXCEPT ![cand] = "start"]
    BY <1>2 DEF SpawnAsset, SpawnPage, Spawn, Core, TypeOK, InHand, Holding
  <2>2. \A h \in Host : Charged(h)' \subseteq Charged(h)
    BY <2>1 DEF Charged, Holding, Core, TypeOK
  <2> QED BY <2>1, <2>2, HostFrame
<1>3. CASE ~(Admit \/ SpawnAsset \/ SpawnPage)
  <2>1. /\ UNCHANGED <<hostURLCount, pc>>
        /\ dpc' \in Holding \ {"admit"} => dpc \in Holding \ {"admit"} /\ cand' = cand
    BY <1>3 DEF Loop, CheckContext, CheckPaused, PauseWoken, PauseCancelled, CheckLimit, PopURL,
         PopNothing, CheckActive, SleepOver, SleepCancelled, Refuse, AssetRefused, AssetPasses,
         AssetCancelled, TakeHostSlot, HostSlotCancelled, PageRefused, PagePasses, PageCancelled,
         DropTo, Goto, counters, workers, Holding
  <2>2. \A h \in Host : Charged(h)' \subseteq Charged(h)
    BY <2>1 DEF Charged
  <2> QED BY <2>1, <2>2, HostFrame
<1> QED BY <1>1, <1>2, <1>3

(* A goroutine stays charged for. *)
LEMMA WorkerKeepsHosts ==
  ASSUME Core, HostInv, NEW u \in URL, Worker(u)
  PROVE  HostInv'
<1>1. dpc' = dpc /\ cand' = cand /\ hostURLCount' = hostURLCount
  BY DEF Worker, Begin, FinishAsset, Capture, FailAttempt, Abandon, Retry, RetryCancelled, SkipLink,
         ChooseLink, MarkLink, PushLink, FinishPage, FreeHost, FreeSem, Deactivate, WgDone, Elsewhere,
         counters
<1>2. \A v \in URL : pc'[v] # "idle" => pc[v] # "idle"
  BY DEF Worker, Begin, FinishAsset, Capture, FailAttempt, Abandon, Retry, RetryCancelled, SkipLink,
         ChooseLink, MarkLink, PushLink, FinishPage, FreeHost, FreeSem, Deactivate, WgDone, Step,
         Core, TypeOK
<1>3. \A h \in Host : Charged(h)' \subseteq Charged(h)
  BY <1>1, <1>2 DEF Charged
<1> QED BY <1>1, <1>3, HostFrame

(* No host ever gets more goroutines than cfg.MaxURLsPerHost, although the   *)
(* limit is tested when an item is admitted and the goroutine starts later.  *)
THEOREM EngineHostLimit == Spec => []HostLimitRespected
<1>1. Init => HostInv
  <2> SUFFICES ASSUME Init, NEW h \in Host PROVE Cardinality(Charged(h)) <= hostURLCount[h] /\ hostURLCount[h] = 0
    BY EngineAssumption DEF HostInv
  <2>1. Charged(h) = {}
    BY DEF Init, Charged, Holding
  <2>2. hostURLCount[h] = 0
    BY DEF Init
  <2> QED BY <2>1, <2>2, FS_EmptySet
<1>2. Core /\ HostInv /\ [Next]_vars => HostInv'
  <2> SUFFICES ASSUME Core, HostInv, [Next]_vars PROVE HostInv'
    OBVIOUS
  <2>1. CASE Prepare \/ Seed \/ Launch \/ LaunchFailed \/ Drain \/ Cleanup \/ Environment \/ UNCHANGED vars
    <3>1. \A h \in Host : Charged(h)' \subseteq Charged(h)
      BY <2>1, OthersMoveNoWorker DEF Charged, Holding
    <3> QED BY <2>1, <3>1, OthersMoveNoWorker, HostFrame DEF counters
  <2> QED BY <2>1, LoopKeepsHosts, WorkerKeepsHosts DEF Next, Dispatcher, Terminated
<1>3. Core /\ HostInv => HostLimitRespected
  <2> SUFFICES ASSUME Core, HostInv, MaxURLsPerHost > 0, NEW h \in Host
               PROVE  Cardinality({u \in URL : HostOf[u] = h /\ pc[u] # "idle"}) <= MaxURLsPerHost
    BY DEF HostLimitRespected
  <2>1. /\ {u \in URL : HostOf[u] = h /\ pc[u] # "idle"} \subseteq Charged(h) /\ Charged(h) \subseteq URL
        /\ hostURLCount[h] \in Nat /\ MaxURLsPerHost \in Nat
    BY EngineAssumption DEF Charged, Core, TypeOK
  <2>2. Cardinality(Charged(h)) <= MaxURLsPerHost
    <3>1. Cardinality(Charged(h)) \in Nat
      BY <2>1, EngineAssumption, FS_Subset, FS_CardinalityType
    <3> QED BY <2>1, <3>1 DEF HostInv
  <2> QED BY <2>1, <2>2, NoMore
<1>4. Inv => Core
  BY DEF Inv
<1> QED BY <1>1, <1>2, <1>3, <1>4, EngineInvariant, PTL DEF Spec

-----------------------------------------------------------------------------
(* The limit on URLs, and by how much it may be overrun. *)

Starting == WorkersAt({"start"})

Slack == Concurrency + AssetConcurrency

(* Goroutines that have counted themselves, and those that have yet to: from *)
(* the test of the limit to the hand-over there is room for one more.        *)
OverrunInv ==
  /\ totalURLs + Cardinality(Starting) <= MaxTotalURLs + Slack
  /\ dpc \in Holding \cup {"pop"} => totalURLs + Cardinality(Starting) < MaxTotalURLs + Slack

(* The goroutines that have yet to count themselves have tokens, so they are *)
(* no more than the semaphores hold.                                         *)
LEMMA StartingBounded ==
  ASSUME Core, LimitInv
  PROVE  /\ Starting \subseteq URL /\ Cardinality(Starting) \in Nat /\ Slack \in Nat
         /\ MaxTotalURLs \in Nat /\ totalURLs \in Nat
         /\ Cardinality(Starting) <= Slack
<1>1. Starting \subseteq URL /\ Starting \subseteq Crawling
  BY DEF Starting, Crawling, WorkersAt
<1>2. /\ IsFiniteSet(URL) /\ semaphore \subseteq URL /\ assetSem \subseteq URL
      /\ Concurrency \in Nat /\ AssetConcurrency \in Nat /\ MaxTotalURLs \in Nat /\ totalURLs \in Nat
  BY EngineAssumption DEF Core, TypeOK
<1>3. Cardinality(Starting \ Asset) <= Concurrency /\ Cardinality(Starting \cap Asset) <= AssetConcurrency
  <2>1. Starting \ Asset \subseteq semaphore /\ Starting \cap Asset \subseteq assetSem
    BY <1>1 DEF LimitInv, TokensHeld
  <2> QED BY <1>2, <2>1, NoMore DEF LimitInv, Capacities
<1>4. IsFiniteSet(Starting \ Asset) /\ IsFiniteSet(Starting \cap Asset) /\ IsFiniteSet(Starting)
  BY <1>1, <1>2, FS_Subset
<1>5. Cardinality(Starting) = Cardinality(Starting \ Asset) + Cardinality(Starting \cap Asset)
  <2> DEFINE P == Starting \ Asset
             A == Starting \cap Asset
  <2>1. P \cup A = Starting /\ P \cap A = {}
    OBVIOUS
  <2>2. Cardinality(P) \in Nat /\ Cardinality(A) \in Nat
    BY <1>4, FS_CardinalityType
  <2>3. Cardinality(P \cup A) = Cardinality(P) + Cardinality(A) - Cardinality(P \cap A)
    BY <1>4, FS_Union
  <2> HIDE DEF P, A
  <2>4. Cardinality(P \cap A) = 0
    BY <2>1, FS_EmptySet
  <2>5. Cardinality(P \cup A) = Cardinality(Starting)
    BY <2>1, Zenon
  <2>6. Cardinality(Starting) = Cardinality(P) + Cardinality(A)
    BY <2>2, <2>3, <2>4, <2>5
  <2> QED BY <2>6 DEF P, A
<1>6. Cardinality(Starting) \in Nat /\ Cardinality(Starting \ Asset) \in Nat /\ Cardinality(Starting \cap Asset) \in Nat
  BY <1>4, FS_CardinalityType
<1> QED BY <1>1, <1>2, <1>3, <1>5, <1>6 DEF Slack

(* The loop passes its test only below the limit, and hands over once. *)
LEMMA LoopKeepsOverrun == Core /\ LimitInv /\ OverrunInv /\ Loop => OverrunInv'
<1> SUFFICES ASSUME Core, LimitInv, OverrunInv, Loop PROVE OverrunInv'
  OBVIOUS
<1>1. CASE SpawnAsset \/ SpawnPage
  <2>1. /\ cand \in URL /\ pc[cand] = "idle" /\ dpc \in Holding /\ dpc' = "top" /\ totalURLs' = totalURLs
        /\ pc' = [pc EXCEPT ![cand] = "start"]
    BY <1>1 DEF SpawnAsset, SpawnPage, Spawn, Core, TypeOK, InHand, Holding
  <2>2. Starting' = Starting \cup {cand} /\ cand \notin Starting
    BY <2>1 DEF Starting, WorkersAt, Core, TypeOK
  <2>3. Cardinality(Starting') = Cardinality(Starting) + 1
    BY <2>1, <2>2, StartingBounded, OneIn
  <2>4. dpc' \notin Holding \cup {"pop"}
    BY <2>1 DEF Holding
  <2> QED BY <2>1, <2>3, <2>4, StartingBounded DEF OverrunInv
<1>2. CASE ~(SpawnAsset \/ SpawnPage)
  <2>1. /\ UNCHANGED <<totalURLs, pc>>
        /\ dpc' \in Holding \cup {"pop"} => dpc \in Holding \cup {"pop"} \/ totalURLs < MaxTotalURLs
    BY <1>2, EngineAssumption DEF Core, TypeOK,
         Loop, CheckContext, CheckPaused, PauseWoken, PauseCancelled, CheckLimit, PopURL,
         PopNothing, CheckActive, SleepOver, SleepCancelled, Refuse, Admit, AssetRefused, AssetPasses,
         AssetCancelled, TakeHostSlot, HostSlotCancelled, PageRefused, PagePasses, PageCancelled,
         DropTo, Goto, counters, workers, Holding
  <2>2. Starting' = Starting
    BY <2>1 DEF Starting, WorkersAt
  <2> QED BY <2>1, <2>2, StartingBounded DEF OverrunInv
<1> QED BY <1>1, <1>2

(* A goroutine that counts itself has stopped starting. *)
LEMMA WorkerKeepsOverrun ==
  ASSUME Core, LimitInv, OverrunInv, NEW u \in URL, Worker(u)
  PROVE  OverrunInv'
<1>0. dpc' = dpc
  BY DEF Worker, Begin, FinishAsset, Capture, FailAttempt, Abandon, Retry, RetryCancelled, SkipLink,
         ChooseLink, MarkLink, PushLink, FinishPage, FreeHost, FreeSem, Deactivate, WgDone, Elsewhere
<1>1. CASE Begin(u)
  <2>1. /\ totalURLs' = totalURLs + 1 /\ pc[u] = "start"
        /\ \E to \in {"asset", "fetch"} : pc' = [pc EXCEPT ![u] = to]
    BY <1>1 DEF Begin, Step
  <2>2. Starting' = Starting \ {u} /\ u \in Starting
    BY <2>1 DEF Starting, WorkersAt, Core, TypeOK
  <2>3. Cardinality(Starting') = Cardinality(Starting) - 1
    BY <2>2, StartingBounded, OneOut
  <2> QED BY <1>0, <2>1, <2>3, StartingBounded DEF OverrunInv
<1>2. CASE ~Begin(u)
  <2>1. totalURLs' = totalURLs
    BY <1>2 DEF Worker, FinishAsset, Capture, FailAttempt, Abandon, Retry, RetryCancelled, SkipLink,
         ChooseLink, MarkLink, PushLink, FinishPage, FreeHost, FreeSem, Deactivate, WgDone, counters
  <2>2. \A v \in URL : pc'[v] = "start" <=> pc[v] = "start"
    BY <1>2 DEF Worker, FinishAsset, Capture, FailAttempt, Abandon, Retry, RetryCancelled, SkipLink,
         ChooseLink, MarkLink, PushLink, FinishPage, FreeHost, FreeSem, Deactivate, WgDone, Step,
         Core, TypeOK
  <2>3. Starting' = Starting
    BY <2>2 DEF Starting, WorkersAt
  <2> QED BY <1>0, <2>1, <2>3 DEF OverrunInv
<1> QED BY <1>1, <1>2

(* The limit on URLs is overrun by no more than the semaphores hold.  The    *)
(* item in hand is among them: its token is taken before its goroutine runs. *)
THEOREM EngineLimitOverrun == Spec => []LimitOverrun
<1>1. Init => OverrunInv
  <2> SUFFICES ASSUME Init PROVE OverrunInv
    OBVIOUS
  <2>1. Starting = {} /\ totalURLs = 0 /\ dpc = "init"
    BY DEF Init, Starting, WorkersAt
  <2>2. MaxTotalURLs \in Nat /\ Slack \in Nat /\ Cardinality(Starting) = 0
    BY <2>1, FS_EmptySet, EngineAssumption DEF Slack
  <2> QED BY <2>1, <2>2 DEF OverrunInv, Holding
<1>2. Core /\ LimitInv /\ OverrunInv /\ [Next]_vars => OverrunInv'
  <2> SUFFICES ASSUME Core, LimitInv, OverrunInv, [Next]_vars PROVE OverrunInv'
    OBVIOUS
  <2>1. CASE Prepare \/ Seed \/ Launch \/ LaunchFailed \/ Drain \/ Cleanup \/ Environment \/ UNCHANGED vars
    <3>1. /\ UNCHANGED <<totalURLs, pc>>
          /\ dpc' \in Holding \cup {"pop"} => dpc \in Holding \cup {"pop"}
      BY <2>1, OthersMoveNoWorker DEF counters
    <3>2. Starting' = Starting
      BY <3>1 DEF Starting, WorkersAt
    <3> QED BY <3>1, <3>2 DEF OverrunInv
  <2> QED BY <2>1, LoopKeepsOverrun, WorkerKeepsOverrun DEF Next, Dispatcher, Terminated
<1>3. Core /\ LimitInv /\ OverrunInv => LimitOverrun
  BY StartingBounded, EngineAssumption DEF OverrunInv, LimitOverrun, Slack
<1>4. Inv => Core
  BY DEF Inv
<1> QED BY <1>1, <1>2, <1>3, <1>4, EngineInvariant, EngineLimits, PTL DEF Spec

-----------------------------------------------------------------------------
(* Marked URLs reach the queue. *)

QueueHasRoom == Cardinality(queue) < MaxQueueSize

(* A seed is marked and pushed in one step, if there is room for it. *)
LEMMA SeedKeepsMarked == Core /\ MarkedIsQueued /\ QueueHasRoom' /\ Seed => MarkedIsQueued'
<1> SUFFICES ASSUME Core, MarkedIsQueued, QueueHasRoom', NEW skipped \in SUBSET FalsePositive, SeedQueue(skipped)
             PROVE  MarkedIsQueued'
  BY DEF Seed
<1> DEFINE new == (Seeds \ marked) \ skipped
<1>1. PICK pushed \in SUBSET (new \ seen) :
        /\ Cardinality(queue \cup pushed) <= MaxQueueSize
        /\ pushed = new \ seen \/ Cardinality(queue \cup pushed) = MaxQueueSize
        /\ queue' = queue \cup pushed /\ seen' = seen \cup pushed
  BY DEF SeedQueue
<1>2. marked' = marked \cup new /\ pc' = pc /\ cur' = cur
  BY DEF SeedQueue, workers
<1>3. pushed = new \ seen
  <2>1. queue \cup pushed \subseteq URL /\ MaxQueueSize \in Nat
    BY EngineAssumption DEF Core, TypeOK
  <2>2. Cardinality(queue \cup pushed) \in Nat
    BY <2>1, EngineAssumption, FS_Subset, FS_CardinalityType
  <2> QED BY <1>1, <2>1, <2>2 DEF QueueHasRoom
<1>4. new \subseteq seen'
  BY <1>1, <1>3
<1> QED BY <1>1, <1>2, <1>4 DEF MarkedIsQueued, WorkersAt

(* Between marking and pushing, the goroutine has the link in its hand. *)
LEMMA WorkerKeepsMarked ==
  ASSUME Core, MarkedIsQueued, QueueHasRoom, NEW u \in URL, Worker(u)
  PROVE  MarkedIsQueued'
<1> USE DEF Core, TypeOK, MarkedIsQueued, WorkersAt, Step
<1>1. CASE MarkLink(u)
  <2>1. /\ marked' = marked \cup {cur[u]} /\ seen' = seen /\ cur' = cur
        /\ pc' = [pc EXCEPT ![u] = "push"]
    BY <1>1 DEF MarkLink
  <2> QED BY <2>1
<1>2. CASE PushLink(u)
  <2>1. /\ seen \subseteq seen' /\ cur[u] \in seen' /\ marked' = marked
        /\ pc' = [pc EXCEPT ![u] = "links"] /\ cur' = [cur EXCEPT ![u] = None]
    <3>1. MaxQueueSize \in Nat /\ Cardinality(queue) \in Nat
      BY EngineAssumption, FS_Subset, FS_CardinalityType
    <3> QED BY <1>2, <3>1 DEF PushLink, PushURL, QueueHasRoom
  <2>2. ASSUME NEW l \in marked PROVE l \in seen' \/ \E v \in URL : pc'[v] = "push" /\ cur'[v] = l
    <3>1. CASE l \in seen
      BY <2>1, <3>1
    <3>2. CASE \E v \in URL : pc[v] = "push" /\ cur[v] = l
      BY <2>1, <3>2
    <3> QED BY <3>1, <3>2
  <2> QED BY <2>1, <2>2
<1>3. CASE ~MarkLink(u) /\ ~PushLink(u)
  <2>1. seen' = seen /\ marked' = marked
    BY <1>3 DEF Worker, Begin, FinishAsset, Capture, FailAttempt, Abandon, Retry, RetryCancelled, SkipLink,
         ChooseLink, FinishPage, FreeHost, FreeSem, Deactivate, WgDone, frontier
  <2>2. \A v \in URL : pc[v] = "push" => pc'[v] = "push" /\ cur'[v] = cur[v]
    BY <1>3 DEF Worker, Begin, FinishAsset, Capture, FailAttempt, Abandon, Retry, RetryCancelled, SkipLink,
         ChooseLink, FinishPage, FreeHost, FreeSem, Deactivate, WgDone
  <2> QED BY <2>1, <2>2
<1> QED BY <1>1, <1>2, <1>3

(* As long as the queue does not fill up, no URL is marked as known without  *)
(* being queued, or about to be: shouldQueue shadows none.                   *)
THEOREM EngineMarkedIsQueued == Spec /\ []QueueHasRoom => []MarkedIsQueued
<1>1. Init => MarkedIsQueued
  BY DEF Init, MarkedIsQueued
<1>2. Core /\ MarkedIsQueued /\ QueueHasRoom /\ QueueHasRoom' /\ [Next]_vars => MarkedIsQueued'
  <2> SUFFICES ASSUME Core, MarkedIsQueued, QueueHasRoom, QueueHasRoom', [Next]_vars PROVE MarkedIsQueued'
    OBVIOUS
  <2>1. CASE Seed
    BY <2>1, SeedKeepsMarked
  <2>2. CASE \E u \in URL : Worker(u)
    BY <2>2, WorkerKeepsMarked
  <2>3. CASE Prepare \/ Launch \/ LaunchFailed \/ Loop \/ Drain \/ Cleanup \/ Environment \/ UNCHANGED vars
    <3>1. /\ UNCHANGED <<seen, marked, cur>>
          /\ pc' = pc \/ \E u \in URL : pc[u] = "idle" /\ pc' = [pc EXCEPT ![u] = "start"]
      BY <2>3 DEF Core, TypeOK, InHand, Holding, Prepare, StartCrawl, ResetPause, Launch, LaunchFailed, Drain,
           Drained, DrainAbandoned, Cleanup, Environment, Pause, Resume, ResumeSend, Stop,
           Loop, CheckContext, CheckPaused, PauseWoken, PauseCancelled, CheckLimit, PopURL,
           PopNothing, CheckActive, SleepOver, SleepCancelled, Refuse, Admit, AssetRefused,
           AssetPasses, SpawnAsset, AssetCancelled, TakeHostSlot, HostSlotCancelled, PageRefused,
           PagePasses, SpawnPage, PageCancelled, Spawn, DropTo, Goto, frontier, workers, vars
    <3>2. \A v \in URL : pc[v] = "push" => pc'[v] = "push"
      BY <3>1 DEF Core, TypeOK
    <3> QED BY <3>1, <3>2 DEF MarkedIsQueued, WorkersAt
  <2> QED BY <2>1, <2>2, <2>3 DEF Next, Dispatcher, Terminated
<1>3. Inv => Core
  BY DEF Inv
<1> QED BY <1>1, <1>2, <1>3, EngineInvariant, PTL DEF Spec

=============================================================================
