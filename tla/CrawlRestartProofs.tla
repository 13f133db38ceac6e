-------------------------- MODULE CrawlRestartProofs --------------------------
(***************************************************************************)
(* Theorems about CrawlRestart: the checkpoint file over any number of     *)
(* processes, for every site and wherever the saves, the crawl and the     *)
(* deaths of processes interleave.                                         *)
(***************************************************************************)
EXTENDS CrawlRestart, CrawlEngineProofs

(* What a checkpoint consists of; the host counts are copied first. *)
HalfCopy == [count : [Host -> Nat]]
FullCopy == [count : [Host -> Nat], queue : SUBSET URL, depth : [URL -> Nat], visited : SUBSET URL]
Checkpoint == {c \in FullCopy : c.queue \subseteq c.visited}

(* Types of the variables of CrawlRestart. *)
FilesOK ==
  /\ file \in Checkpoint \cup {NoFile}
  /\ loaded \in BOOLEAN /\ restored \subseteq URL
  /\ saver \in {"off", "armed", "locking", "counted", "snapped"}
  /\ fin \in {"begin", "locking", "counted", "snapped", "saved", "removed"}
  /\ saver = "counted" => saverCopy \in HalfCopy
  /\ saver = "snapped" => saverCopy \in Checkpoint
  /\ fin = "counted" => finCopy \in HalfCopy
  /\ fin = "snapped" => finCopy \in Checkpoint

(* A process loads the file before it seeds, and crawls and saves after. *)
Early == dpc \in {"init", "reset", "seed"}
Phases == /\ Early => saver = "off" /\ fin = "begin" /\ \A u \in URL : pc[u] = "idle"
          /\ ~Early => loaded
          /\ fin # "begin" => dpc \in {"cleanup", "done"}

Exclusion == ~(SaverHasMutex /\ FinHasMutex)

BaseInv == Core /\ FilesOK /\ Phases /\ Exclusion

(* What the file had when it was loaded is not taken up again. *)
RestoredInv == restored \subseteq seen /\ NoRecrawl

(* A copy is ahead of the file and behind the crawl. *)
AheadOf(c) == c.visited \subseteq seen /\ (file # NoFile => file.visited \subseteq c.visited)
VisitedInv == /\ loaded /\ file # NoFile => file.visited \subseteq seen
              /\ saver = "snapped" => AheadOf(saverCopy)
              /\ fin = "snapped" => AheadOf(finCopy)

(* A host is charged for URLs that were popped, and not for the item in hand *)
(* that the loop has yet to admit.                                           *)
Admitted(h) == {u \in seen \ queue : HostOf[u] = h /\ ~(dpc = "admit" /\ u = cand)}
Covered(count, q, v) == \A h \in Host : count[h] <= Cardinality(Popped(q, v, h))
Consistent(c) == Covered(c.count, c.queue, c.visited)
CountInv == /\ \A h \in Host : hostURLCount[h] <= Cardinality(Admitted(h))
            /\ file # NoFile => Consistent(file)
            /\ saver = "counted" => Covered(saverCopy.count, queue, seen)
            /\ saver = "snapped" => Consistent(saverCopy)
            /\ fin = "counted" => Covered(finCopy.count, queue, seen)
            /\ fin = "snapped" => Consistent(finCopy)

-----------------------------------------------------------------------------
(* What a step of the crawl does to what the checkpoint is about. *)

(* Every step is one of the crawl, or seen by none of it, but for the        *)
(* loading of the file and the start of a process.                           *)
LEMMA Kinds == RestartNext => LoadCheckpoint \/ NewProcess \/ [Next]_vars
BY DEF RestartNext, EngineStep, StartSaver, WorkerStep, Saving, Finish, Next, Dispatcher,
       SaverTick, SaverQuit, SaverCount, SaverSnapshot, SaverWrite,
       CloseDone, FinCount, FinSnapshot, FinWrite, FinRemove

(* The crawl forgets no URL and takes none back into its queue; what gets a  *)
(* goroutine was popped before; a host is charged by Admit alone.            *)
CrawlMove ==
  /\ seen \subseteq seen' /\ seen \ queue \subseteq seen' \ queue'
  /\ cand' \in queue \cup {cand, None}
  /\ dpc' = "admit" => cand' \in queue \/ (dpc = "admit" /\ cand' = cand)
  /\ \A u \in URL : pc[u] = "idle" /\ u # cand => pc'[u] = "idle"
  /\ hostURLCount' = hostURLCount \/ Admit

(* Action by action: only a pop, a push, the seeds and Admit matter. *)
LEMMA CrawlMoves == Core /\ [Next]_vars => CrawlMove
<1> SUFFICES ASSUME Core, [Next]_vars PROVE CrawlMove
  OBVIOUS
<1> USE DEF CrawlMove, Core, TypeOK, frontier, counters, workers
<1>1. CASE Seed
  BY <1>1 DEF Seed, SeedQueue
<1>2. CASE \E u \in URL : PopURL(u)
  BY <1>2 DEF PopURL
<1>3. CASE Loop /\ \A u \in URL : ~PopURL(u)
  BY <1>3 DEF InHand, Holding, Loop, CheckContext, CheckPaused, PauseWoken, PauseCancelled, CheckLimit,
       PopNothing, CheckActive, SleepOver, SleepCancelled, Refuse, Admit, AssetRefused,
       AssetPasses, SpawnAsset, AssetCancelled, TakeHostSlot, HostSlotCancelled, PageRefused,
       PagePasses, SpawnPage, PageCancelled, Spawn, DropTo, Goto
<1>4. CASE Prepare \/ Launch \/ LaunchFailed \/ Drain \/ Cleanup \/ Environment \/ UNCHANGED vars
  BY <1>4 DEF Prepare, StartCrawl, ResetPause, Launch, LaunchFailed, Drain, Drained, DrainAbandoned,
       Goto, Cleanup, Environment, Pause, Resume, ResumeSend, Stop, vars
<1>5. ASSUME NEW u \in URL, PushLink(u) PROVE CrawlMove
  BY <1>5 DEF PushLink, PushURL, Elsewhere, Step, PoppedOnce
<1>6. ASSUME NEW u \in URL, Worker(u), ~PushLink(u) PROVE CrawlMove
  BY <1>6 DEF Worker, Begin, FinishAsset, Capture, FailAttempt, Abandon, Retry, RetryCancelled, SkipLink,
       ChooseLink, MarkLink, FinishPage, FreeHost, FreeSem, Deactivate, WgDone, Elsewhere, Step
<1> QED BY <1>1, <1>2, <1>3, <1>4, <1>5, <1>6 DEF Next, Dispatcher, Terminated

-----------------------------------------------------------------------------
(* The base: types, phases of a process, mutual exclusion of the two saves. *)

(* The phases of Start, as a step of the crawl moves through them. *)
LEMMA EngineStepPhases == Core /\ Phases /\ EngineStep => Phases'
<1> SUFFICES ASSUME Core, Phases, EngineStep PROVE Phases'
  OBVIOUS
<1>1. UNCHANGED <<loaded, saver, fin>>
  BY DEF EngineStep
<1>2. /\ Early' => Early /\ pc' = pc
      /\ Early /\ ~Early' => loaded
      /\ dpc \in {"cleanup", "done"} => dpc' \in {"cleanup", "done"}
  BY DEF Early, EngineStep, Prepare, StartCrawl, ResetPause, Seed, SeedQueue, LaunchFailed, Drain, Drained,
       DrainAbandoned, Goto, Environment, Pause, Resume, ResumeSend, Stop, Terminated, vars,
       Loop, CheckContext, CheckPaused, PauseWoken, PauseCancelled, CheckLimit, PopURL,
       PopNothing, CheckActive, SleepOver, SleepCancelled, Refuse, Admit, AssetRefused,
       AssetPasses, SpawnAsset, AssetCancelled, TakeHostSlot, HostSlotCancelled, PageRefused,
       PagePasses, SpawnPage, PageCancelled, Spawn, DropTo, workers
<1> QED BY <1>1, <1>2 DEF Phases

(* And as the loading, the saves and the next process do. *)
LEMMA RestartPhases == BaseInv /\ [RestartNext]_allVars => Phases'
<1> SUFFICES ASSUME BaseInv, [RestartNext]_allVars PROVE Phases'
  OBVIOUS
<1> USE DEF BaseInv
<1>1. CASE EngineStep
  BY <1>1, EngineStepPhases
<1>2. CASE StartSaver
  BY <1>2 DEF StartSaver, Launch, Goto, Phases, Early
<1>3. CASE LoadCheckpoint
  BY <1>3 DEF LoadCheckpoint, Phases, Early, workers
<1>4. ASSUME NEW u \in URL, WorkerStep(u) PROVE Phases'
  <2>1. dpc' = dpc /\ pc[u] # "idle" /\ UNCHANGED <<loaded, saver, fin>>
    BY <1>4 DEF WorkerStep, Worker, Begin, FinishAsset, Capture, FailAttempt, Abandon, Retry, RetryCancelled,
         SkipLink, ChooseLink, MarkLink, PushLink, FinishPage, FreeHost, FreeSem, Deactivate, WgDone,
         Elsewhere, Step
  <2> QED BY <2>1 DEF Phases, Early
<1>5. CASE Saving
  BY <1>5 DEF Saving, SaverTick, SaverQuit, SaverCount, SaverSnapshot, SaverWrite, vars, workers, Phases, Early
<1>6. CASE CloseDone \/ FinCount \/ FinSnapshot \/ FinWrite
  BY <1>6 DEF CloseDone, FinCount, FinSnapshot, FinWrite, Finishing, vars, workers, Phases, Early
<1>7. CASE FinRemove
  BY <1>7 DEF FinRemove, Finishing, Cleanup, workers, Phases, Early
<1>8. CASE NewProcess
  BY <1>8 DEF NewProcess, Phases, Early
<1>9. CASE UNCHANGED allVars
  BY <1>9 DEF allVars, rvars, vars, workers, Phases, Early
<1> QED BY <1>1, <1>2, <1>3, <1>4, <1>5, <1>6, <1>7, <1>8, <1>9 DEF RestartNext, Finish

(* The engine's own invariant survives the loading and the new process. *)
LEMMA RestartCore == BaseInv /\ [RestartNext]_allVars => Core'
<1> SUFFICES ASSUME BaseInv, [RestartNext]_allVars PROVE Core'
  OBVIOUS
<1>1. CASE [Next]_vars
  BY <1>1, NextCore DEF BaseInv
<1>2. CASE LoadCheckpoint
  <2>1. /\ dpc = "seed" /\ \A u \in URL : pc[u] = "idle"
        /\ UNCHANGED <<dpc, cand, control, poppedPaused, totalURLs, activePages, wg, sems, workers>>
    BY <1>2 DEF LoadCheckpoint, BaseInv, Phases, Early
  <2>2. CASE file = NoFile
    BY <1>2, <2>1, <2>2 DEF LoadCheckpoint, BaseInv, Core, TypeOK, InHand, LinkInHand, PoppedOnce, control,
         sems, workers
  <2>3. CASE file # NoFile
    <3>1. file \in Checkpoint
      BY <2>3 DEF BaseInv, FilesOK
    <3>2. /\ queue' \subseteq seen' /\ seen' \subseteq URL /\ marked' \subseteq URL
          /\ depth' \in [URL -> Nat] /\ hostURLCount' \in [Host -> Nat]
      BY <1>2, <2>3, <3>1 DEF LoadCheckpoint, Checkpoint, FullCopy, BaseInv, Core, TypeOK
    <3>3. cand = None
      BY <2>1 DEF BaseInv, Core, InHand, Holding
    <3>4. TypeOK'
      BY <2>1, <3>2 DEF BaseInv, Core, TypeOK, control, sems, workers
    <3>5. (InHand /\ LinkInHand /\ PoppedOnce)'
      BY <2>1, <3>2, <3>3 DEF InHand, LinkInHand, PoppedOnce, Holding, workers
    <3> QED BY <3>4, <3>5 DEF Core
  <2> QED BY <2>2, <2>3
<1>3. CASE NewProcess
  <2>1. TypeOK'
    <3>1. /\ depth' \in [URL -> Nat] /\ hostURLCount' \in [Host -> Nat] /\ attempt' \in [URL -> Nat]
          /\ pc' \in [URL -> WorkerPC]
          /\ todo' \in [URL -> SUBSET URL] /\ cur' \in [URL -> URL \cup {None}]
      BY <1>3 DEF NewProcess, WorkerPC
    <3>2. /\ dpc' \in DispatcherPC /\ cand' \in URL \cup {None}
          /\ ctxDone' \in BOOLEAN /\ shutdown' \in BOOLEAN /\ paused' \in BOOLEAN
      BY <1>3 DEF NewProcess, DispatcherPC
    <3>3. /\ resumeCh' \in {0, 1} /\ resuming' \in Nat /\ poppedPaused' \in Nat
          /\ queue' \subseteq URL /\ seen' \subseteq URL /\ marked' \subseteq URL
          /\ totalURLs' \in Nat /\ activePages' \in Int /\ wg' \in Int
          /\ semaphore' \subseteq URL /\ assetSem' \subseteq URL /\ hostSem' \subseteq URL
      BY <1>3 DEF NewProcess
    <3> QED BY <3>1, <3>2, <3>3 DEF TypeOK
  <2>2. (InHand /\ LinkInHand /\ PoppedOnce)'
    BY <1>3, EngineAssumption DEF NewProcess, InHand, LinkInHand, PoppedOnce, Holding
  <2> QED BY <2>1, <2>2 DEF Core
<1>4. CASE UNCHANGED allVars
  BY <1>4, NextCore DEF allVars, BaseInv
<1> QED BY <1>1, <1>2, <1>3, <1>4, Kinds

(* What is copied and written are checkpoints. *)
LEMMA RestartFiles == BaseInv /\ [RestartNext]_allVars => FilesOK'
<1> SUFFICES ASSUME BaseInv, [RestartNext]_allVars PROVE FilesOK'
  OBVIOUS
<1> USE DEF BaseInv, FilesOK
<1>1. CASE EngineStep \/ StartSaver \/ \E u \in URL : WorkerStep(u)
  BY <1>1 DEF EngineStep, StartSaver, WorkerStep
<1>2. CASE LoadCheckpoint
  <2>1. restored' \subseteq URL
    BY <1>2 DEF LoadCheckpoint, Checkpoint, FullCopy
  <2> QED BY <1>2, <2>1 DEF LoadCheckpoint
<1>3. CASE SaverTick \/ SaverQuit \/ CloseDone
  BY <1>3 DEF SaverTick, SaverQuit, CloseDone, Finishing
<1>4. Counts \in HalfCopy
  BY DEF Counts, HalfCopy, Core, TypeOK
<1>5. ASSUME NEW c \in HalfCopy PROVE WithSnapshot(c) \in Checkpoint
  BY <1>5 DEF WithSnapshot, HalfCopy, Checkpoint, FullCopy, Core, TypeOK, PoppedOnce
<1>6. CASE SaverCount \/ FinCount
  BY <1>4, <1>6 DEF SaverCount, FinCount, Finishing
<1>7. CASE SaverSnapshot \/ FinSnapshot
  BY <1>5, <1>7 DEF SaverSnapshot, FinSnapshot, Finishing
<1>8. CASE SaverWrite \/ FinWrite \/ FinRemove
  BY <1>8 DEF SaverWrite, FinWrite, FinRemove, Finishing
<1>9. CASE NewProcess \/ UNCHANGED allVars
  BY <1>9 DEF NewProcess, allVars, rvars
<1> QED BY <1>1, <1>2, <1>3, <1>6, <1>7, <1>8, <1>9 DEF RestartNext, Saving, Finish

(* checkpointMu admits one save at a time. *)
LEMMA RestartExclusion == BaseInv /\ [RestartNext]_allVars => Exclusion'
<1> SUFFICES ASSUME BaseInv, [RestartNext]_allVars PROVE Exclusion'
  OBVIOUS
<1> QED BY DEF BaseInv, Phases, Early, Exclusion, SaverHasMutex, FinHasMutex, RestartNext, EngineStep, StartSaver,
     Launch, WorkerStep, LoadCheckpoint, Saving, SaverTick, SaverQuit, SaverCount, SaverSnapshot, SaverWrite,
     Finish, Finishing, CloseDone, FinCount, FinSnapshot, FinWrite, FinRemove, NewProcess, allVars, rvars

(* Types, phases and exclusion hold in every process. *)
LEMMA RestartBase == RestartSpec => []BaseInv
<1>1. RestartInit => BaseInv
  <2> SUFFICES ASSUME RestartInit PROVE BaseInv
    OBVIOUS
  <2>1. Core
    BY InitInv DEF RestartInit, Inv
  <2>2. FilesOK /\ Phases /\ Exclusion
    BY DEF RestartInit, Init, Memory, FilesOK, Phases, Early, Exclusion, SaverHasMutex
  <2> QED BY <2>1, <2>2 DEF BaseInv
<1>2. BaseInv /\ [RestartNext]_allVars => BaseInv'
  BY RestartCore, RestartFiles, RestartPhases, RestartExclusion DEF BaseInv
<1> QED BY <1>1, <1>2, PTL DEF RestartSpec

-----------------------------------------------------------------------------
(* What a process found crawled is not crawled again. *)

(* They are seen, off the queue and without a goroutine; and they stay so,   *)
(* for only what is not seen is pushed and only what is queued is popped.    *)
LEMMA RestartRestored == BaseInv /\ RestoredInv /\ [RestartNext]_allVars => RestoredInv'
<1> SUFFICES ASSUME BaseInv, RestoredInv, [RestartNext]_allVars PROVE RestoredInv'
  OBVIOUS
<1> USE DEF RestoredInv, NoRecrawl
<1>1. CASE LoadCheckpoint
  <2>1. /\ dpc = "seed" /\ UNCHANGED <<dpc, cand, pc>> /\ \A u \in URL : pc[u] = "idle"
    BY <1>1 DEF LoadCheckpoint, workers, BaseInv, Phases, Early
  <2>2. cand = None
    BY <2>1 DEF BaseInv, Core, InHand, Holding
  <2>3. CASE file = NoFile
    BY <1>1, <2>1, <2>3 DEF LoadCheckpoint
  <2>4. CASE file # NoFile
    <3>1. /\ restored' = file.visited \ file.queue /\ queue' = file.queue /\ seen' = file.visited
          /\ restored' \subseteq URL
      BY <1>1, <2>4 DEF LoadCheckpoint, BaseInv, FilesOK, Checkpoint, FullCopy
    <3> QED BY <2>1, <2>2, <3>1, EngineAssumption
  <2> QED BY <2>3, <2>4
<1>2. CASE NewProcess
  BY <1>2 DEF NewProcess
<1>3. CASE restored' = restored /\ [Next]_vars
  <2>1. CrawlMove /\ restored \subseteq URL
    BY <1>3, CrawlMoves DEF BaseInv, FilesOK
  <2> QED BY <1>3, <2>1, EngineAssumption DEF CrawlMove
<1>4. LoadCheckpoint \/ NewProcess \/ restored' = restored
  BY DEF RestartNext, EngineStep, StartSaver, WorkerStep, Saving, SaverTick, SaverQuit, SaverCount,
     SaverSnapshot, SaverWrite, Finish, CloseDone, FinCount, FinSnapshot, FinWrite, FinRemove, allVars, rvars
<1>5. LoadCheckpoint \/ NewProcess \/ [Next]_vars
  BY Kinds DEF allVars
<1> QED BY <1>1, <1>2, <1>3, <1>4, <1>5

(* What the checkpoint has as visited and not queued is never dispatched by  *)
(* the process that loads it, nor found again on a page it crawls.           *)
THEOREM RestartNoRecrawl == RestartSpec => []NoRecrawl
<1>1. RestartInit => RestoredInv
  BY DEF RestartInit, Memory, RestoredInv, NoRecrawl
<1>2. RestoredInv => NoRecrawl
  BY DEF RestoredInv
<1> QED BY <1>1, <1>2, RestartRestored, RestartBase, PTL DEF RestartSpec

-----------------------------------------------------------------------------
(* The file only ever advances. *)

(* A step that saves nothing leaves the copies and the file behind the crawl. *)
LEMMA VisitedFrame ==
  ASSUME VisitedInv, UNCHANGED <<file, loaded, saver, saverCopy, fin, finCopy>>, seen \subseteq seen'
  PROVE  VisitedInv'
BY DEF VisitedInv, AheadOf

(* The two saves exclude each other, so that each writes what is ahead of    *)
(* the file it replaces.                                                     *)
LEMMA RestartVisited == BaseInv /\ VisitedInv /\ [RestartNext]_allVars => VisitedInv'
<1> SUFFICES ASSUME BaseInv, VisitedInv, [RestartNext]_allVars PROVE VisitedInv'
  OBVIOUS
<1>1. CASE EngineStep \/ \E u \in URL : WorkerStep(u)
  <2>1. seen \subseteq seen'
    BY <1>1, CrawlMoves DEF BaseInv, CrawlMove, EngineStep, WorkerStep, Next, Dispatcher
  <2> QED BY <1>1, <2>1, VisitedFrame DEF EngineStep, WorkerStep
<1>2. CASE StartSaver
  BY <1>2 DEF StartSaver, Launch, Goto, frontier, VisitedInv, AheadOf
<1>3. CASE LoadCheckpoint
  <2>1. saver = "off" /\ fin = "begin"
    BY <1>3 DEF LoadCheckpoint, BaseInv, Phases, Early
  <2> QED BY <1>3, <2>1 DEF LoadCheckpoint, VisitedInv
<1>4. CASE SaverTick \/ SaverQuit \/ SaverCount \/ CloseDone \/ FinCount
  BY <1>4 DEF SaverTick, SaverQuit, SaverCount, CloseDone, FinCount, Finishing, vars, frontier, VisitedInv, AheadOf
<1>5. CASE SaverSnapshot \/ FinSnapshot
  <2>1. loaded /\ UNCHANGED <<file, loaded, seen>>
    BY <1>5 DEF SaverSnapshot, FinSnapshot, Finishing, BaseInv, Phases, Early, vars, frontier
  <2>2. CASE SaverSnapshot
    <3>1. saverCopy'.visited = seen /\ UNCHANGED <<fin, finCopy>>
      BY <2>2 DEF SaverSnapshot, WithSnapshot
    <3> QED BY <2>1, <3>1 DEF VisitedInv, AheadOf
  <2>3. CASE FinSnapshot
    <3>1. finCopy'.visited = seen /\ UNCHANGED <<saver, saverCopy>>
      BY <2>3 DEF FinSnapshot, WithSnapshot
    <3> QED BY <2>1, <3>1 DEF VisitedInv, AheadOf
  <2> QED BY <1>5, <2>2, <2>3
<1>6. CASE SaverWrite
  BY <1>6 DEF SaverWrite, vars, frontier, VisitedInv, AheadOf, BaseInv, Exclusion, SaverHasMutex, FinHasMutex
<1>7. CASE FinWrite
  BY <1>7 DEF FinWrite, Finishing, vars, frontier, VisitedInv, AheadOf, BaseInv, Exclusion, SaverHasMutex, FinHasMutex
<1>8. CASE FinRemove
  BY <1>8 DEF FinRemove, Finishing, Cleanup, frontier, VisitedInv, AheadOf
<1>9. CASE NewProcess
  BY <1>9 DEF NewProcess, VisitedInv
<1>10. CASE UNCHANGED allVars
  BY <1>10, VisitedFrame DEF allVars, rvars, vars, frontier
<1> QED BY <1>1, <1>2, <1>3, <1>4, <1>5, <1>6, <1>7, <1>8, <1>9, <1>10 DEF RestartNext, Saving, Finish

(* A URL once recorded as visited stays so until the file is removed,        *)
(* whichever process and whichever of the two saves writes it.               *)
THEOREM RestartVisitedGrows == RestartSpec => VisitedGrows
<1>1. RestartInit => VisitedInv
  BY DEF RestartInit, Memory, VisitedInv
<1>2. VisitedInv /\ [RestartNext]_allVars
        => [file # NoFile /\ file' # NoFile => file.visited \subseteq file'.visited]_allVars
  <2> SUFFICES ASSUME VisitedInv, [RestartNext]_allVars, file # NoFile, file' # NoFile, file' # file
               PROVE  file.visited \subseteq file'.visited
    OBVIOUS
  <2>1. SaverWrite \/ FinWrite
    BY DEF RestartNext, EngineStep, StartSaver, LoadCheckpoint, WorkerStep, Saving, SaverTick, SaverQuit,
       SaverCount, SaverSnapshot, Finish, CloseDone, FinCount, FinSnapshot, FinRemove, NewProcess, allVars, rvars
  <2> QED BY <2>1 DEF SaverWrite, FinWrite, Finishing, VisitedInv, AheadOf
<1> QED BY <1>1, <1>2, RestartVisited, RestartBase, PTL DEF RestartSpec, VisitedGrows

-----------------------------------------------------------------------------
(* Hosts are charged for popped URLs only, in memory, in the copies and on disk. *)

(* A larger set has more elements; all sets of URLs are finite. *)
LEMMA Larger ==
  ASSUME NEW T, T \subseteq URL, NEW S, S \subseteq T
  PROVE  Cardinality(S) \in Nat /\ Cardinality(T) \in Nat /\ Cardinality(S) <= Cardinality(T)
<1>1. IsFiniteSet(T) /\ IsFiniteSet(S)
  BY EngineAssumption, FS_Subset
<1> QED BY <1>1, FS_Subset, FS_CardinalityType

(* Counts that were covered once stay so while URLs are only popped. *)
LEMMA StaysCovered ==
  ASSUME NEW count \in [Host -> Nat], NEW q, NEW v, NEW q2, NEW v2, v2 \subseteq URL,
         v \ q \subseteq v2 \ q2, Covered(count, q, v)
  PROVE  Covered(count, q2, v2)
<1> SUFFICES ASSUME NEW h \in Host PROVE count[h] <= Cardinality(Popped(q2, v2, h))
  BY DEF Covered
<1>1. Popped(q, v, h) \subseteq Popped(q2, v2, h) /\ Popped(q2, v2, h) \subseteq URL
  BY DEF Popped
<1>2. count[h] <= Cardinality(Popped(q, v, h)) /\ count[h] \in Nat
  BY DEF Covered
<1> QED BY <1>1, <1>2, Larger

(* A copy of the host counts is covered by the queue as it is. *)
LEMMA LiveCovered == Core /\ CountInv => Covered(hostURLCount, queue, seen)
<1> SUFFICES ASSUME Core, CountInv, NEW h \in Host
             PROVE  hostURLCount[h] <= Cardinality(Popped(queue, seen, h))
  BY DEF Covered
<1>1. Admitted(h) \subseteq Popped(queue, seen, h) /\ Popped(queue, seen, h) \subseteq URL
  BY DEF Admitted, Popped, Core, TypeOK
<1>2. hostURLCount[h] <= Cardinality(Admitted(h)) /\ hostURLCount[h] \in Nat
  BY DEF CountInv, Core, TypeOK
<1> QED BY <1>1, <1>2, Larger

(* A pop is not charged before it is admitted, and then once. *)
LEMMA CrawlKeepsCharges ==
  ASSUME Core, Core', CrawlMove, \A h \in Host : hostURLCount[h] <= Cardinality(Admitted(h))
  PROVE  \A h \in Host : hostURLCount'[h] <= Cardinality(Admitted(h)')
<1> SUFFICES ASSUME NEW h \in Host PROVE hostURLCount'[h] <= Cardinality(Admitted(h)')
  OBVIOUS
<1>1. Admitted(h)' \subseteq URL /\ Admitted(h) \subseteq URL /\ hostURLCount[h] \in Nat
  BY DEF Admitted, Core, TypeOK
<1>2. Admitted(h) \subseteq Admitted(h)'
  BY DEF CrawlMove, Admitted
<1>3. hostURLCount[h] <= Cardinality(Admitted(h)')
  BY <1>1, <1>2, Larger
<1>4. CASE hostURLCount'[h] = hostURLCount[h]
  BY <1>3, <1>4
<1>5. CASE Admit /\ HostOf[cand] = h
  <2>1. /\ cand \in URL /\ cand \in seen /\ cand \notin queue /\ dpc = "admit" /\ dpc' # "admit"
        /\ hostURLCount'[h] = hostURLCount[h] + 1
    BY <1>5, EngineAssumption DEF Admit, Core, TypeOK, InHand, Holding
  <2>2. cand \notin Admitted(h) /\ cand \in Admitted(h)'
    BY <1>5, <2>1 DEF Admitted, CrawlMove
  <2>3. Cardinality(Admitted(h) \cup {cand}) = Cardinality(Admitted(h)) + 1 /\ Cardinality(Admitted(h)) \in Nat
    BY <1>1, <2>1, <2>2, OneIn
  <2>4. Cardinality(Admitted(h) \cup {cand}) <= Cardinality(Admitted(h)') /\ Cardinality(Admitted(h)') \in Nat
    BY <1>1, <1>2, <2>2, Larger
  <2> QED BY <1>1, <2>1, <2>3, <2>4
<1>6. CASE Admit /\ HostOf[cand] # h
  BY <1>4, <1>6 DEF Admit, Core, TypeOK
<1> QED BY <1>4, <1>5, <1>6 DEF CrawlMove

(* A step of the crawl alone. *)
LEMMA CountFrame ==
  ASSUME BaseInv, Core', CountInv, CrawlMove, UNCHANGED <<file, saver, saverCopy, fin, finCopy>>
  PROVE  CountInv'
<1>1. \A h \in Host : hostURLCount'[h] <= Cardinality(Admitted(h)')
  BY CrawlKeepsCharges DEF BaseInv, CountInv
<1>2. /\ saver = "counted" => Covered(saverCopy.count, queue', seen')
      /\ fin = "counted" => Covered(finCopy.count, queue', seen')
  BY StaysCovered DEF BaseInv, Core, TypeOK, FilesOK, HalfCopy, CountInv, CrawlMove
<1>3. /\ file # NoFile => Consistent(file)
      /\ saver = "snapped" => Consistent(saverCopy)
      /\ fin = "snapped" => Consistent(finCopy)
  BY DEF CountInv
<1> QED BY <1>1, <1>2, <1>3 DEF CountInv, Consistent, Covered

(* The copies are taken counts first: what was popped in between is charged  *)
(* for in the next checkpoint, and never is a URL of the queue.              *)
LEMMA RestartCounts == BaseInv /\ BaseInv' /\ CountInv /\ [RestartNext]_allVars => CountInv'
<1> SUFFICES ASSUME BaseInv, BaseInv', CountInv, [RestartNext]_allVars PROVE CountInv'
  OBVIOUS
<1>0. Core'
  BY DEF BaseInv
<1>1. CASE EngineStep \/ \E u \in URL : WorkerStep(u)
  <2>1. CrawlMove
    BY <1>1, CrawlMoves DEF BaseInv, EngineStep, WorkerStep, Next, Dispatcher
  <2> QED BY <1>0, <1>1, <2>1, CountFrame DEF EngineStep, WorkerStep
<1>2. CASE StartSaver
  <2>1. CrawlMove /\ saver' = "armed" /\ UNCHANGED <<file, fin, finCopy>>
    BY <1>2, CrawlMoves DEF BaseInv, StartSaver, Launch, Phases, Early, Next, Dispatcher
  <2>2. \A h \in Host : hostURLCount'[h] <= Cardinality(Admitted(h)')
    BY <1>0, <2>1, CrawlKeepsCharges DEF BaseInv, CountInv
  <2>3. fin = "begin"
    BY <1>2 DEF StartSaver, Launch, BaseInv, Phases
  <2> QED BY <2>1, <2>2, <2>3 DEF CountInv, Consistent, Covered
<1>3. CASE LoadCheckpoint
  <2>1. /\ saver = "off" /\ fin = "begin" /\ dpc = "seed" /\ cand = None
        /\ UNCHANGED <<dpc, cand, saver, fin, file>>
    BY <1>3 DEF LoadCheckpoint, BaseInv, Phases, Early, Core, InHand, Holding
  <2>2. CASE file = NoFile
    <3>1. \A h \in Host : hostURLCount'[h] <= Cardinality(Admitted(h)')
      BY <1>3, <2>1, <2>2 DEF LoadCheckpoint, CountInv, Admitted
    <3> QED BY <2>1, <2>2, <3>1 DEF CountInv
  <2>3. CASE file # NoFile
    <3>1. /\ hostURLCount' = file.count /\ queue' = file.queue /\ seen' = file.visited
          /\ Consistent(file)
      BY <1>3, <2>3 DEF LoadCheckpoint, CountInv
    <3>2. \A h \in Host : Admitted(h)' = Popped(file.queue, file.visited, h)
      BY <2>1, <3>1 DEF Admitted, Popped
    <3>3. \A h \in Host : hostURLCount'[h] <= Cardinality(Admitted(h)')
      BY <3>1, <3>2 DEF Consistent, Covered
    <3> QED BY <2>1, <3>1, <3>3 DEF CountInv, Consistent, Covered
  <2> QED BY <2>2, <2>3
<1>4. CASE SaverTick \/ SaverQuit \/ CloseDone
  <2>1. /\ UNCHANGED <<vars, file, saverCopy, finCopy>>
        /\ saver' \in {"counted", "snapped"} => saver' = saver
        /\ fin' \in {"counted", "snapped"} => fin' = fin
    BY <1>4 DEF SaverTick, SaverQuit, CloseDone, Finishing
  <2>2. UNCHANGED <<dpc, cand, queue, seen, hostURLCount>>
    BY <2>1 DEF vars, frontier, counters
  <2> QED BY <2>1, <2>2 DEF CountInv, Admitted, Consistent, Covered, Popped
<1>5. CASE SaverCount \/ FinCount
  <2>1. UNCHANGED <<dpc, cand, queue, seen, hostURLCount, file>>
    BY <1>5 DEF SaverCount, FinCount, vars, frontier, counters
  <2>2. Covered(hostURLCount, queue, seen)
    BY LiveCovered DEF BaseInv
  <2>3. CASE SaverCount
    BY <2>1, <2>2, <2>3 DEF SaverCount, Counts, CountInv, Admitted, Consistent, Covered, Popped
  <2>4. CASE FinCount
    BY <2>1, <2>2, <2>4 DEF FinCount, Finishing, Counts, CountInv, Admitted, Consistent, Covered, Popped
  <2> QED BY <1>5, <2>3, <2>4
<1>6. CASE SaverSnapshot \/ FinSnapshot
  <2>1. UNCHANGED <<dpc, cand, queue, seen, hostURLCount, file>>
    BY <1>6 DEF SaverSnapshot, FinSnapshot, vars, frontier, counters
  <2>2. ASSUME NEW c, Covered(c.count, queue, seen) PROVE Consistent(WithSnapshot(c))
    BY <2>2 DEF Consistent, WithSnapshot
  <2>3. CASE SaverSnapshot
    BY <2>1, <2>2, <2>3 DEF SaverSnapshot, CountInv, Admitted, Consistent, Covered, Popped
  <2>4. CASE FinSnapshot
    BY <2>1, <2>2, <2>4 DEF FinSnapshot, Finishing, CountInv, Admitted, Consistent, Covered, Popped
  <2> QED BY <1>6, <2>3, <2>4
<1>7. CASE SaverWrite \/ FinWrite
  <2>1. UNCHANGED <<dpc, cand, queue, seen, hostURLCount>>
    BY <1>7 DEF SaverWrite, FinWrite, vars, frontier, counters
  <2>2. CASE SaverWrite
    BY <2>1, <2>2 DEF SaverWrite, CountInv, Admitted, Consistent, Covered, Popped
  <2>3. CASE FinWrite
    BY <2>1, <2>3 DEF FinWrite, Finishing, CountInv, Admitted, Consistent, Covered, Popped
  <2> QED BY <1>7, <2>2, <2>3
<1>8. CASE FinRemove
  <2>1. /\ CrawlMove /\ file' = NoFile /\ fin' = "removed" /\ UNCHANGED <<saver, saverCopy>>
    BY <1>8, CrawlMoves DEF BaseInv, FinRemove, Finishing, Next, Dispatcher
  <2>2. \A h \in Host : hostURLCount'[h] <= Cardinality(Admitted(h)')
    BY <1>0, <2>1, CrawlKeepsCharges DEF BaseInv, CountInv
  <2>3. saver = "counted" => Covered(saverCopy.count, queue', seen')
    BY <1>0, <2>1, StaysCovered DEF BaseInv, Core, TypeOK, FilesOK, HalfCopy, CountInv, CrawlMove
  <2> QED BY <2>1, <2>2, <2>3 DEF CountInv, Consistent, Covered
<1>9. CASE NewProcess
  <2>1. /\ UNCHANGED file /\ saver' = "off" /\ fin' = "begin" /\ seen' = {}
        /\ hostURLCount' = [h \in Host |-> 0]
    BY <1>9 DEF NewProcess
  <2>2. \A h \in Host : Admitted(h)' = {} /\ hostURLCount'[h] = 0
    BY <2>1 DEF Admitted
  <2> QED BY <2>1, <2>2, FS_EmptySet DEF CountInv, Consistent, Covered
<1>10. CASE UNCHANGED allVars
  <2>1. UNCHANGED <<dpc, cand, queue, seen, hostURLCount, file, saver, saverCopy, fin, finCopy>>
    BY <1>10 DEF allVars, rvars, vars, frontier, counters
  <2> QED BY <2>1 DEF CountInv, Admitted, Consistent, Covered, Popped
<1> QED BY <1>1, <1>2, <1>3, <1>4, <1>5, <1>6, <1>7, <1>8, <1>9, <1>10 DEF RestartNext, Saving, Finish

(* What is on disk is a state the crawl could have been in: nothing queued   *)
(* that is not visited, no host charged for a URL that is still queued.      *)
THEOREM RestartCheckpointConsistent == RestartSpec => []CheckpointConsistent
<1>1. RestartInit => CountInv
  <2> SUFFICES ASSUME RestartInit PROVE CountInv
    OBVIOUS
  <2>1. \A h \in Host : Admitted(h) = {} /\ hostURLCount[h] = 0
    BY DEF RestartInit, Init, Admitted
  <2> QED BY <2>1, FS_EmptySet DEF RestartInit, Memory, CountInv
<1>2. BaseInv /\ CountInv => CheckpointConsistent
  BY DEF BaseInv, FilesOK, Checkpoint, CountInv, Consistent, Covered, CheckpointConsistent
<1> QED BY <1>1, <1>2, RestartCounts, RestartBase, PTL DEF RestartSpec

=============================================================================
