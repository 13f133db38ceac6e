---------------------------- MODULE CrawlRestart ----------------------------
(***************************************************************************)
(* The crawl over several processes: CrawlEngine with the checkpoint file  *)
(* of internal/crawler/checkpoint.go.  A background goroutine saves it     *)
(* periodically (periodic.go), the end of Start saves and removes it, a    *)
(* process may die at any moment or end, and the next one loads the file   *)
(* it finds.  Save writes a temporary file and renames it: what is on disk *)
(* is always one complete checkpoint.                                      *)
(***************************************************************************)
EXTENDS CrawlEngine

CONSTANTS MaxRuns,   \* bound: processes in a behaviour
          NoFile     \* there is no checkpoint file

ASSUME RestartAssumption == MaxRuns \in Nat

VARIABLES
  file,       \* the checkpoint file, or NoFile
  loaded,     \* Start is past the loading of the checkpoint
  restored,   \* history: URLs this process found visited and not queued
  saver,      \* where the goroutine of periodicCheckpoint is
  saverCopy,  \* what it is about to write
  fin,        \* where the end of Start is
  finCopy,    \* what it is about to write
  settled,    \* history: URLs crawled to the end, or refused by the loop, in some process
  runs        \* processes started so far

rvars == <<file, loaded, restored, saver, saverCopy, fin, finCopy, settled, runs>>
allVars == <<vars, rvars>>

(* Process memory that a new process starts with. *)
Memory ==
  /\ loaded = FALSE /\ restored = {}
  /\ saver = "off" /\ saverCopy = NoFile
  /\ fin = "begin" /\ finCopy = NoFile

RestartInit == Init /\ Memory /\ file = NoFile /\ settled = {} /\ runs = 1

(* A crash, a kill, or the start of the program after it ended: what Init   *)
(* and Memory say holds again, only the file is left.                       *)
NewProcess ==
  /\ runs < MaxRuns /\ dpc # "init"
  /\ runs' = runs + 1
  /\ dpc' = "init" /\ cand' = None
  /\ ctxDone' = FALSE /\ shutdown' = FALSE
  /\ paused' = FALSE /\ resumeCh' = 0 /\ resuming' = 0 /\ poppedPaused' = 0
  /\ queue' = {} /\ depth' = [u \in URL |-> 0] /\ seen' = {} /\ marked' = {}
  /\ hostURLCount' = [h \in Host |-> 0]
  /\ totalURLs' = 0 /\ activePages' = 0 /\ wg' = 0
  /\ semaphore' = {} /\ assetSem' = {} /\ hostSem' = {}
  /\ pc' = [u \in URL |-> "idle"] /\ attempt' = [u \in URL |-> 0]
  /\ todo' = [u \in URL |-> {}] /\ cur' = [u \in URL |-> None]
  /\ loaded' = FALSE /\ restored' = {}
  /\ saver' = "off" /\ saverCopy' = NoFile /\ fin' = "begin" /\ finCopy' = NoFile
  /\ UNCHANGED <<file, settled>>

(* Fault: the seen URLs that are no longer queued are not restored. *)
LoadCheckpoint_QueueOnly ==
  /\ dpc = "seed" /\ ~loaded
  /\ loaded' = TRUE
  /\ IF file = NoFile
       THEN UNCHANGED <<queue, depth, seen, marked, hostURLCount, restored>>
       ELSE /\ queue' = file.queue /\ depth' = file.depth /\ seen' = file.queue
            /\ marked' = marked \cup file.queue
            /\ hostURLCount' = file.count
            /\ restored' = file.visited \ file.queue
  /\ UNCHANGED <<dpc, cand, control, poppedPaused, totalURLs, activePages, wg, sems, workers,
                 file, saver, saverCopy, fin, finCopy, settled, runs>>

(* Start loads the checkpoint it finds: the queue, its seen set and the host *)
(* counts are replaced, and every visited URL is marked as known.            *)
LoadCheckpoint ==
  /\ dpc = "seed" /\ ~loaded
  /\ loaded' = TRUE
  /\ IF file = NoFile
       THEN UNCHANGED <<queue, depth, seen, marked, hostURLCount, restored>>
       ELSE /\ queue' = file.queue /\ depth' = file.depth /\ seen' = file.visited
            /\ marked' = marked \cup file.visited
            /\ hostURLCount' = file.count
            /\ restored' = file.visited \ file.queue
  /\ UNCHANGED <<dpc, cand, control, poppedPaused, totalURLs, activePages, wg, sems, workers,
                 file, saver, saverCopy, fin, finCopy, settled, runs>>

-----------------------------------------------------------------------------
(* saveCheckpoint: under checkpointMu it copies the host counts, under a     *)
(* second lock it takes a snapshot of the queue, and it writes both.         *)

SaverHasMutex == saver \in {"counted", "snapped"}
FinHasMutex == fin \in {"counted", "snapped"}

Counts == [count |-> hostURLCount]
WithSnapshot(c) == [count |-> c.count, queue |-> queue, depth |-> depth, visited |-> seen]

SaverTick ==
  /\ saver = "armed" /\ saver' = "locking"
  /\ UNCHANGED <<vars, file, loaded, restored, saverCopy, fin, finCopy, settled, runs>>

SaverQuit ==
  /\ saver = "armed"
  /\ ctxDone \/ fin # "begin"
  /\ saver' = "off"
  /\ UNCHANGED <<vars, file, loaded, restored, saverCopy, fin, finCopy, settled, runs>>

(* Fault: the end of Start does not exclude the periodic save. *)
SaverCount_Unlocked ==
  /\ saver = "locking"
  /\ saver' = "counted" /\ saverCopy' = Counts
  /\ UNCHANGED <<vars, file, loaded, restored, fin, finCopy, settled, runs>>

SaverCount ==
  /\ saver = "locking" /\ ~FinHasMutex
  /\ saver' = "counted" /\ saverCopy' = Counts
  /\ UNCHANGED <<vars, file, loaded, restored, fin, finCopy, settled, runs>>

SaverSnapshot ==
  /\ saver = "counted"
  /\ saver' = "snapped" /\ saverCopy' = WithSnapshot(saverCopy)
  /\ UNCHANGED <<vars, file, loaded, restored, fin, finCopy, settled, runs>>

(* Fault: the live host counts are written, not the copy. *)
SaverWrite_LiveCounts ==
  /\ saver = "snapped"
  /\ saver' = "armed" /\ saverCopy' = NoFile
  /\ file' \in {file, [saverCopy EXCEPT !.count = hostURLCount]}
  /\ UNCHANGED <<vars, loaded, restored, fin, finCopy, settled, runs>>

(* Save fails without a trace when the disk refuses the temporary file. *)
SaverWrite ==
  /\ saver = "snapped"
  /\ saver' = "armed" /\ saverCopy' = NoFile
  /\ file' \in {file, saverCopy}
  /\ UNCHANGED <<vars, loaded, restored, fin, finCopy, settled, runs>>

-----------------------------------------------------------------------------
(* The end of Start. *)

Finishing(from, to) == dpc = "cleanup" /\ fin = from /\ fin' = to

CloseDone ==
  /\ Finishing("begin", "locking")
  /\ UNCHANGED <<vars, file, loaded, restored, saver, saverCopy, finCopy, settled, runs>>

FinCount ==
  /\ Finishing("locking", "counted") /\ ~SaverHasMutex
  /\ finCopy' = Counts
  /\ UNCHANGED <<vars, file, loaded, restored, saver, saverCopy, settled, runs>>

FinSnapshot ==
  /\ Finishing("counted", "snapped")
  /\ finCopy' = WithSnapshot(finCopy)
  /\ UNCHANGED <<vars, file, loaded, restored, saver, saverCopy, settled, runs>>

FinWrite ==
  /\ Finishing("snapped", "saved")
  /\ file' \in {file, finCopy} /\ finCopy' = NoFile
  /\ UNCHANGED <<vars, loaded, restored, saver, saverCopy, settled, runs>>

(* The file is removed, whether the crawl was completed or interrupted. *)
FinRemove ==
  /\ Finishing("saved", "removed")
  /\ Cleanup
  /\ file' = NoFile
  /\ UNCHANGED <<loaded, restored, saver, saverCopy, finCopy, settled, runs>>

-----------------------------------------------------------------------------
EngineStep ==
  /\ \/ Prepare
     \/ loaded /\ Seed
     \/ LaunchFailed
     \/ Loop
     \/ Drain
     \/ Environment
     \/ Terminated
  /\ settled' = settled \cup {u \in URL \cap {cand} : ~ctxDone /\ cand' = None /\ pc'[u] = "idle"}
  /\ UNCHANGED <<file, loaded, restored, saver, saverCopy, fin, finCopy, runs>>

StartSaver ==
  /\ Launch
  /\ saver' = "armed"
  /\ UNCHANGED <<file, loaded, restored, saverCopy, fin, finCopy, settled, runs>>

(* A goroutine leaves crawlPage or crawlAsset. *)
WorkerStep(u) ==
  /\ Worker(u)
  /\ settled' = IF pc'[u] \in {"freeHost", "freeSem"} THEN settled \cup {u} ELSE settled
  /\ UNCHANGED <<file, loaded, restored, saver, saverCopy, fin, finCopy, runs>>

Saving == SaverTick \/ SaverQuit \/ SaverCount \/ SaverSnapshot \/ SaverWrite
Finish == CloseDone \/ FinCount \/ FinSnapshot \/ FinWrite \/ FinRemove

RestartNext ==
  \/ EngineStep \/ StartSaver \/ LoadCheckpoint \/ (\E u \in URL : WorkerStep(u))
  \/ Saving \/ Finish \/ NewProcess

RestartSpec == RestartInit /\ [][RestartNext]_allVars

-----------------------------------------------------------------------------
(* URLs of host h that have been popped, as seen in the sets q and v. *)
Popped(q, v, h) == {u \in v \ q : HostOf[u] = h}

(* The file on disk is a state the crawl went through: nothing is queued     *)
(* that is not visited, and a host is charged for no URL still in the queue. *)
(* The counts are copied before the snapshot is taken, with pops in between. *)
CheckpointConsistent ==
  file # NoFile =>
    /\ file.queue \subseteq file.visited
    /\ \A h \in Host : file.count[h] <= Cardinality(Popped(file.queue, file.visited, h))

(* LoadFromCheckpoint brings back the seen set: what the checkpoint has as   *)
(* visited and not queued is never dispatched by the resumed process.        *)
NoRecrawl == \A u \in restored : u \notin queue /\ cand # u /\ pc[u] = "idle"

(* While a process loads or saves, the file is replaced, never damaged: a    *)
(* URL once recorded as visited stays so until the file is removed.          *)
VisitedGrows ==
  [][file # NoFile /\ file' # NoFile => file.visited \subseteq file'.visited]_allVars

-----------------------------------------------------------------------------
(* README.md:73: "Checkpoint/resume - saves queue state, survives process    *)
(* restarts": a crawl that was stopped with URLs in its queue has them on    *)
(* disk once Start has returned.                                             *)
InterruptedCrawlCanResume ==
  dpc = "done" /\ shutdown /\ fin = "removed" /\ queue # {} => file # NoFile

(* checkpoint.go:24: the checkpoint serves "resuming interrupted crawls": a  *)
(* URL it has as visited is still in its queue, or its crawl came to an end, *)
(* or the loop decided to leave it.                                          *)
NothingInFlightLost ==
  saver = "off" /\ file # NoFile /\ dpc = "init" =>
    \A u \in file.visited \ file.queue : u \in settled
=============================================================================
