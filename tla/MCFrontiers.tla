------------------------------ MODULE MCFrontiers ------------------------------
(***************************************************************************)
(* The frontier of a crawl that outlives a process: the queue of one       *)
(* process with its checkpoint file, and the queues that two processes     *)
(* share, on each of the backends NewQueueFromConfig chooses from.  They   *)
(* share no state: a behaviour is one of one of the two.                   *)
(***************************************************************************)
EXTENDS MCCrawlRestart, DistributedQueue

CONSTANTS w1, w2

VARIABLE which    \* "file" or "shared"

MCInit ==
  /\ which \in {"file", "shared"} /\ RestartInit
  /\ QueueInit /\ (which = "file" => backend = "redis")

(* Processes that share a queue may all be at rest. *)
MCNext ==
  /\ UNCHANGED which
  /\ \/ which = "file" /\ RestartNext /\ UNCHANGED qvars
     \/ which = "shared" /\ (QueueNext \/ UNCHANGED qvars) /\ UNCHANGED allVars

(* Bounds: no more than two copies of a URL.  Both URLs in Redis after a     *)
(* crash only while no checkpoint is being taken with two commands; in       *)
(* Postgres and Kafka only without a crash or a checkpoint, and in Kafka     *)
(* until something fails, with all that is committed flushed, the counters   *)
(* at 0 or 1 (they may go below), and one process at a time in a push and in *)
(* a pop.                                                                    *)
Known == UNION {dedup[w] \cup saved[w].visited : w \in Client}
Flushed == \A w \in Client : unflushed[w] = {} /\ pending[w] \in 0..1
Reading == \E w \in Client : reading[w] # Null
Unsaved == crashes = 0 /\ ~Reading /\ saved[w1] = NoCheckpoint
OneInKafka ==
  /\ Flushed /\ faulted = {}
  /\ push[w1] = Idle \/ push[w2] = Idle
  /\ pop[w1] = Idle \/ pop[w2] = Idle
Bounds ==
  /\ \A u \in Url : CopiesOf(u) <= 2 /\ pushed[u] <= 2
  /\ p2 \in Known => p1 \in Known
  /\ backend = "redis" /\ Known = Url /\ crashes > 0 => ~Reading
  /\ backend # "redis" /\ Known = Url => Unsaved
  /\ backend = "kafka" /\ Known = Url => OneInKafka
  /\ backend = "kafka" /\ crashes > 0 => Len(store) <= 1 /\ Flushed
=============================================================================
