---------------------------- MODULE MCCoordinators ----------------------------
(***************************************************************************)
(* The two coordinators that NewCoordinator chooses from: by Redis for the *)
(* queue in Redis, by files for the queues in Postgres and Kafka.          *)
(***************************************************************************)
EXTENDS FileCoordinator, RedisCoordinator

CONSTANTS w1, w2, f1, f2

VARIABLE use   \* the coordinator, and what it is used for

mvars == <<use, cvars, rvars>>

MCInit == use \in {"file", "election", "locks", "registry"} /\ CoordinatorInit /\ RedisInit

FileStep == use = "file" /\ CoordinatorNext /\ UNCHANGED <<use, rvars>>

(* The election, the locks and the registry in Redis share nothing but the life *)
(* of a worker.                                                                 *)
RedisStep ==
  /\ RedisAllDead \/ (\E p \in Member : Life(p)) \/ (use = "election" /\ Election)
     \/ (use = "locks" /\ Locking) \/ (use = "registry" /\ Registering)
  /\ use # "file" /\ UNCHANGED <<use, cvars>>

MCNext == FileStep \/ RedisStep

(* CoordinatorFairness and RedisFairness: as one coordinator runs, fairness   *)
(* towards an action of one or of the other is fairness towards its own.      *)
ByFile(A) == A /\ use = "file" /\ UNCHANGED <<use, rvars>>
ByRedis(A) == A /\ use = "election" /\ UNCHANGED <<use, cvars>>

MCSpec ==
  /\ MCInit /\ [][MCNext]_mvars
  /\ WF_mvars(ByRedis(LeaseExpires))
  /\ \A p \in Process :
       /\ WF_mvars(ByFile(Heartbeat(p)) \/ ByRedis(Turn(p)))
       /\ SF_mvars(ByFile(\E f \in File : Open(p, f)) \/ ByRedis(ReadsKey(p)))
       /\ SF_mvars(ByFile(Flock(p) \/ WouldBlock(p))) /\ SF_mvars(ByFile(Truncate(p)))
       /\ SF_mvars(ByFile(Write(p))) /\ SF_mvars(ByFile(Unlock(p)))
       /\ WF_mvars(ByFile(RemoveName(p))) /\ WF_mvars(ByFile(phase[p] = "cancelled" /\ Die(p)))
=============================================================================
