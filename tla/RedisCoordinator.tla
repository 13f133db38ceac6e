--------------------------- MODULE RedisCoordinator ---------------------------
(***************************************************************************)
(* internal/coordinator/redis_coordinator.go: the election of a leader, a  *)
(* lock and the registry of workers, kept in Redis keys that expire.  The  *)
(* leader's key is set for LockTTL and never renewed.  A lock is renewed   *)
(* by a goroutine every third of its time, which ignores what its command  *)
(* answers and may be late: the key may expire at any time all the same,   *)
(* and its worker does not learn of it.  Any command may fail, before or   *)
(* after Redis has run it or so that Redis runs it later, and a process    *)
(* may die.                                                                *)
(*                                                                         *)
(* Nothing in the crawler takes a lock or registers a worker of its own;   *)
(* both are modelled as the interface offers them, one call at a time.     *)
(***************************************************************************)
EXTENDS Naturals, FiniteSets

CONSTANTS
  Member,   \* workers, each with an ID of its own
  Nobody    \* no worker

ASSUME RedisCoordinatorAssumption == Nobody \notin Member

VARIABLES
  rphase,     \* rphase[p]: the life of the worker
  lease,      \* the key coordinator:leader: who has it, or Nobody
  elect,      \* elect[p]: runLeaderElection: "idle", or SetNX has failed: "get"
  rleader,    \* rleader[p]: rc.leaderID
  lock,       \* the key coordinator:locks:<key>: who has it, or Nobody
  call,       \* call[p]: the call of AcquireLock or ReleaseLock that is going on
  lockKeys,   \* workers that have the key in rc.lockKeys
  late,       \* workers whose release was given up and may yet be run
  lapsed,     \* history: workers whose key is gone, other than by a release that
              \* followed, since they set it
  registry    \* workers whose key coordinator:workers:<id> exists

election == <<lease, elect, rleader>>
locking == <<lock, call, lockKeys, late, lapsed>>
rvars == <<rphase, election, locking, registry>>

RedisInit ==
  /\ rphase = [p \in Member |-> "new"]
  /\ lease = Nobody /\ elect = [p \in Member |-> "idle"] /\ rleader = [p \in Member |-> Nobody]
  /\ lock = Nobody /\ call = [p \in Member |-> "idle"] /\ lockKeys = {}
  /\ late = {} /\ lapsed = {} /\ registry = {}

RedisStart(p) ==
  /\ rphase[p] = "new" /\ rphase' = [rphase EXCEPT ![p] = "run"]
  /\ UNCHANGED <<election, locking, registry>>

-----------------------------------------------------------------------------
(* The election.  The loop also ends when the context of Start is done.      *)

Looping(p) == rphase[p] \in {"run", "stopping"}

(* SetNX sets the key, or leaves it, or fails.  A leader whose key has just   *)
(* expired may be the one to set it again.                                    *)
ElectSetNX(p) ==
  /\ Looping(p) /\ elect[p] = "idle"
  /\ \/ lease = Nobody /\ lease' = p /\ rleader' = [rleader EXCEPT ![p] = p] /\ UNCHANGED elect
     \/ lease # Nobody /\ elect' = [elect EXCEPT ![p] = "get"] /\ UNCHANGED <<lease, rleader>>
  /\ UNCHANGED <<rphase, locking, registry>>

(* Fault: a worker that is a leader does not read who has the key. *)
ElectGet_LeaderKeeps(p) ==
  /\ Looping(p) /\ elect[p] = "get" /\ elect' = [elect EXCEPT ![p] = "idle"]
  /\ rleader' = IF lease = Nobody \/ rleader[p] = p THEN rleader ELSE [rleader EXCEPT ![p] = lease]
  /\ UNCHANGED <<rphase, lease, locking, registry>>

(* The key may have expired since: the answer is an error. *)
ElectGet(p) ==
  /\ Looping(p) /\ elect[p] = "get" /\ elect' = [elect EXCEPT ![p] = "idle"]
  /\ rleader' = IF lease = Nobody THEN rleader ELSE [rleader EXCEPT ![p] = lease]
  /\ UNCHANGED <<rphase, lease, locking, registry>>

ElectGetFails(p) ==
  /\ Looping(p) /\ elect[p] = "get" /\ elect' = [elect EXCEPT ![p] = "idle"]
  /\ UNCHANGED <<rphase, lease, rleader, locking, registry>>

LeaseExpires ==
  /\ lease # Nobody /\ lease' = Nobody
  /\ UNCHANGED <<rphase, elect, rleader, locking, registry>>

-----------------------------------------------------------------------------
(* Locks. *)

SetsLock(p) ==
  /\ rphase[p] = "run" /\ call[p] = "idle" /\ p \notin lockKeys /\ lock = Nobody
  /\ lock' = p /\ lapsed' = lapsed \ {p}
  /\ UNCHANGED <<rphase, election, lockKeys, late, registry>>

AcquireLock(p) ==
  /\ SetsLock(p) /\ call' = [call EXCEPT ![p] = "acquired"]

(* The answer is lost, or the command sent again finds its own key: the caller *)
(* is told that the lock was not acquired.                                     *)
AcquireUnheard(p) == SetsLock(p) /\ UNCHANGED call

(* The key is noted, and renewed from now on: a renewal postpones the end of a *)
(* key that is still the worker's, and changes nothing else.                   *)
AcquireNote(p) ==
  /\ call[p] = "acquired" /\ call' = [call EXCEPT ![p] = "idle"]
  /\ lockKeys' = lockKeys \cup {p}
  /\ UNCHANGED <<rphase, election, lock, late, lapsed, registry>>

ReleaseLock(p) ==
  /\ rphase[p] = "run" /\ call[p] = "idle" /\ p \in lockKeys
  /\ lockKeys' = lockKeys \ {p} /\ call' = [call EXCEPT ![p] = "release"]
  /\ UNCHANGED <<rphase, election, lock, late, lapsed, registry>>

(* The script deletes the key if it is the worker's. *)
Deletes(p) == lock' = IF lock = p THEN Nobody ELSE lock

(* It is run, answered or not; or it is given up, and Redis may have it yet. *)
Script(p) ==
  \/ Deletes(p) /\ UNCHANGED late
  \/ late' = late \cup {p} /\ UNCHANGED lock

(* Fault: the key is deleted whoever has it. *)
ReleaseInternal_Unchecked(p) ==
  /\ call[p] = "release" /\ call' = [call EXCEPT ![p] = "idle"]
  /\ lock' = Nobody
  /\ UNCHANGED <<rphase, election, lockKeys, late, lapsed, registry>>

ReleaseInternal(p) ==
  /\ call[p] = "release" /\ call' = [call EXCEPT ![p] = "idle"]
  /\ Script(p)
  /\ UNCHANGED <<rphase, election, lockKeys, lapsed, registry>>

(* The worker may have set the key again. *)
LateScript(p) ==
  /\ p \in late /\ late' = late \ {p} /\ Deletes(p)
  /\ lapsed' = IF lock = p THEN lapsed \cup {p} ELSE lapsed
  /\ UNCHANGED <<rphase, election, call, lockKeys, registry>>

(* The time of the lock runs out: no renewal has come, or none in time. *)
LockExpires ==
  /\ lock # Nobody /\ lock' = Nobody /\ lapsed' = lapsed \cup {lock}
  /\ UNCHANGED <<rphase, election, call, lockKeys, late, registry>>

-----------------------------------------------------------------------------
(* The registry, and the end of a worker. *)

(* heartbeatLoop, and persistWorkers in RegisterWorker and DeregisterWorker. *)
updateHeartbeat(p) ==
  /\ Looping(p) /\ registry' = registry \cup {p}
  /\ UNCHANGED <<rphase, election, locking>>

(* No heartbeat has come in time. *)
HeartbeatExpires(p) ==
  /\ p \in registry /\ registry' = registry \ {p}
  /\ UNCHANGED <<rphase, election, locking>>

(* Stop closes stopCh ... *)
RedisCloseStopCh(p) ==
  /\ rphase[p] = "run" /\ rphase' = [rphase EXCEPT ![p] = "stopping"]
  /\ UNCHANGED <<election, locking, registry>>

(* ... waits for the goroutines, those that renew locks among them ... *)
RedisWait(p) ==
  /\ rphase[p] = "stopping" /\ elect[p] = "idle" /\ call[p] = "idle"
  /\ rphase' = [rphase EXCEPT ![p] = "releasing"]
  /\ UNCHANGED <<election, locking, registry>>

(* ... releases the locks and takes the worker from the registry. *)
RedisDeregister(p) ==
  /\ rphase[p] = "releasing" /\ rphase' = [rphase EXCEPT ![p] = "stopped"]
  /\ lockKeys' = lockKeys \ {p}
  /\ IF p \in lockKeys THEN Script(p) ELSE UNCHANGED <<lock, late>>
  /\ registry' \in {registry, registry \ {p}}
  /\ UNCHANGED <<election, call, lapsed>>

(* A crash, or the exit. *)
RedisDie(p) ==
  /\ rphase[p] \notin {"new", "dead"} /\ rphase' = [rphase EXCEPT ![p] = "dead"]
  /\ elect' = [elect EXCEPT ![p] = "idle"] /\ call' = [call EXCEPT ![p] = "idle"]
  /\ lockKeys' = lockKeys \ {p}
  /\ UNCHANGED <<lease, rleader, lock, late, lapsed, registry>>

-----------------------------------------------------------------------------
(* All workers are gone, and their keys. *)
RedisAllDead ==
  /\ \A p \in Member : rphase[p] = "dead"
  /\ lease = Nobody /\ lock = Nobody /\ registry = {} /\ UNCHANGED rvars

Life(p) == RedisStart(p) \/ RedisCloseStopCh(p) \/ RedisWait(p) \/ RedisDeregister(p) \/ RedisDie(p)

Turn(p) == ElectSetNX(p) \/ ElectGet(p) \/ ElectGetFails(p)

ReadsKey(p) == lease # Nobody /\ ElectGet(p)

Election == LeaseExpires \/ \E p \in Member : Turn(p)

Locking ==
  \/ LockExpires
  \/ \E p \in Member : \/ AcquireLock(p) \/ AcquireUnheard(p) \/ AcquireNote(p) \/ ReleaseLock(p)
                       \/ ReleaseInternal(p) \/ LateScript(p)

Registering == \E p \in Member : updateHeartbeat(p) \/ HeartbeatExpires(p)

RedisNext == RedisAllDead \/ (\E p \in Member : Life(p)) \/ Election \/ Locking \/ Registering

RedisSpec == RedisInit /\ [][RedisNext]_rvars

(* The tickers fire, keys expire, and commands do not fail for ever: now and  *)
(* then the worker reads the key before it expires.                           *)
RedisFairness ==
  WF_rvars(LeaseExpires) /\ \A p \in Member : WF_rvars(Turn(p)) /\ SF_rvars(ReadsKey(p))

RedisFairSpec == RedisSpec /\ RedisFairness

-----------------------------------------------------------------------------
(* A worker that has noted the lock is the one Redis has as owner, so that no  *)
(* two have it, whatever releases of earlier owners are late; unless the key   *)
(* has expired in its hands or a late release of its own has deleted it, which *)
(* AcquireLock and renewLock do not tell it.                                   *)
LockExclusive == \A p \in lockKeys \ lapsed : lock = p

Misled(p) ==
  /\ rphase[p] = "run" /\ rleader[p] \notin {Nobody, lease}
  /\ rleader[p] = p \/ rphase[rleader[p]] = "dead"

(* The key is never renewed and its owner may die: a worker that takes itself *)
(* for the leader when the key is another's, or follows one that died, learns *)
(* of it at one of its next turns, or the key is that worker's again.         *)
LeaderLossLearned == \A p \in Member : []<>~Misled(p)
=============================================================================
