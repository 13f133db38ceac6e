--------------------------- MODULE DistributedQueue ---------------------------
(***************************************************************************)
(* internal/queue: the queues that several crawler processes share.  Redis *)
(* keeps a list, a hash of the items and a set of the URLs seen, and works *)
(* on them with scripts; Postgres keeps a table of rows and one of visited *)
(* URLs; Kafka keeps a topic, and every process a mirror of its own of     *)
(* what was seen and of what is pending.                                   *)
(*                                                                         *)
(* In a process the pages push, the dispatcher pops and the checkpointer   *)
(* saves, each in a goroutine of its own.  Any statement may fail, before  *)
(* or after the server has done it, and a process may die at any point and *)
(* start again, from its checkpoint if there is one.  The depths are left  *)
(* out: they only order the rows of Postgres.                              *)
(***************************************************************************)
EXTENDS Integers, Sequences, FiniteSets, SequencesExt

CONSTANTS
  Client,       \* crawler processes
  Url,          \* normalised URLs
  MaxSize,      \* maxSize of the queue
  Saver,        \* the processes that have a checkpoint file
  MaxCrashes,   \* bound: processes that die
  Null          \* no URL

ASSUME QueueAssumption == IsFiniteSet(Client) /\ Null \notin Url

VARIABLES
  backend,      \* the backend of the configuration
  store,        \* the Redis list, the Postgres rows or the rest of the Kafka topic
  items,        \* keys of the Redis hash crawl:queue:items
  seenKey,      \* the Redis set crawl:queue:seen, or the table crawl_visited
  seenTopic,    \* messages of the Kafka topic crawl_seen that nobody has fetched
  seenSet, pendingSet, pending,   \* Kafka: two sets and a counter of each process
  dedup,        \* dedup[w]: URLs process w has added to its exact-dedup set
  life,         \* life[w]: "down", "load", "hash" (between two commands of a load), "run"
  push, pop,    \* where the goroutine that pushes, and the one that pops, is
  plan,         \* plan[w]: what LoadFromCheckpoint has still to write
  reading,      \* reading[w]: the items Snapshot has read before the visited set, or Null
  saved,        \* saved[w]: the checkpoint file of process w
  unhashed,     \* history: URLs a load put into the Redis list and failed to put into the hash
  unflushed,    \* Kafka: messages committed by w, not yet by the broker
  pushed, popped,  \* history: how often a URL was enqueued and handed out before any crash
  faulted,      \* history: URLs an operation of which failed before any crash
  crashes       \* history: processes that died

server == <<store, items, seenKey, seenTopic>>
mirror == <<seenSet, pendingSet, pending>>
checkpoint == <<plan, reading, saved, unhashed>>
process == <<dedup, life, checkpoint>>
history == <<pushed, popped, faulted, crashes>>
qvars == <<backend, server, mirror, process, push, pop, unflushed, history>>

Idle == [at |-> "idle", url |-> Null]
At(l, u) == [at |-> l, url |-> u]
NoCheckpoint == [exists |-> FALSE, queue |-> {}, visited |-> {}]

QueueInit ==
  /\ backend \in {"redis", "postgres", "kafka"}
  /\ store = <<>> /\ items = {} /\ seenKey = {} /\ seenTopic = {}
  /\ seenSet = [w \in Client |-> {}] /\ pendingSet = [w \in Client |-> {}]
  /\ pending = [w \in Client |-> 0] /\ reading = [w \in Client |-> Null]
  /\ dedup = [w \in Client |-> {}]
  /\ life = [w \in Client |-> "run"]
  /\ push = [w \in Client |-> Idle] /\ pop = [w \in Client |-> Idle]
  /\ plan = [w \in Client |-> <<>>] /\ saved = [w \in Client |-> NoCheckpoint]
  /\ unflushed = [w \in Client |-> {}] /\ unhashed = {}
  /\ pushed = [u \in Url |-> 0] /\ popped = [u \in Url |-> 0]
  /\ faulted = {} /\ crashes = 0

IsUsing(w, b) == life[w] = "run" /\ backend = b

Enqueued(u) == pushed' = IF crashes = 0 THEN [pushed EXCEPT ![u] = @ + 1] ELSE pushed

HandedOut(u) == popped' = IF crashes = 0 THEN [popped EXCEPT ![u] = @ + 1] ELSE popped

Fails(u) == faulted' = IF crashes = 0 THEN faulted \cup {u} ELSE faulted

(* shouldQueue: a process pushes a URL once in its life. *)
Discover(w, u) == /\ life[w] = "run" /\ push[w] = Idle
                  /\ u \notin dedup[w] /\ dedup' = [dedup EXCEPT ![w] = @ \cup {u}]
                  /\ push' = [push EXCEPT ![w] = At("push", u)]
                  /\ UNCHANGED <<backend, server, mirror, life, checkpoint, pop, unflushed, history>>

Pushing(w, l, u) == push[w] = At(l, u)
PushDone(w) == push' = [push EXCEPT ![w] = Idle]
PushGoes(w, l, u) == push' = [push EXCEPT ![w] = At(l, u)]
PopDone(w) == pop' = [pop EXCEPT ![w] = Idle]
PopGoes(w, l, u) == pop' = [pop EXCEPT ![w] = At(l, u)]

(* The operation fails and the server has done nothing. *)
PushFails(w, u) ==
  /\ Pushing(w, "push", u) /\ backend # "kafka"
  /\ PushDone(w) /\ Fails(u)
  /\ UNCHANGED <<backend, server, mirror, process, pop, unflushed, pushed, popped, crashes>>

-----------------------------------------------------------------------------
(* Redis.  A script is one step. *)

(* Fault: the item is not put into the hash. *)
RedisPush_NoHash(w, u) ==
  /\ IsUsing(w, "redis") /\ Pushing(w, "push", u) /\ PushDone(w)
  /\ u \notin seenKey /\ Len(store) < MaxSize
  /\ store' = Append(store, u) /\ seenKey' = seenKey \cup {u}
  /\ Enqueued(u)
  /\ UNCHANGED <<items, seenTopic, backend, mirror, process, pop, unflushed, faulted, popped, crashes>>

RedisPush(w, u) ==
  /\ IsUsing(w, "redis") /\ Pushing(w, "push", u) /\ PushDone(w)
  /\ IF u \in seenKey
       THEN UNCHANGED <<server, pushed, faulted>>
       ELSE IF Len(store) >= MaxSize
         THEN UNCHANGED <<server, pushed>> /\ Fails(u)
         ELSE /\ store' = Append(store, u) /\ items' = items \cup {u}
              /\ seenKey' = seenKey \cup {u} /\ Enqueued(u) /\ UNCHANGED <<seenTopic, faulted>>
  /\ UNCHANGED <<backend, mirror, process, pop, unflushed, popped, crashes>>

(* popScript deletes the field item.url; what PushURL stored has a field URL, *)
(* so that nothing is ever deleted from the hash.  The reply may be lost.     *)
RedisPop(w) ==
  /\ IsUsing(w, "redis") /\ store # <<>>
  /\ store' = Tail(store)
  /\ \/ HandedOut(Head(store)) /\ UNCHANGED faulted
     \/ Fails(Head(store)) /\ UNCHANGED popped
  /\ UNCHANGED <<backend, items, seenKey, seenTopic, mirror, process, push, pop, unflushed, pushed,
                 crashes>>

-----------------------------------------------------------------------------
(* Postgres.  PushURL looks at the rows only, neither at the visited table    *)
(* nor at maxSize, and its caller ignores the reply; PopURL deletes the row,  *)
(* whose reply may be lost, and then marks it in a statement of its own,      *)
(* whose failure is logged.                                                   *)

PostgresPush(w, u) ==
  /\ IsUsing(w, "postgres") /\ Pushing(w, "push", u) /\ PushDone(w)
  /\ IF Contains(store, u) THEN UNCHANGED <<store, pushed>>
     ELSE store' = Append(store, u) /\ Enqueued(u)
  /\ UNCHANGED <<backend, items, seenKey, seenTopic, mirror, process, pop, unflushed, popped, faulted,
                 crashes>>

(* Fault: the head is handed out and left in the table. *)
PostgresPop_NoDelete(w) ==
  /\ IsUsing(w, "postgres") /\ pop[w] = Idle /\ store # <<>>
  /\ PopGoes(w, "mark", Head(store))
  /\ UNCHANGED <<backend, server, mirror, process, push, unflushed, history>>

PostgresPop(w) ==
  /\ IsUsing(w, "postgres") /\ pop[w] = Idle /\ store # <<>>
  /\ store' = Tail(store)
  /\ \/ PopGoes(w, "mark", Head(store)) /\ UNCHANGED faulted
     \/ Fails(Head(store)) /\ UNCHANGED pop
  /\ UNCHANGED <<backend, items, seenKey, seenTopic, mirror, process, push, unflushed, pushed, popped,
                 crashes>>

markVisited(w) ==
  /\ IsUsing(w, "postgres") /\ pop[w].at = "mark"
  /\ seenKey' \in {seenKey, seenKey \cup {pop[w].url}}
  /\ HandedOut(pop[w].url) /\ PopDone(w)
  /\ UNCHANGED <<backend, store, items, seenTopic, mirror, process, push, unflushed, pushed,
                 faulted, crashes>>

-----------------------------------------------------------------------------
(* Kafka.  The bound on the queue is that of the messages this process thinks *)
(* are pending; a message to the seen topic may be lost and is not retried.   *)

KafkaFull(w, u) ==
  /\ IsUsing(w, "kafka") /\ Pushing(w, "push", u)
  /\ pending[w] >= MaxSize
  /\ PushDone(w) /\ Fails(u)
  /\ UNCHANGED <<backend, server, mirror, process, pop, unflushed, pushed, popped, crashes>>

KafkaMarkSeen(w, u) ==
  /\ IsUsing(w, "kafka") /\ Pushing(w, "push", u)
  /\ pending[w] < MaxSize
  /\ IF u \in seenSet[w]
       THEN PushDone(w) /\ UNCHANGED <<seenSet, seenTopic>>
       ELSE /\ PushGoes(w, "write", u)
            /\ seenSet' = [seenSet EXCEPT ![w] = @ \cup {u}]
            /\ seenTopic' \in {seenTopic, seenTopic \cup {u}}
  /\ UNCHANGED <<backend, store, items, seenKey, pendingSet, pending, process, pop, unflushed, history>>

KafkaWrite(w, u) ==
  /\ IsUsing(w, "kafka") /\ Pushing(w, "write", u)
  /\ store' = Append(store, u) /\ Enqueued(u)
  /\ PushGoes(w, "mirror", u)
  /\ UNCHANGED <<backend, items, seenKey, seenTopic, mirror, process, pop, unflushed, popped,
                 faulted, crashes>>

(* The URL stays seen. *)
KafkaWriteFails(w, u) ==
  /\ IsUsing(w, "kafka") /\ Pushing(w, "write", u)
  /\ PushDone(w) /\ Fails(u)
  /\ UNCHANGED <<backend, server, mirror, process, pop, unflushed, pushed, popped, crashes>>

(* It fails and the broker has the message all the same: no mirror has the    *)
(* URL, or the client writes the message once more.                           *)
KafkaWriteUnheard(w, u) ==
  /\ IsUsing(w, "kafka") /\ Pushing(w, "write", u)
  /\ PushDone(w) \/ UNCHANGED push
  /\ store' = Append(store, u) /\ Enqueued(u) /\ Fails(u)
  /\ UNCHANGED <<backend, items, seenKey, seenTopic, mirror, process, pop, unflushed, popped, crashes>>

KafkaMirror(w, u) ==
  /\ IsUsing(w, "kafka") /\ Pushing(w, "mirror", u)
  /\ pendingSet' = [pendingSet EXCEPT ![w] = @ \cup {u}]
  /\ pending' = [pending EXCEPT ![w] = @ + 1]
  /\ PushDone(w)
  /\ UNCHANGED <<backend, server, seenSet, process, pop, unflushed, history>>

KafkaFetch(w) ==
  /\ IsUsing(w, "kafka") /\ pop[w] = Idle /\ store # <<>>
  /\ store' = Tail(store)
  /\ PopGoes(w, "commit", Head(store))
  /\ UNCHANGED <<backend, items, seenKey, seenTopic, mirror, process, push, unflushed, history>>

(* A commit that fails, known to the broker or not, keeps the message from    *)
(* the caller.                                                                *)
KafkaCommit(w) ==
  /\ IsUsing(w, "kafka") /\ pop[w].at = "commit"
  /\ LET u == pop[w].url IN
     \/ /\ PopGoes(w, "count", u) /\ UNCHANGED faulted
        /\ unflushed' = [unflushed EXCEPT ![w] = @ \cup {u}]
     \/ /\ PopDone(w) /\ Fails(u)
        /\ unflushed' \in {unflushed, [unflushed EXCEPT ![w] = @ \cup {u}]}
  /\ UNCHANGED <<backend, server, mirror, process, push, pushed, popped, crashes>>

KafkaCount(w) ==
  /\ IsUsing(w, "kafka") /\ pop[w].at = "count"
  /\ pendingSet' = [pendingSet EXCEPT ![w] = @ \ {pop[w].url}]
  /\ pending' = [pending EXCEPT ![w] = @ - 1]
  /\ HandedOut(pop[w].url) /\ PopDone(w)
  /\ UNCHANGED <<backend, server, seenSet, process, push, unflushed, pushed, faulted, crashes>>

(* consumeSeenTopic: the processes are one consumer group, so that a message  *)
(* reaches one of them.                                                       *)
consumeSeenTopic(w) ==
  /\ IsUsing(w, "kafka")
  /\ \E u \in seenTopic :
       /\ seenTopic' = seenTopic \ {u}
       /\ seenSet' = [seenSet EXCEPT ![w] = @ \cup {u}]
  /\ UNCHANGED <<backend, store, items, seenKey, pendingSet, pending, process, push, pop, unflushed, history>>

(* The messages w has fetched and the broker does not know to be committed:   *)
(* when it moves their partition to another process, or w dies, they are      *)
(* delivered again.                                                           *)
Uncommitted(w) == unflushed[w] \cup {u \in {pop[w].url} : pop[w].at = "commit"}

Redeliver(w, u) ==
  /\ IsUsing(w, "kafka") /\ u \in Uncommitted(w)
  /\ store' = Append(store, u) /\ Enqueued(u) /\ Fails(u)
  /\ unflushed' = [unflushed EXCEPT ![w] = @ \ {u}]
  /\ UNCHANGED <<backend, items, seenKey, seenTopic, mirror, process, push, pop, popped, crashes>>

Flush(w) ==
  /\ IsUsing(w, "kafka") /\ unflushed[w] # {} /\ unflushed' = [unflushed EXCEPT ![w] = {}]
  /\ UNCHANGED <<backend, server, mirror, process, push, pop, history>>

-----------------------------------------------------------------------------
(* Checkpoints.  Redis reads both sets in one script, or with two commands    *)
(* when that fails; Postgres with two queries of a transaction, each of which *)
(* sees what is committed by then; Kafka under two mutexes.  What a command   *)
(* or a query that fails should have read is taken to be empty; a file that   *)
(* cannot be written leaves the one before.                                   *)

Save(w, q, v) == /\ saved' = [saved EXCEPT ![w] = [exists |-> TRUE, queue |-> q, visited |-> v]]
                 /\ reading' = [reading EXCEPT ![w] = Null]

RedisSnapshot(w) ==
  /\ w \in Saver /\ IsUsing(w, "redis") /\ reading[w] = Null
  /\ Save(w, items, seenKey)
  /\ UNCHANGED <<backend, server, mirror, dedup, life, plan, unhashed, push, pop, unflushed, history>>

ReadItems(w, q) ==
  /\ w \in Saver /\ reading[w] = Null
  /\ reading' = [reading EXCEPT ![w] = q]
  /\ UNCHANGED <<backend, server, mirror, dedup, life, plan, saved, unhashed, push, pop, unflushed,
                 history>>

RedisItems(w) == IsUsing(w, "redis") /\ \E q \in {items, {}} : ReadItems(w, q)
PostgresItems(w) == IsUsing(w, "postgres") /\ \E q \in {ToSet(store), {}} : ReadItems(w, q)
KafkaItems(w) == IsUsing(w, "kafka") /\ ReadItems(w, pendingSet[w])

AllVisited(w) ==
  /\ life[w] = "run" /\ reading[w] # Null
  /\ \/ \E v \in IF backend = "kafka" THEN {seenSet[w]} ELSE {seenKey, {}} : Save(w, reading[w], v)
     \/ reading' = [reading EXCEPT ![w] = Null] /\ UNCHANGED saved
  /\ UNCHANGED <<backend, server, mirror, dedup, life, plan, unhashed, push, pop, unflushed, history>>

(* The URL a load of w has put into the Redis list and not yet into the hash. *)
Hashing(w) == IF life[w] = "hash" THEN {Head(plan[w])} ELSE {}

(* A process dies.  Kafka delivers again what it had not committed.           *)
Crash(w) ==
  /\ life[w] # "down" /\ crashes < MaxCrashes /\ crashes' = crashes + 1
  /\ life' = [life EXCEPT ![w] = "down"]
  /\ push' = [push EXCEPT ![w] = Idle] /\ pop' = [pop EXCEPT ![w] = Idle]
  /\ plan' = [plan EXCEPT ![w] = <<>>] /\ reading' = [reading EXCEPT ![w] = Null]
  /\ unhashed' = unhashed \cup Hashing(w)
  /\ dedup' = [dedup EXCEPT ![w] = {}]
  /\ seenSet' = [seenSet EXCEPT ![w] = {}] /\ pendingSet' = [pendingSet EXCEPT ![w] = {}]
  /\ pending' = [pending EXCEPT ![w] = 0]
  /\ unflushed' = [unflushed EXCEPT ![w] = {}]
  /\ pushed' = [u \in Url |-> 0] /\ popped' = pushed' /\ faulted' = {}
  /\ store' = IF backend = "kafka" THEN SetToSeq(Uncommitted(w)) \o store ELSE store
  /\ UNCHANGED <<backend, items, seenKey, seenTopic, saved>>

(* Start without a checkpoint, or with one that cannot be read: the queue is  *)
(* left as it is.                                                             *)
StartAfresh(w) ==
  /\ life[w] = "down" /\ life' = [life EXCEPT ![w] = "run"]
  /\ UNCHANGED <<backend, server, mirror, dedup, checkpoint, push, pop, unflushed, history>>

(* Start with a checkpoint: the commands of a pipeline, DEL, RPUSH and HSET   *)
(* for each item, SADDs, between which other clients run and each of which    *)
(* may be lost; the client may send the pipeline again ...                    *)
Restart(w, l) ==
  /\ saved[w].exists /\ life' = [life EXCEPT ![w] = l]
  /\ plan' = IF l = "load" THEN [plan EXCEPT ![w] = SetToSeq(saved[w].queue)] ELSE plan
  /\ dedup' = [dedup EXCEPT ![w] = saved[w].visited]
  /\ UNCHANGED <<backend, seenTopic, mirror, reading, saved, push, pop, unflushed, history>>

Loading(w, b) == life[w] = "load" /\ backend = b

RedisRestart(w) ==
  /\ backend = "redis" /\ life[w] # "run" /\ Restart(w, "load")
  /\ \/ store' = <<>> /\ items' = {} /\ seenKey' = {} /\ unhashed' = {}
     \/ UNCHANGED <<store, items, seenKey>> /\ unhashed' = unhashed \cup Hashing(w)

RedisLoadItem(w) ==
  /\ Loading(w, "redis") /\ plan[w] # <<>>
  /\ life' = [life EXCEPT ![w] = "hash"]
  /\ store' \in {store, Append(store, Head(plan[w]))}
  /\ UNCHANGED <<backend, items, seenKey, seenTopic, mirror, dedup, checkpoint, push, pop, unflushed,
                 history>>

RedisLoadHash(w) ==
  /\ backend = "redis" /\ life[w] = "hash"
  /\ plan' = [plan EXCEPT ![w] = Tail(@)] /\ life' = [life EXCEPT ![w] = "load"]
  /\ \/ items' = items \cup Hashing(w) /\ UNCHANGED unhashed
     \/ unhashed' = unhashed \cup Hashing(w) /\ UNCHANGED items
  /\ UNCHANGED <<backend, store, seenKey, seenTopic, mirror, dedup, reading, saved, push, pop, unflushed,
                 history>>

RedisLoadVisited(w) ==
  /\ Loading(w, "redis") /\ plan[w] = <<>>
  /\ \E l \in {"load", "run"} : life' = [life EXCEPT ![w] = l]
  /\ \E v \in SUBSET saved[w].visited : seenKey' = seenKey \cup v
  /\ UNCHANGED <<backend, store, items, seenTopic, mirror, dedup, checkpoint, push, pop, unflushed,
                 history>>

(* ... one transaction, or none of it ... *)
PostgresRestart(w) ==
  /\ backend = "postgres" /\ life[w] = "down" /\ Restart(w, "run")
  /\ \/ store' = SetToSeq(saved[w].queue) /\ seenKey' = saved[w].visited
     \/ UNCHANGED <<store, seenKey>>
  /\ UNCHANGED <<items, unhashed>>

(* ... or messages, written again whether or not they are in the topic still. *)
KafkaRestart(w) == /\ backend = "kafka" /\ life[w] = "down" /\ Restart(w, "load")
                   /\ UNCHANGED <<store, items, seenKey, unhashed>>

KafkaLoadItem(w) ==
  /\ Loading(w, "kafka") /\ plan[w] # <<>>
  /\ plan' = [plan EXCEPT ![w] = Tail(@)]
  /\ store' \in {store, Append(store, Head(plan[w]))}
  /\ UNCHANGED <<backend, items, seenKey, seenTopic, mirror, dedup, life, reading, saved, unhashed, push,
                 pop, unflushed, history>>

KafkaLoadVisited(w) ==
  /\ Loading(w, "kafka") /\ plan[w] = <<>>
  /\ life' = [life EXCEPT ![w] = "run"]
  /\ pendingSet' = [pendingSet EXCEPT ![w] = saved[w].queue]
  /\ pending' = [pending EXCEPT ![w] = Cardinality(saved[w].queue)]
  /\ seenSet' = [seenSet EXCEPT ![w] = @ \cup saved[w].visited]
  /\ seenTopic' \in {seenTopic, seenTopic \cup saved[w].visited}
  /\ UNCHANGED <<backend, store, items, seenKey, dedup, checkpoint, push, pop, unflushed, history>>

-----------------------------------------------------------------------------
PushAny(w) ==
  \E u \in Url : \/ Discover(w, u) \/ PushFails(w, u) \/ RedisPush(w, u) \/ PostgresPush(w, u)
                 \/ KafkaFull(w, u) \/ KafkaMarkSeen(w, u) \/ KafkaWrite(w, u)
                 \/ KafkaWriteFails(w, u) \/ KafkaMirror(w, u)

PopAny(w) == RedisPop(w) \/ PostgresPop(w) \/ markVisited(w)
             \/ KafkaFetch(w) \/ KafkaCommit(w) \/ KafkaCount(w)

(* A message of Kafka comes into the topic once more, or unknown to its sender. *)
Again(w) == \E u \in Url : KafkaWriteUnheard(w, u) \/ Redeliver(w, u)

QueueNext ==
  \E w \in Client :
    \/ PushAny(w) \/ PopAny(w) \/ Again(w) \/ consumeSeenTopic(w) \/ Flush(w)
    \/ RedisSnapshot(w) \/ RedisItems(w) \/ PostgresItems(w) \/ KafkaItems(w) \/ AllVisited(w)
    \/ Crash(w) \/ StartAfresh(w)
    \/ RedisRestart(w) \/ RedisLoadItem(w) \/ RedisLoadHash(w) \/ RedisLoadVisited(w)
    \/ PostgresRestart(w) \/ KafkaRestart(w) \/ KafkaLoadItem(w) \/ KafkaLoadVisited(w)

-----------------------------------------------------------------------------
CopiesOf(u) == Cardinality({i \in DOMAIN store : store[i] = u})

(* Until a process dies, a URL is handed out as often as it was enqueued and  *)
(* no more, whatever the processes' operations do in between; with Redis, the *)
(* seen set of which they share, it is enqueued once.  A message that Kafka   *)
(* delivers again counts as enqueued again.                                   *)
HandedOutOnce ==
  crashes = 0 => \A u \in Url : /\ popped[u] + CopiesOf(u) <= pushed[u]
                                /\ backend = "redis" => pushed[u] <= 1

(* A URL a process has taken for known is queued, in the hands of an          *)
(* operation, handed out, or was hit by a failure: nothing is dropped between *)
(* the dedup set of the process, the queue's own and the queue.               *)
LostOnlyByFault ==
  crashes = 0 => \A u \in Url, w \in Client :
    u \in dedup[w] => \/ u \in faulted \/ popped[u] > 0 \/ Contains(store, u)
                      \/ \E v \in Client : u \in {push[v].url, pop[v].url}

(* A queued URL is in the checkpoints.  The hash of Redis is never behind the *)
(* list, whatever others push and pop while a process loads its checkpoint,   *)
(* but for the item between its RPUSH and its HSET, and those of which a load *)
(* lost the HSET; a message of Kafka is in the mirror of some process that    *)
(* wrote it, or is about to be, unless its write or its delivery failed.      *)
CheckpointCoversQueue ==
  \A u \in ToSet(store) :
    /\ backend = "redis" => u \in items \cup unhashed \cup UNION {Hashing(w) : w \in Client}
    /\ backend = "kafka" /\ crashes = 0 => \/ u \in faulted
                                            \/ \E w \in Client : u \in pendingSet[w] \cup {push[w].url}

(* Messages of u that were sent and neither handed out nor lost: the queue's *)
(* and those in the hands of a pop.                                          *)
Hand(u) == {w \in Client : pop[w].url = u}
TokensOf(u) == CopiesOf(u) + Cardinality(Hand(u))

(* Processes that are about to send u.                                       *)
Sending(u) == {w \in Client : push[w] \in {At("push", u), At("write", u)}}

Shared == INSTANCE SharedFrontier WITH
            found <- dedup, coming <- [u \in Url |-> Sending(u)],
            added <- pushed, waiting <- [u \in Url |-> TokensOf(u)], given <- popped,
            failed <- faulted, once <- backend = "redis", sound <- crashes = 0

(* Each of the backends is a shared frontier until a process dies, also where *)
(* a push or a pop is several steps: what a process skips as known is in the *)
(* queue, in a hand, handed out or about to be sent by another process.      *)
ImplementsSharedFrontier == Shared!SharedSpec
=============================================================================
