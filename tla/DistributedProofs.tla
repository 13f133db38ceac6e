-------------------------- MODULE DistributedProofs --------------------------
(***************************************************************************)
(* Theorems about what several crawling processes share.                   *)
(* DistributedQueue: however the operations of any number of processes     *)
(* interleave and fail.  FileCoordinator, for any number of processes and  *)
(* files, and the locks of RedisCoordinator, for any number of workers and *)
(* of renewing goroutines.                                                 *)
(***************************************************************************)
EXTENDS DistributedQueue, FileCoordinator, RedisCoordinator, FiniteSetTheorems, TLAPS

QueueSpec == QueueInit /\ [][QueueNext]_qvars

-----------------------------------------------------------------------------
(* Copies of an element in a sequence. *)

Places(s, u) == {i \in DOMAIN s : s[i] = u}

(* The places of an element are finitely many. *)
LEMMA PlacesFinite ==
  ASSUME NEW T, NEW s \in Seq(T), NEW u
  PROVE  IsFiniteSet(Places(s, u)) /\ Cardinality(Places(s, u)) \in Nat
<1>1. DOMAIN s = 1..Len(s) /\ Len(s) \in Nat
  OBVIOUS
<1>2. IsFiniteSet(1..Len(s))
  BY <1>1, FS_Interval
<1>3. Places(s, u) \in SUBSET (1..Len(s))
  BY <1>1 DEF Places
<1>4. IsFiniteSet(Places(s, u))
  BY <1>2, <1>3, FS_Subset
<1> QED BY <1>4, FS_CardinalityType

(* Append adds the copy it appends. *)
LEMMA AppendCopies ==
  ASSUME NEW T, NEW s \in Seq(T), NEW u, NEW x \in T
  PROVE  Cardinality(Places(Append(s, x), u)) = Cardinality(Places(s, u)) + (IF x = u THEN 1 ELSE 0)
<1>1. /\ DOMAIN s = 1..Len(s) /\ DOMAIN Append(s, x) = 1..(Len(s) + 1) /\ Len(s) \in Nat
      /\ Append(s, x)[Len(s) + 1] = x /\ \A i \in 1..Len(s) : Append(s, x)[i] = s[i]
  OBVIOUS
<1>2. Places(Append(s, x), u) = IF x = u THEN Places(s, u) \cup {Len(s) + 1} ELSE Places(s, u)
  BY <1>1 DEF Places
<1>3. Len(s) + 1 \notin Places(s, u)
  BY <1>1 DEF Places
<1>4. IsFiniteSet(Places(s, u)) /\ Cardinality(Places(s, u)) \in Nat
  BY PlacesFinite
<1>5. Cardinality(Places(s, u) \cup {Len(s) + 1}) = Cardinality(Places(s, u)) + 1
  BY <1>3, <1>4, FS_AddElement
<1> QED BY <1>2, <1>4, <1>5

(* Tail takes the copy at the head. *)
LEMMA TailCopies ==
  ASSUME NEW T, NEW s \in Seq(T), s # <<>>, NEW u
  PROVE  Cardinality(Places(s, u)) = Cardinality(Places(Tail(s), u)) + (IF Head(s) = u THEN 1 ELSE 0)
<1> DEFINE S == Places(s, u) \ {1}
           P == Places(Tail(s), u)
<1>1. /\ DOMAIN s = 1..Len(s) /\ Len(s) \in Nat \ {0} /\ Tail(s) \in Seq(T)
      /\ DOMAIN Tail(s) = 1..(Len(s) - 1) /\ \A i \in 1..(Len(s) - 1) : Tail(s)[i] = s[i + 1]
      /\ Head(s) = s[1]
  OBVIOUS
<1>2. IsFiniteSet(Places(s, u)) /\ IsFiniteSet(P) /\ IsFiniteSet(S)
  BY <1>1, PlacesFinite, FS_Subset
<1>3. Cardinality(S) = Cardinality(P)
  <2> DEFINE f == [i \in P |-> i + 1]
  <2>1. f \in [P -> S]
    BY <1>1 DEF Places
  <2>2. \A i, j \in P : f[i] = f[j] => i = j
    BY <1>1 DEF Places
  <2>3. \A k \in S : \E i \in P : f[i] = k
    <3> SUFFICES ASSUME NEW k \in S PROVE k - 1 \in P /\ f[k - 1] = k
      OBVIOUS
    <3>1. k \in 2..Len(s) /\ s[k] = u
      BY <1>1 DEF Places
    <3>2. k - 1 \in 1..(Len(s) - 1) /\ (k - 1) + 1 = k
      BY <1>1, <3>1
    <3>3. Tail(s)[k - 1] = u
      BY <1>1, <3>1, <3>2
    <3> QED BY <1>1, <3>2, <3>3 DEF Places
  <2>4. f \in Bijection(P, S)
    BY <2>1, <2>2, <2>3 DEF Bijection, Injection, Surjection, IsInjective
  <2> QED BY <1>2, <2>4, FS_Bijection DEF ExistsBijection
<1>4. 1 \in Places(s, u) <=> Head(s) = u
  BY <1>1 DEF Places
<1>5. CASE Head(s) = u
  <2>1. Cardinality(S) = Cardinality(Places(s, u)) - 1
    BY <1>2, <1>4, <1>5, FS_RemoveElement
  <2>2. Cardinality(Places(s, u)) \in Nat
    BY <1>2, FS_CardinalityType
  <2>3. Cardinality(Places(s, u)) = Cardinality(P) + 1
    BY <1>3, <2>1, <2>2
  <2> QED BY <1>5, <2>3
<1>6. CASE Head(s) # u
  <2>1. S = Places(s, u)
    BY <1>4, <1>6
  <2>2. Cardinality(P) \in Nat
    BY <1>2, FS_CardinalityType
  <2>3. Cardinality(Places(s, u)) = Cardinality(P)
    BY <1>3, <2>1
  <2> HIDE DEF P
  <2>4. Cardinality(P) = Cardinality(P) + 0
    BY <2>2
  <2> QED BY <1>6, <2>3, <2>4 DEF P
<1> QED BY <1>5, <1>6


(* Append and Tail give sequences. *)
LEMMA MovesTyped ==
  ASSUME NEW T, NEW s \in Seq(T)
  PROVE  (\A x \in T : Append(s, x) \in Seq(T)) /\ (s # <<>> => Tail(s) \in Seq(T))
OBVIOUS

(* What is in a sequence after Append and Tail. *)
LEMMA ContainsMoves ==
  ASSUME NEW T, NEW s \in Seq(T)
  PROVE  /\ \A x \in T : \A u : Contains(Append(s, x), u) <=> u = x \/ Contains(s, u)
         /\ s # <<>> => /\ Head(s) \in T /\ Tail(s) \in Seq(T)
                        /\ \A u : Contains(s, u) => u = Head(s) \/ Contains(Tail(s), u)
<1>1. ASSUME NEW x \in T, NEW u PROVE Contains(Append(s, x), u) <=> u = x \/ Contains(s, u)
  BY DEF Contains
<1>2. ASSUME s # <<>>, NEW u, Contains(s, u) PROVE u = Head(s) \/ Contains(Tail(s), u)
  <2>1. PICK i \in 1..Len(s) : s[i] = u
    BY <1>2 DEF Contains
  <2>2. CASE i = 1
    BY <2>1, <2>2
  <2>3. CASE i # 1
    <3>1. i - 1 \in 1..Len(Tail(s)) /\ Tail(s)[i - 1] = u
      BY <1>2, <2>1, <2>3
    <3> QED BY <3>1 DEF Contains
  <2> QED BY <2>2, <2>3
<1> QED BY <1>1, <1>2

-----------------------------------------------------------------------------
(* Before any crash.                                                         *)

PushPC == {"idle", "push", "write", "mirror"}
PopPC == {"idle", "mark", "commit", "count"}

TypesOK ==
  /\ store \in Seq(Url)
  /\ pushed \in [Url -> Nat] /\ popped \in [Url -> Nat]
  /\ push \in [Client -> [at : PushPC, url : Url \cup {Null}]]
  /\ pop \in [Client -> [at : PopPC, url : Url \cup {Null}]]
  /\ \A w \in Client : /\ push[w].at = "idle" <=> push[w].url = Null
                       /\ pop[w].at = "idle" <=> pop[w].url = Null
  /\ dedup \in [Client -> SUBSET Url] /\ seenSet \in [Client -> SUBSET Url]
  /\ pendingSet \in [Client -> SUBSET Url]
  /\ seenKey \subseteq Url /\ seenTopic \subseteq Url /\ faulted \subseteq Url
  /\ life = [w \in Client |-> "run"]

(* A process pushes a URL once: while it does, its mirror lacks the URL.     *)
OncePerProcess ==
  \A w \in Client : /\ pendingSet[w] \subseteq dedup[w] /\ push[w].url \in dedup[w] \cup {Null}
                    /\ push[w].at \in {"push", "write"} => push[w].url \notin pendingSet[w]

(* Processes that have sent u and do not know it to be handed out.           *)
Covering(u) == {w \in Client : u \in pendingSet[w] \/ push[w] = At("mirror", u)}

CountedOf(u) == /\ popped[u] + TokensOf(u) <= pushed[u]
                /\ backend = "redis" => pushed[u] <= IF u \in seenKey THEN 1 ELSE 0
                /\ backend = "kafka" /\ u \notin faulted => TokensOf(u) <= Cardinality(Covering(u))

(* u was sent and is in the queue, in the hand of a pop, or handed out; or an *)
(* operation on it failed.                                                   *)
Safe(u) == u \in faulted \/ popped[u] > 0 \/ Contains(store, u) \/ \E v \in Client : pop[v].url = u

(* Somebody has marked u in Kafka and is about to send it.                   *)
Writing(u) == \E v \in Client : push[v] = At("write", u)

(* Who takes u for known, so that it is not pushed again, is right.          *)
KnownOf(u) ==
  /\ backend = "redis" /\ u \in seenKey => Safe(u)
  /\ backend = "kafka" /\ (u \in seenTopic \/ \E w \in Client : u \in seenSet[w]) => Safe(u) \/ Writing(u)
  /\ \A w \in Client : u \in dedup[w] => Safe(u) \/ Writing(u) \/ push[w] = At("push", u)

CalmInv == TypesOK /\ OncePerProcess /\ \A u \in Url : CountedOf(u) /\ KnownOf(u)

(* The steps while nothing has crashed: nobody restarts, nobody loads.       *)
Saving(w) == \/ Flush(w) \/ RedisSnapshot(w) \/ RedisItems(w) \/ PostgresItems(w) \/ KafkaItems(w)
             \/ AllVisited(w)

CalmStep(w) == PushAny(w) \/ PopAny(w) \/ consumeSeenTopic(w) \/ Saving(w) \/ Again(w)

(* Before a crash, a step is a push, a pop, a read of the topic, a save or a *)
(* message of Kafka that comes again.                                        *)
LEMMA CalmSteps ==
  ASSUME TypesOK, crashes = 0, QueueNext, crashes' = 0
  PROVE  \E w \in Client : CalmStep(w)
<1>1. PICK w \in Client :
    \/ PushAny(w) \/ PopAny(w) \/ Again(w) \/ consumeSeenTopic(w) \/ Flush(w)
    \/ RedisSnapshot(w) \/ RedisItems(w) \/ PostgresItems(w) \/ KafkaItems(w) \/ AllVisited(w)
    \/ Crash(w) \/ StartAfresh(w)
    \/ RedisRestart(w) \/ RedisLoadItem(w) \/ RedisLoadHash(w) \/ RedisLoadVisited(w)
    \/ PostgresRestart(w) \/ KafkaRestart(w) \/ KafkaLoadItem(w) \/ KafkaLoadVisited(w)
  BY DEF QueueNext
<1>2. life[w] = "run"
  BY DEF TypesOK
<1>3. ~Crash(w)
  BY DEF Crash
<1>4. ~(\/ StartAfresh(w) \/ RedisRestart(w) \/ RedisLoadItem(w) \/ RedisLoadHash(w) \/ RedisLoadVisited(w)
        \/ PostgresRestart(w) \/ KafkaRestart(w) \/ KafkaLoadItem(w) \/ KafkaLoadVisited(w))
  BY <1>2 DEF StartAfresh, RedisRestart, RedisLoadItem, RedisLoadHash, RedisLoadVisited, PostgresRestart, KafkaRestart, KafkaLoadItem,
       KafkaLoadVisited, Restart, Loading
<1> QED BY <1>1, <1>3, <1>4 DEF CalmStep, Saving

(* A checkpoint touches nothing that the invariants are about.               *)
LEMMA SavingKeeps ==
  ASSUME NEW w \in Client, Saving(w)
  PROVE  UNCHANGED <<backend, server, mirror, dedup, life, plan, unhashed, push, pop, history>>
BY DEF Saving, Flush, RedisSnapshot, RedisItems, PostgresItems, KafkaItems, ReadItems, AllVisited, process,
    checkpoint

(* Updates of functions, taken apart from the large states they happen in.   *)
LEMMA OneMore ==
  ASSUME NEW S, NEW f \in [S -> Nat], NEW x \in S, NEW g, g = f \/ g = [f EXCEPT ![x] = @ + 1]
  PROVE  g \in [S -> Nat]
<1>1. CASE g = f
  BY <1>1
<1>2. CASE g = [f EXCEPT ![x] = @ + 1]
  BY <1>2
<1> QED BY <1>1, <1>2

(* A process goes to l with u. *)
LEMMA GoesTyped ==
  ASSUME NEW PC, NEW f \in [Client -> [at : PC, url : Url \cup {Null}]],
         \A v \in Client : f[v].at = "idle" <=> f[v].url = Null,
         NEW w \in Client, NEW l \in PC, NEW u \in Url \cup {Null}, l = "idle" <=> u = Null,
         NEW g, g = [f EXCEPT ![w] = At(l, u)]
  PROVE  /\ g \in [Client -> [at : PC, url : Url \cup {Null}]]
         /\ \A v \in Client : g[v].at = "idle" <=> g[v].url = Null
         /\ g[w] = At(l, u) /\ \A v \in Client \ {w} : g[v] = f[v]
BY DEF At

(* A process comes to rest. *)
LEMMA RestTyped ==
  ASSUME NEW PC, "idle" \in PC, NEW f \in [Client -> [at : PC, url : Url \cup {Null}]],
         \A v \in Client : f[v].at = "idle" <=> f[v].url = Null,
         NEW w \in Client, NEW g, g = [f EXCEPT ![w] = Idle]
  PROVE  /\ g \in [Client -> [at : PC, url : Url \cup {Null}]]
         /\ \A v \in Client : (g[v].at = "idle" <=> g[v].url = Null) /\ (g[v] = f[v] \/ g[v] = Idle)
BY DEF Idle

(* A push keeps the types, and takes a URL this process has not pushed yet. *)
LEMMA TypesPush ==
  ASSUME TypesOK, OncePerProcess, crashes = 0, NEW w \in Client, PushAny(w)
  PROVE  TypesOK' /\ OncePerProcess'
<1> PICK u \in Url : \/ Discover(w, u) \/ PushFails(w, u) \/ RedisPush(w, u) \/ PostgresPush(w, u)
                     \/ KafkaFull(w, u) \/ KafkaMarkSeen(w, u) \/ KafkaWrite(w, u)
                     \/ KafkaWriteFails(w, u) \/ KafkaMirror(w, u)
  BY DEF PushAny
<1>t. /\ store \in Seq(Url) /\ pushed \in [Url -> Nat] /\ seenSet \in [Client -> SUBSET Url]
      /\ push \in [Client -> [at : PushPC, url : Url \cup {Null}]]
      /\ \A v \in Client : push[v].at = "idle" <=> push[v].url = Null
  BY DEF TypesOK
<1>0. u # Null /\ Append(store, u) \in Seq(Url)
  BY QueueAssumption DEF TypesOK
<1> USE <1>0 DEF TypesOK, OncePerProcess, PushPC, PopPC, At, Idle, server, mirror, process, checkpoint, history, IsUsing,
             Pushing, PushDone, PushGoes, Enqueued, Fails
<1>1. CASE Discover(w, u)
  BY <1>1 DEF Discover
<1>2. CASE PushFails(w, u) \/ KafkaFull(w, u) \/ KafkaWriteFails(w, u)
  <2>1. /\ push' = [push EXCEPT ![w] = Idle] /\ faulted' = faulted \cup {u}
        /\ UNCHANGED <<store, seenKey, seenTopic, mirror, dedup, life, pop, pushed, popped>>
    BY <1>2 DEF PushFails, KafkaFull, KafkaWriteFails
  <2> QED BY <2>1
<1>3. CASE RedisPush(w, u)
  <2>1. /\ push' = [push EXCEPT ![w] = Idle] /\ faulted' \in {faulted, faulted \cup {u}}
        /\ (store' = store \/ store' = Append(store, u)) /\ seenKey' \in {seenKey, seenKey \cup {u}}
        /\ (pushed' = pushed \/ pushed' = [pushed EXCEPT ![u] = @ + 1])
        /\ UNCHANGED <<seenTopic, mirror, dedup, life, pop, popped>>
    BY <1>3 DEF RedisPush
  <2>2. pushed' \in [Url -> Nat]
    BY <1>t, <2>1, OneMore
  <2>3. store' \in Seq(Url)
    BY <1>0, <1>t, <2>1
  <2> QED BY <2>1, <2>2, <2>3 DEF TypesOK, OncePerProcess
<1>4. CASE PostgresPush(w, u)
  <2>1. /\ push' = [push EXCEPT ![w] = Idle]
        /\ (store' = store \/ store' = Append(store, u))
        /\ (pushed' = pushed \/ pushed' = [pushed EXCEPT ![u] = @ + 1])
        /\ UNCHANGED <<seenKey, seenTopic, mirror, dedup, life, pop, popped, faulted>>
    BY <1>4 DEF PostgresPush
  <2>2. pushed' \in [Url -> Nat]
    BY <1>t, <2>1, OneMore
  <2>3. store' \in Seq(Url)
    BY <1>0, <1>t, <2>1
  <2> QED BY <2>1, <2>2, <2>3 DEF TypesOK, OncePerProcess
<1>5. CASE KafkaMarkSeen(w, u)
  <2>1. /\ push[w] = At("push", u)
        /\ (push' = [push EXCEPT ![w] = Idle] \/ push' = [push EXCEPT ![w] = At("write", u)])
        /\ (seenSet' = seenSet \/ seenSet' = [seenSet EXCEPT ![w] = @ \cup {u}])
        /\ seenTopic' \in {seenTopic, seenTopic \cup {u}}
        /\ UNCHANGED <<store, seenKey, pendingSet, dedup, life, pop, pushed, popped, faulted>>
    BY <1>5 DEF KafkaMarkSeen
  <2> HIDE DEF TypesOK, OncePerProcess
  <2>2. seenSet' \in [Client -> SUBSET Url]
    <3>1. CASE seenSet' = seenSet
      BY <1>t, <3>1
    <3>2. CASE seenSet' = [seenSet EXCEPT ![w] = @ \cup {u}]
      BY <1>t, <3>2
    <3> QED BY <2>1, <3>1, <3>2
  <2>3. CASE push' = [push EXCEPT ![w] = Idle]
    BY <2>1, <2>2, <2>3 DEF TypesOK, OncePerProcess
  <2>4. CASE push' = [push EXCEPT ![w] = At("write", u)]
    <3>1. /\ push' \in [Client -> [at : PushPC, url : Url \cup {Null}]]
          /\ \A v \in Client : push'[v].at = "idle" <=> push'[v].url = Null
          /\ push'[w] = At("write", u) /\ \A v \in Client \ {w} : push'[v] = push[v]
      BY <1>0, <1>t, <2>4, GoesTyped DEF PushPC
    <3>2. OncePerProcess'
      <4>1. pendingSet' = pendingSet /\ dedup' = dedup
        BY <2>1
      <4>2. u \in dedup[w] /\ u \notin pendingSet[w]
        BY <1>0, <2>1 DEF OncePerProcess
      <4> QED BY <3>1, <4>1, <4>2 DEF OncePerProcess
    <3> QED BY <2>1, <2>2, <3>1, <3>2 DEF TypesOK
  <2> QED BY <2>1, <2>3, <2>4
<1>6. CASE KafkaWrite(w, u)
  BY <1>6 DEF KafkaWrite
<1>7. CASE KafkaMirror(w, u)
  BY <1>7 DEF KafkaMirror
<1> QED BY <1>1, <1>2, <1>3, <1>4, <1>5, <1>6, <1>7

(* So does a pop, and what is neither. *)
LEMMA TypesPop ==
  ASSUME TypesOK, OncePerProcess, crashes = 0, NEW w \in Client,
         PopAny(w) \/ consumeSeenTopic(w) \/ Saving(w)
  PROVE  TypesOK' /\ OncePerProcess'
<1>0. store # <<>> => /\ Head(store) \in Url /\ Tail(store) \in Seq(Url)
                      /\ Head(store) # Null
  BY QueueAssumption, ContainsMoves DEF TypesOK
<1>a. pop[w].at # "idle" => pop[w].url \in Url
  BY DEF TypesOK
<1> USE <1>0, <1>a DEF TypesOK, OncePerProcess, PushPC, PopPC, At, Idle, server, mirror, process, checkpoint, history,
             IsUsing, PopDone, PopGoes, HandedOut, Fails
<1>1. CASE RedisPop(w)
  <2>1. /\ store' \in Seq(Url) /\ popped' \in [Url -> Nat] /\ faulted' \subseteq Url
        /\ UNCHANGED <<seenKey, seenTopic, mirror, dedup, life, push, pop, pushed>>
    BY <1>1 DEF RedisPop
  <2> QED BY <2>1
<1>2. CASE PostgresPop(w)
  <2>1. /\ pop' = [pop EXCEPT ![w] = At("mark", Head(store))] \/ pop' = pop
        /\ faulted' \in {faulted, faulted \cup {Head(store)}} /\ store' \in Seq(Url) /\ Head(store) \in Url
        /\ UNCHANGED <<seenKey, seenTopic, mirror, dedup, life, push, pushed, popped>>
    BY <1>2 DEF PostgresPop
  <2>2. CASE pop' = pop
    BY <2>1, <2>2
  <2>3. CASE pop' = [pop EXCEPT ![w] = At("mark", Head(store))]
    <3>1. /\ pop' \in [Client -> [at : PopPC, url : Url \cup {Null}]]
          /\ \A v \in Client : pop'[v].at = "idle" <=> pop'[v].url = Null
      BY <2>1, <2>3, GoesTyped, QueueAssumption
    <3> QED BY <2>1, <3>1
  <2> QED BY <2>1, <2>2, <2>3
<1>3. CASE markVisited(w)
  BY <1>3 DEF markVisited
<1>4. CASE KafkaFetch(w)
  BY <1>4 DEF KafkaFetch
<1>5. CASE KafkaCommit(w)
  <2>1. pop' = [pop EXCEPT ![w] = Idle] \/ pop' = [pop EXCEPT ![w] = At("count", pop[w].url)]
    BY <1>5 DEF KafkaCommit
  <2>2. /\ faulted' \in {faulted, faulted \cup {pop[w].url}} /\ pop[w].url \in Url
        /\ UNCHANGED <<store, seenKey, seenTopic, mirror, dedup, life, push, pushed, popped>>
    BY <1>5 DEF KafkaCommit
  <2>3. CASE pop' = [pop EXCEPT ![w] = Idle]
    BY <2>2, <2>3
  <2>4. CASE pop' = [pop EXCEPT ![w] = At("count", pop[w].url)]
    <3>1. /\ pop' \in [Client -> [at : PopPC, url : Url \cup {Null}]]
          /\ \A v \in Client : pop'[v].at = "idle" <=> pop'[v].url = Null
      BY <2>2, <2>4, GoesTyped, QueueAssumption
    <3> QED BY <2>2, <3>1
  <2> QED BY <2>1, <2>3, <2>4
<1>6. CASE KafkaCount(w)
  BY <1>6 DEF KafkaCount
<1>7. CASE consumeSeenTopic(w)
  BY <1>7 DEF consumeSeenTopic
<1>8. CASE Saving(w)
  BY <1>8, SavingKeeps
<1> QED BY <1>1, <1>2, <1>3, <1>4, <1>5, <1>6, <1>7, <1>8 DEF PopAny

(* A message that comes again keeps the types. *)
LEMMA TypesAgain ==
  ASSUME TypesOK, OncePerProcess, crashes = 0, NEW w \in Client, Again(w)
  PROVE  /\ TypesOK' /\ OncePerProcess'
         /\ backend = "kafka" /\ UNCHANGED <<backend, mirror, seenKey, seenTopic, dedup, pop, popped>>
         /\ \E u \in Url : /\ store' = Append(store, u) /\ pushed' = [pushed EXCEPT ![u] = @ + 1]
                           /\ faulted' = faulted \cup {u}
                           /\ \/ push' = push /\ (Redeliver(w, u) \/ push[w] = At("write", u))
                              \/ push[w] = At("write", u) /\ push' = [push EXCEPT ![w] = Idle]
<1> PICK u \in Url : KafkaWriteUnheard(w, u) \/ Redeliver(w, u)
  BY DEF Again
<1>1. /\ store' = Append(store, u) /\ pushed' = [pushed EXCEPT ![u] = @ + 1] /\ faulted' = faulted \cup {u}
      /\ \/ push' = push /\ (Redeliver(w, u) \/ push[w] = At("write", u))
         \/ push[w] = At("write", u) /\ push' = [push EXCEPT ![w] = Idle]
      /\ backend = "kafka"
      /\ UNCHANGED <<backend, seenSet, pendingSet, pending, seenKey, seenTopic, dedup, life, pop, popped>>
  BY DEF KafkaWriteUnheard, Redeliver, IsUsing, Pushing, PushDone, Enqueued, Fails, mirror, process
<1>2. store' \in Seq(Url) /\ pushed' \in [Url -> Nat]
  BY <1>1, OneMore DEF TypesOK
<1>3. /\ push' \in [Client -> [at : PushPC, url : Url \cup {Null}]]
      /\ \A v \in Client : /\ push'[v].at = "idle" <=> push'[v].url = Null
                           /\ push'[v] = push[v] \/ push'[v] = Idle
  <2>1. /\ push \in [Client -> [at : PushPC, url : Url \cup {Null}]] /\ Idle = At("idle", Null)
        /\ \A v \in Client : push[v].at = "idle" <=> push[v].url = Null
    BY DEF TypesOK, Idle, At
  <2>2. CASE push' = push
    BY <2>1, <2>2
  <2>3. CASE push' = [push EXCEPT ![w] = Idle]
    <3>1. "idle" \in PushPC
      BY DEF PushPC
    <3> QED BY <2>1, <2>3, <3>1, RestTyped
  <2>4. push' = push \/ push' = [push EXCEPT ![w] = Idle]
    BY <1>1
  <2> QED BY <2>2, <2>3, <2>4
<1>4. TypesOK'
  BY <1>1, <1>2, <1>3 DEF TypesOK
<1>5. OncePerProcess'
  BY <1>1, <1>3 DEF OncePerProcess, Idle
<1> QED BY <1>1, <1>4, <1>5 DEF mirror

(* What is safe stays so. *)
LEMMA SafeStays ==
  ASSUME TypesOK, crashes = 0, NEW w \in Client, CalmStep(w), NEW x \in Url, Safe(x)
  PROVE  Safe(x)'
<1>1. store \in Seq(Url) /\ x # Null
  BY QueueAssumption DEF TypesOK
<1>2. /\ \A u \in Url : Contains(store, x) => Contains(Append(store, u), x)
      /\ store # <<>> => /\ Head(store) \in Url
                         /\ Contains(store, x) => x = Head(store) \/ Contains(Tail(store), x)
  BY <1>1, ContainsMoves
<1>3. popped \in [Url -> Nat] /\ \A u \in Url : popped[x] > 0 => [popped EXCEPT ![u] = @ + 1][x] > 0
  BY DEF TypesOK
<1>4. /\ pop \in [Client -> [at : PopPC, url : Url \cup {Null}]]
      /\ \A v \in Client : pop[v].at = "idle" <=> pop[v].url = Null
  BY DEF TypesOK
<1> USE <1>1, <1>2, <1>3, <1>4 DEF Safe
<1>a. CASE PushAny(w)
  <2>1. pop' = pop /\ popped' = popped /\ (faulted' = faulted \/ \E u \in Url : faulted' = faulted \cup {u})
    BY <1>a DEF PushAny, Discover, PushFails, RedisPush, PostgresPush, KafkaFull, KafkaMarkSeen, KafkaWrite,
         KafkaWriteFails, KafkaMirror, Fails, history
  <2>2. store' = store \/ \E u \in Url : store' = Append(store, u)
    BY <1>a DEF PushAny, Discover, PushFails, RedisPush, PostgresPush, KafkaFull, KafkaMarkSeen, KafkaWrite,
         KafkaWriteFails, KafkaMirror, server
  <2> QED BY <2>1, <2>2
<1>b. CASE RedisPop(w)
  <2>1. CASE HandedOut(Head(store)) /\ UNCHANGED faulted
    BY <1>b, <2>1 DEF RedisPop, HandedOut
  <2>2. CASE Fails(Head(store)) /\ UNCHANGED popped
    BY <1>b, <2>2 DEF RedisPop, Fails
  <2> QED BY <1>b, <2>1, <2>2 DEF RedisPop
<1>c. CASE PostgresPop(w)
  <2>1. CASE PopGoes(w, "mark", Head(store)) /\ UNCHANGED faulted
    BY <1>c, <2>1 DEF PostgresPop, PopGoes, At, Idle
  <2>2. CASE Fails(Head(store)) /\ UNCHANGED pop
    BY <1>c, <2>2 DEF PostgresPop, Fails
  <2> QED BY <1>c, <2>1, <2>2 DEF PostgresPop
<1>d. CASE markVisited(w)
  BY <1>d DEF markVisited, HandedOut, PopDone
<1>e. CASE KafkaFetch(w)
  BY <1>e DEF KafkaFetch, PopGoes, At, history, server, Idle
<1>f. CASE KafkaCommit(w)
  BY <1>f DEF KafkaCommit, PopGoes, PopDone, At, Fails, server
<1>g. CASE KafkaCount(w)
  BY <1>g DEF KafkaCount, HandedOut, PopDone, server
<1>h. CASE consumeSeenTopic(w) \/ Saving(w)
  BY <1>h, SavingKeeps DEF consumeSeenTopic, server, history
<1>i. CASE Again(w)
  <2>1. UNCHANGED <<pop, popped>> /\ \E u \in Url : store' = Append(store, u) /\ faulted' = faulted \cup {u}
    BY <1>i DEF Again, KafkaWriteUnheard, Redeliver, Fails
  <2> QED BY <2>1
<1> QED BY <1>a, <1>b, <1>c, <1>d, <1>e, <1>f, <1>g, <1>h, <1>i DEF CalmStep, PopAny

SeenInKafka(u) == u \in seenTopic \/ \E w \in Client : u \in seenSet[w]

(* What a step must do so that nothing is known and unsafe after it.         *)
LEMMA KnownFrame ==
  ASSUME NEW x \in Url, KnownOf(x), Safe(x) => Safe(x)', Writing(x) => Writing(x)' \/ Safe(x)',
         backend' = backend,
         backend = "redis" /\ x \in seenKey' => x \in seenKey \/ Safe(x)',
         backend = "kafka" /\ SeenInKafka(x)' => SeenInKafka(x) \/ Safe(x)' \/ Writing(x)',
         \A v \in Client : x \in dedup'[v] => x \in dedup[v] \/ push'[v] = At("push", x),
         \A v \in Client : push[v] = At("push", x) => push'[v] = push[v] \/ Safe(x)' \/ Writing(x)'
  PROVE  KnownOf(x)'
<1>1. /\ backend = "redis" /\ x \in seenKey => Safe(x)
      /\ backend = "kafka" /\ SeenInKafka(x) => Safe(x) \/ Writing(x)
      /\ \A w \in Client : x \in dedup[w] => Safe(x) \/ Writing(x) \/ push[w] = At("push", x)
  BY DEF KnownOf, SeenInKafka
<1>2. KnownOf(x)' <=>
      /\ backend' = "redis" /\ x \in seenKey' => Safe(x)'
      /\ backend' = "kafka" /\ SeenInKafka(x)' => Safe(x)' \/ Writing(x)'
      /\ \A v \in Client : x \in dedup'[v] => Safe(x)' \/ Writing(x)' \/ push'[v] = At("push", x)
  BY DEF KnownOf, SeenInKafka, At
<1> QED BY <1>1, <1>2

(* No push leaves a URL known and unsafe.                                    *)
LEMMA KnownPush ==
  ASSUME TypesOK, crashes = 0, \A u \in Url : KnownOf(u), NEW w \in Client, PushAny(w), NEW x \in Url
  PROVE  KnownOf(x)'
<1> PICK u \in Url : \/ Discover(w, u) \/ PushFails(w, u) \/ RedisPush(w, u) \/ PostgresPush(w, u)
                     \/ KafkaFull(w, u) \/ KafkaMarkSeen(w, u) \/ KafkaWrite(w, u)
                     \/ KafkaWriteFails(w, u) \/ KafkaMirror(w, u)
  BY DEF PushAny
<1>1. (Safe(x) => Safe(x)') /\ (Safe(u) => Safe(u)')
  BY SafeStays DEF CalmStep
<1>2. /\ push \in [Client -> [at : PushPC, url : Url \cup {Null}]]
      /\ dedup \in [Client -> SUBSET Url] /\ seenSet \in [Client -> SUBSET Url]
  BY DEF TypesOK
<1>4. (Writing(x) <=> \E v \in Client : push[v] = At("write", x))
      /\ (Writing(x)' <=> \E v \in Client : push'[v] = At("write", x))
  BY DEF Writing, At
<1>5. /\ store' = Append(store, u) => Contains(store', u)
      /\ u \in faulted' \/ Contains(store', u) => Safe(u)'
  <2>1. Contains(Append(store, u), u)
    BY ContainsMoves DEF TypesOK
  <2> QED BY <2>1 DEF Safe
<1>6. At("push", x) # Idle /\ At("write", x) # Idle
      /\ \A l, m : At(l, u) = At(m, x) <=> l = m /\ u = x
  BY QueueAssumption DEF At, Idle
<1>7. SeenInKafka(x)' <=> (x \in seenTopic' \/ \E v \in Client : x \in seenSet'[v])
  BY DEF SeenInKafka
<1>8. KnownOf(x) /\ KnownOf(u)
  OBVIOUS
<1> HIDE DEF At, Idle
<1>a. CASE Discover(w, u)
  <2>1. /\ push[w] = Idle /\ push' = [push EXCEPT ![w] = At("push", u)] /\ dedup' = [dedup EXCEPT ![w] = @ \cup {u}]
        /\ UNCHANGED <<backend, seenKey, seenTopic, seenSet>>
    BY <1>a DEF Discover, server, mirror
  <2> QED BY <1>1, <1>2, <1>4, <1>6, <1>7, <1>8, <2>1, KnownFrame DEF SeenInKafka
<1>b. CASE PushFails(w, u) \/ KafkaFull(w, u) \/ KafkaWriteFails(w, u)
  <2>1. /\ push' = [push EXCEPT ![w] = Idle] /\ push[w] \in {At("push", u), At("write", u)}
        /\ UNCHANGED <<backend, seenKey, seenTopic, seenSet, dedup>>
    BY <1>b DEF PushFails, KafkaFull, KafkaWriteFails, server, mirror, process, Pushing, PushDone
  <2>2. Safe(u)'
    BY <1>b, <1>5 DEF PushFails, KafkaFull, KafkaWriteFails, Fails
  <2> QED BY <1>1, <1>2, <1>4, <1>6, <1>7, <1>8, <2>1, <2>2, KnownFrame DEF SeenInKafka
<1>c. CASE RedisPush(w, u)
  <2>1. /\ push' = [push EXCEPT ![w] = Idle] /\ push[w] = At("push", u)
        /\ UNCHANGED <<backend, seenTopic, seenSet, dedup>> /\ backend = "redis"
        /\ seenKey' = seenKey \/ seenKey' = seenKey \cup {u}
    BY <1>c DEF RedisPush, IsUsing, server, mirror, process, Pushing, PushDone
  <2>2. Safe(u)'
    <3>1. CASE u \in seenKey
      BY <1>1, <1>8, <2>1, <3>1 DEF KnownOf
    <3>2. CASE u \notin seenKey
      BY <1>5, <1>c, <3>2 DEF RedisPush, Fails
    <3> QED BY <3>1, <3>2
  <2> QED BY <1>1, <1>2, <1>4, <1>6, <1>7, <1>8, <2>1, <2>2, KnownFrame DEF SeenInKafka
<1>d. CASE PostgresPush(w, u)
  <2>1. /\ push' = [push EXCEPT ![w] = Idle] /\ push[w] = At("push", u)
        /\ UNCHANGED <<backend, seenKey, seenTopic, seenSet, dedup>>
    BY <1>d DEF PostgresPush, mirror, process, Pushing, PushDone
  <2>2. Safe(u)'
    BY <1>d, <1>5 DEF PostgresPush
  <2> QED BY <1>1, <1>2, <1>4, <1>6, <1>7, <1>8, <2>1, <2>2, KnownFrame DEF SeenInKafka
<1>e. CASE KafkaMarkSeen(w, u)
  <2>1. UNCHANGED <<backend, seenKey, dedup>> /\ push[w] = At("push", u) /\ backend = "kafka"
    BY <1>e DEF KafkaMarkSeen, process, IsUsing, Pushing
  <2>2. CASE u \in seenSet[w]
    <3>1. push' = [push EXCEPT ![w] = Idle] /\ UNCHANGED <<seenSet, seenTopic>>
      BY <1>e, <2>2 DEF KafkaMarkSeen, PushDone
    <3>2. Safe(u) \/ (\E v \in Client : push[v] = At("write", u))
      BY <1>8, <2>1, <2>2 DEF KnownOf, Writing
    <3>3. Safe(u)' \/ (\E v \in Client : push'[v] = At("write", u))
      <4>1. At("write", u) # At("push", u)
        BY DEF At
      <4> QED BY <1>1, <1>2, <2>1, <3>1, <3>2, <4>1
    <3> QED BY <1>1, <1>2, <1>4, <1>6, <1>7, <1>8, <2>1, <3>1, <3>3, KnownFrame DEF SeenInKafka
  <2>3. CASE u \notin seenSet[w]
    <3>1. /\ push' = [push EXCEPT ![w] = At("write", u)] /\ seenSet' = [seenSet EXCEPT ![w] = @ \cup {u}]
          /\ seenTopic' = seenTopic \/ seenTopic' = seenTopic \cup {u}
      BY <1>e, <2>3 DEF KafkaMarkSeen, PushGoes
    <3>2. /\ push'[w] = At("write", u)
          /\ \A v \in Client \ {w} : push'[v] = push[v] /\ seenSet'[v] = seenSet[v]
          /\ seenSet'[w] = seenSet[w] \cup {u}
      BY <1>2, <3>1
    <3>3. x = u => Writing(x)'
      BY <1>4, <3>2
    <3>4. x # u => /\ (SeenInKafka(x)' => SeenInKafka(x)) /\ (Writing(x) => Writing(x)')
                   /\ \A v \in Client : push[v] = At("push", x) => push'[v] = push[v]
      BY <1>4, <1>6, <1>7, <2>1, <3>1, <3>2 DEF SeenInKafka
    <3> QED BY <1>1, <1>8, <2>1, <3>3, <3>4, KnownFrame
  <2> QED BY <2>2, <2>3
<1>f. CASE KafkaWrite(w, u)
  <2>1. /\ push' = [push EXCEPT ![w] = At("mirror", u)] /\ push[w] = At("write", u)
        /\ UNCHANGED <<backend, seenKey, seenTopic, seenSet, dedup>>
    BY <1>f DEF KafkaWrite, mirror, process, Pushing, PushGoes
  <2>2. Safe(u)'
    BY <1>f, <1>5 DEF KafkaWrite
  <2> QED BY <1>1, <1>2, <1>4, <1>6, <1>7, <1>8, <2>1, <2>2, KnownFrame DEF SeenInKafka
<1>g. CASE KafkaMirror(w, u)
  <2>1. /\ push' = [push EXCEPT ![w] = Idle] /\ push[w] = At("mirror", u)
        /\ UNCHANGED <<backend, seenKey, seenTopic, seenSet, dedup>>
    BY <1>g DEF KafkaMirror, server, process, Pushing, PushDone
  <2> QED BY <1>1, <1>2, <1>4, <1>6, <1>7, <1>8, <2>1, KnownFrame DEF SeenInKafka
<1> QED BY <1>a, <1>b, <1>c, <1>d, <1>e, <1>f, <1>g

(* Nor does a pop, a read of the topic or a save. *)
LEMMA KnownPop ==
  ASSUME TypesOK, crashes = 0, \A u \in Url : KnownOf(u), NEW w \in Client,
         PopAny(w) \/ consumeSeenTopic(w) \/ Saving(w), NEW x \in Url
  PROVE  KnownOf(x)'
<1>1. /\ push' = push /\ dedup' = dedup /\ backend' = backend
      /\ backend = "postgres" \/ seenKey' = seenKey
  BY SavingKeeps DEF PopAny, RedisPop, PostgresPop, markVisited, KafkaFetch, KafkaCommit, KafkaCount,
     consumeSeenTopic, IsUsing, process, server
<1>2. \/ seenTopic' = seenTopic /\ seenSet' = seenSet
      \/ \E u \in seenTopic : seenTopic' = seenTopic \ {u} /\ seenSet' = [seenSet EXCEPT ![w] = @ \cup {u}]
  BY SavingKeeps DEF PopAny, RedisPop, PostgresPop, markVisited, KafkaFetch, KafkaCommit, KafkaCount,
     consumeSeenTopic, mirror, server
<1>3. Safe(x) => Safe(x)'
  BY SafeStays DEF CalmStep
<1>4. KnownOf(x) /\ seenSet \in [Client -> SUBSET Url]
  BY DEF TypesOK
<1>5. x \in seenTopic' \/ (\E v \in Client : x \in seenSet'[v]) =>
        x \in seenTopic \/ \E v \in Client : x \in seenSet[v]
  BY <1>2, <1>4
<1> QED BY <1>1, <1>3, <1>4, <1>5 DEF KnownOf, Writing, At

(* Nor does a message that comes again, which is in the queue. *)
LEMMA KnownAgain ==
  ASSUME TypesOK, OncePerProcess, crashes = 0, \A u \in Url : KnownOf(u), NEW w \in Client, Again(w), NEW x \in Url
  PROVE  KnownOf(x)'
<1>1. PICK u \in Url : /\ store' = Append(store, u) /\ faulted' = faulted \cup {u}
                       /\ push' = push \/ (push[w] = At("write", u) /\ push' = [push EXCEPT ![w] = Idle])
                       /\ UNCHANGED <<backend, seenSet, seenKey, seenTopic, dedup>>
  BY TypesAgain DEF mirror
<1>2. Safe(x) => Safe(x)'
  BY SafeStays DEF CalmStep
<1>3. Safe(u)'
  BY <1>1 DEF Safe
<1>4. push \in [Client -> [at : PushPC, url : Url \cup {Null}]] /\ KnownOf(x)
  BY DEF TypesOK
<1>5. \A v \in Client : push'[v] = push[v] \/ push[v] = At("write", u)
  BY <1>1, <1>4
<1>6. Writing(x) => Writing(x)' \/ Safe(x)'
  BY <1>3, <1>5 DEF Writing, At
<1>7. SeenInKafka(x)' <=> SeenInKafka(x)
  BY <1>1 DEF SeenInKafka
<1>8. \A v \in Client : push[v] = At("push", x) => push'[v] = push[v]
  BY <1>5 DEF At
<1> QED BY <1>1, <1>2, <1>4, <1>6, <1>7, <1>8, KnownFrame

-----------------------------------------------------------------------------
(* Counting the messages of a URL.                                           *)

(* Processes are finitely many: one more and one fewer.                      *)
LEMMA OneIn ==
  ASSUME NEW S, S \subseteq Client, NEW w \in Client, w \notin S
  PROVE  Cardinality(S) \in Nat /\ Cardinality(S \cup {w}) = Cardinality(S) + 1
<1>1. IsFiniteSet(S)
  BY QueueAssumption, FS_Subset
<1> QED BY <1>1, FS_AddElement, FS_CardinalityType

LEMMA OneOut ==
  ASSUME NEW S, S \subseteq Client, NEW w \in S
  PROVE  Cardinality(S) \in Nat /\ Cardinality(S \ {w}) = Cardinality(S) - 1
<1>1. IsFiniteSet(S)
  BY QueueAssumption, FS_Subset
<1> QED BY <1>1, FS_RemoveElement, FS_CardinalityType

(* What is counted are numbers. *)
LEMMA TokensTyped ==
  ASSUME TypesOK, NEW u \in Url
  PROVE  /\ CopiesOf(u) \in Nat /\ Cardinality(Hand(u)) \in Nat /\ TokensOf(u) \in Nat
         /\ Cardinality(Covering(u)) \in Nat
<1>1. CopiesOf(u) \in Nat
  <2>1. CopiesOf(u) = Cardinality(Places(store, u)) /\ store \in Seq(Url)
    BY DEF CopiesOf, Places, TypesOK
  <2> QED BY <2>1, PlacesFinite
<1>2. Cardinality(Hand(u)) \in Nat /\ Cardinality(Covering(u)) \in Nat
  <2>1. IsFiniteSet(Hand(u)) /\ IsFiniteSet(Covering(u))
    BY QueueAssumption, FS_Subset DEF Hand, Covering
  <2> QED BY <2>1, FS_CardinalityType
<1> QED BY <1>1, <1>2 DEF TokensOf

(* The queue gets a message, or gives one.                                   *)
LEMMA CopiesMove ==
  ASSUME TypesOK, NEW u \in Url
  PROVE  /\ \A x \in Url : store' = Append(store, x) => CopiesOf(u)' = CopiesOf(u) + (IF x = u THEN 1 ELSE 0)
         /\ store # <<>> /\ store' = Tail(store) =>
              CopiesOf(u) = CopiesOf(u)' + (IF Head(store) = u THEN 1 ELSE 0)
         /\ store' = store => CopiesOf(u)' = CopiesOf(u)
<1>1. CopiesOf(u) = Cardinality(Places(store, u)) /\ CopiesOf(u)' = Cardinality(Places(store', u))
  BY DEF CopiesOf, Places
<1>2. store \in Seq(Url)
  BY DEF TypesOK
<1>3. ASSUME NEW x \in Url, store' = Append(store, x)
      PROVE  CopiesOf(u)' = CopiesOf(u) + (IF x = u THEN 1 ELSE 0)
  <2>1. Cardinality(Places(Append(store, x), u)) = Cardinality(Places(store, u)) + (IF x = u THEN 1 ELSE 0)
    BY <1>2, AppendCopies
  <2> QED BY <1>1, <1>3, <2>1
<1>4. ASSUME store # <<>>, store' = Tail(store)
      PROVE  CopiesOf(u) = CopiesOf(u)' + (IF Head(store) = u THEN 1 ELSE 0)
  <2>1. Cardinality(Places(store, u)) = Cardinality(Places(Tail(store), u)) + (IF Head(store) = u THEN 1 ELSE 0)
    BY <1>2, <1>4, TailCopies
  <2> QED BY <1>1, <1>4, <2>1
<1>5. store' = store => CopiesOf(u)' = CopiesOf(u)
  BY <1>1
<1> QED BY <1>3, <1>4, <1>5

(* A pop takes a message into its hand, or lays it down.                     *)
LEMMA HandMoves ==
  ASSUME TypesOK, NEW u \in Url, NEW w \in Client
  PROVE  /\ \A l, x : pop[w] = Idle /\ pop' = [pop EXCEPT ![w] = At(l, x)] =>
              Cardinality(Hand(u))' = Cardinality(Hand(u)) + (IF x = u THEN 1 ELSE 0)
         /\ \A x : pop[w].url = x /\ pop' = [pop EXCEPT ![w] = Idle] =>
              Cardinality(Hand(u)) = Cardinality(Hand(u))' + (IF x = u THEN 1 ELSE 0)
         /\ \A l : pop' = [pop EXCEPT ![w] = At(l, pop[w].url)] => Cardinality(Hand(u))' = Cardinality(Hand(u))
         /\ pop' = pop => Cardinality(Hand(u))' = Cardinality(Hand(u))
<1>1. pop \in [Client -> [at : PopPC, url : Url \cup {Null}]] /\ u # Null
  BY QueueAssumption DEF TypesOK
<1>2. Cardinality(Hand(u))' = Cardinality({v \in Client : pop'[v].url = u}) /\ Hand(u) \subseteq Client
  BY DEF Hand
<1>3. Cardinality(Hand(u)) \in Nat
  BY TokensTyped
<1>4. ASSUME NEW l, NEW x, pop[w] = Idle, pop' = [pop EXCEPT ![w] = At(l, x)]
      PROVE  Cardinality(Hand(u))' = Cardinality(Hand(u)) + (IF x = u THEN 1 ELSE 0)
  <2>1. {v \in Client : pop'[v].url = u} = IF x = u THEN Hand(u) \cup {w} ELSE Hand(u)
    BY <1>1, <1>4 DEF Hand, At, Idle
  <2>2. w \notin Hand(u)
    BY <1>1, <1>4 DEF Hand, Idle
  <2>3. Cardinality(Hand(u) \cup {w}) = Cardinality(Hand(u)) + 1
    BY <1>2, <2>2, OneIn
  <2>4. CASE x = u
    BY <1>2, <2>1, <2>3, <2>4
  <2>5. CASE x # u
    BY <1>2, <1>3, <2>1, <2>5
  <2> QED BY <2>4, <2>5
<1>5. ASSUME NEW x, pop[w].url = x, pop' = [pop EXCEPT ![w] = Idle]
      PROVE  Cardinality(Hand(u)) = Cardinality(Hand(u))' + (IF x = u THEN 1 ELSE 0)
  <2>1. {v \in Client : pop'[v].url = u} = IF x = u THEN Hand(u) \ {w} ELSE Hand(u)
    BY <1>1, <1>5 DEF Hand, Idle
  <2>2. x = u => Cardinality(Hand(u) \ {w}) = Cardinality(Hand(u)) - 1
    <3>1. x = u => w \in Hand(u)
      BY <1>5 DEF Hand
    <3> QED BY <1>2, <3>1, OneOut
  <2>4. CASE x = u
    <3>1. Cardinality(Hand(u))' = Cardinality(Hand(u)) - 1
      BY <1>2, <2>1, <2>2, <2>4
    <3> QED BY <1>3, <2>4, <3>1
  <2>5. CASE x # u
    <3>1. Cardinality(Hand(u))' = Cardinality(Hand(u))
      BY <1>2, <2>1, <2>5
    <3> QED BY <1>3, <2>5, <3>1
  <2> QED BY <2>4, <2>5
<1>6. ASSUME NEW l, pop' = [pop EXCEPT ![w] = At(l, pop[w].url)] \/ pop' = pop
      PROVE  Cardinality(Hand(u))' = Cardinality(Hand(u))
  <2>1. {v \in Client : pop'[v].url = u} = Hand(u)
    BY <1>1, <1>6 DEF Hand, At
  <2> QED BY <1>2, <2>1
<1> QED BY <1>4, <1>5, <1>6

(* What is in the queue or in a hand, after a push ...                       *)
LEMMA TokensUp ==
  ASSUME TypesOK, NEW u \in Url, store' = Append(store, u), pop' = pop, NEW x \in Url
  PROVE  TokensOf(x)' = TokensOf(x) + (IF u = x THEN 1 ELSE 0)
<1>1. CopiesOf(x)' = CopiesOf(x) + (IF u = x THEN 1 ELSE 0) /\ Cardinality(Hand(x))' = Cardinality(Hand(x))
  BY CopiesMove DEF Hand
<1> QED BY <1>1, TokensTyped DEF TokensOf

(* ... after the head has gone, to the caller or into a hand ...             *)
LEMMA TokensHead ==
  ASSUME TypesOK, store # <<>>, store' = Tail(store), NEW w \in Client, NEW x \in Url
  PROVE  /\ pop' = pop => /\ TokensOf(x) = TokensOf(x)' + (IF Head(store) = x THEN 1 ELSE 0)
                          /\ TokensOf(x)' \in Nat
         /\ \A l : pop[w] = Idle /\ pop' = [pop EXCEPT ![w] = At(l, Head(store))] => TokensOf(x)' = TokensOf(x)
<1>1. CopiesOf(x) = CopiesOf(x)' + (IF Head(store) = x THEN 1 ELSE 0)
  BY CopiesMove
<1>2. CopiesOf(x)' \in Nat
  <2>1. CopiesOf(x)' = Cardinality(Places(store', x)) /\ store' \in Seq(Url)
    BY DEF CopiesOf, Places, TypesOK
  <2> QED BY <2>1, PlacesFinite
<1>3. CopiesOf(x) \in Nat /\ Cardinality(Hand(x)) \in Nat /\ TokensOf(x) = CopiesOf(x) + Cardinality(Hand(x))
      /\ TokensOf(x)' = CopiesOf(x)' + Cardinality(Hand(x))'
  BY TokensTyped DEF TokensOf
<1>4. ASSUME pop' = pop PROVE /\ TokensOf(x) = TokensOf(x)' + (IF Head(store) = x THEN 1 ELSE 0)
                              /\ TokensOf(x)' \in Nat
  <2>1. Cardinality(Hand(x))' = Cardinality(Hand(x))
    BY <1>4, HandMoves
  <2> QED BY <1>1, <1>2, <1>3, <2>1
<1>5. ASSUME NEW l, pop[w] = Idle, pop' = [pop EXCEPT ![w] = At(l, Head(store))] PROVE TokensOf(x)' = TokensOf(x)
  <2>1. Cardinality(Hand(x))' = Cardinality(Hand(x)) + (IF Head(store) = x THEN 1 ELSE 0)
    BY <1>5, HandMoves
  <2> QED BY <1>1, <1>2, <1>3, <2>1
<1> QED BY <1>4, <1>5

(* ... and after a hand has let go of its message, or gone on with it.       *)
LEMMA TokensDown ==
  ASSUME TypesOK, store' = store, NEW w \in Client, NEW x \in Url
  PROVE  /\ pop' = [pop EXCEPT ![w] = Idle] =>
              TokensOf(x) = TokensOf(x)' + (IF pop[w].url = x THEN 1 ELSE 0) /\ TokensOf(x)' \in Nat
         /\ (\E l : pop' = [pop EXCEPT ![w] = At(l, pop[w].url)]) \/ pop' = pop => TokensOf(x)' = TokensOf(x)
<1>1. CopiesOf(x)' = CopiesOf(x)
  BY CopiesMove
<1>2. CopiesOf(x) \in Nat /\ Cardinality(Hand(x)) \in Nat /\ TokensOf(x) = CopiesOf(x) + Cardinality(Hand(x))
      /\ TokensOf(x)' = CopiesOf(x)' + Cardinality(Hand(x))'
  BY TokensTyped DEF TokensOf
<1>3. ASSUME pop' = [pop EXCEPT ![w] = Idle]
      PROVE  TokensOf(x) = TokensOf(x)' + (IF pop[w].url = x THEN 1 ELSE 0) /\ TokensOf(x)' \in Nat
  <2>1. Cardinality(Hand(x)) = Cardinality(Hand(x))' + (IF pop[w].url = x THEN 1 ELSE 0)
    BY <1>3, HandMoves
  <2>2. Cardinality(Hand(x))' \in Nat
    <3>1. Cardinality(Hand(x))' = Cardinality({v \in Client : pop'[v].url = x})
      BY DEF Hand
    <3> QED BY <3>1, QueueAssumption, FS_Subset, FS_CardinalityType
  <2> QED BY <1>1, <1>2, <2>1, <2>2
<1>4. ASSUME (\E l : pop' = [pop EXCEPT ![w] = At(l, pop[w].url)]) \/ pop' = pop PROVE TokensOf(x)' = TokensOf(x)
  <2>1. Cardinality(Hand(x))' = Cardinality(Hand(x))
    BY <1>4, HandMoves
  <2> QED BY <1>1, <1>2, <2>1
<1> QED BY <1>3, <1>4

(* Nothing is counted differently where the counts are as they were.         *)
LEMMA CountedFrame ==
  ASSUME TypesOK, NEW x \in Url, CountedOf(x), UNCHANGED <<backend, store, pop, pushed, popped>>,
         x \in seenKey => x \in seenKey', backend = "kafka" => Covering(x)' = Covering(x),
         backend = "kafka" /\ x \in faulted => x \in faulted'
  PROVE  CountedOf(x)'
<1>1. CopiesOf(x)' = CopiesOf(x) /\ Cardinality(Hand(x))' = Cardinality(Hand(x))
  BY CopiesMove, HandMoves DEF Hand
<1>2. TokensOf(x)' = TokensOf(x)
  BY <1>1 DEF TokensOf
<1>3. pushed[x] \in Nat
  BY DEF TypesOK
<1> QED BY <1>2, <1>3 DEF CountedOf

(* A push counts a URL where it adds a copy or a covering process. *)
LEMMA CountedPush ==
  ASSUME TypesOK, OncePerProcess, crashes = 0, NEW w \in Client, PushAny(w), NEW x \in Url, CountedOf(x)
  PROVE  CountedOf(x)'
<1> PICK u \in Url : \/ Discover(w, u) \/ PushFails(w, u) \/ RedisPush(w, u) \/ PostgresPush(w, u)
                     \/ KafkaFull(w, u) \/ KafkaMarkSeen(w, u) \/ KafkaWrite(w, u)
                     \/ KafkaWriteFails(w, u) \/ KafkaMirror(w, u)
  BY DEF PushAny
<1>1. /\ push \in [Client -> [at : PushPC, url : Url \cup {Null}]] /\ pendingSet \in [Client -> SUBSET Url]
      /\ pushed \in [Url -> Nat] /\ popped \in [Url -> Nat] /\ u # Null /\ x # Null
  BY QueueAssumption DEF TypesOK
<1>2. TokensOf(x) \in Nat /\ Cardinality(Covering(x)) \in Nat /\ popped[x] \in Nat /\ pushed[x] \in Nat
  BY <1>1, TokensTyped
<1>3. Covering(x)' = {v \in Client : x \in pendingSet'[v] \/ push'[v] = At("mirror", x)}
  BY DEF Covering, At
(* What a push does that puts u into the queue. *)
<1>4. ASSUME store' = Append(store, u), pop' = pop PROVE TokensOf(x)' = TokensOf(x) + (IF u = x THEN 1 ELSE 0)
  BY <1>4, TokensUp
<1>5. ASSUME pushed' = [pushed EXCEPT ![u] = @ + 1]
      PROVE  pushed'[x] = pushed[x] + (IF u = x THEN 1 ELSE 0)
  BY <1>1, <1>5
<1>a. CASE Discover(w, u)
  <2>1. Covering(x)' = Covering(x)
    BY <1>1, <1>3, <1>a DEF Discover, mirror, Covering, At, Idle
  <2> QED BY <1>a, <2>1, CountedFrame DEF Discover, server, history
<1>b. CASE PushFails(w, u) \/ KafkaFull(w, u) \/ KafkaWriteFails(w, u)
  <2>1. Covering(x)' = Covering(x)
    BY <1>1, <1>3, <1>b DEF PushFails, KafkaFull, KafkaWriteFails, mirror, Covering, At, Idle, Pushing, PushDone
  <2> QED BY <1>b, <2>1, CountedFrame DEF PushFails, KafkaFull, KafkaWriteFails, server, Fails
<1>c. CASE KafkaMarkSeen(w, u)
  <2>1. push[w] = At("push", u) /\ (push' = [push EXCEPT ![w] = Idle] \/ push' = [push EXCEPT ![w] = At("write", u)])
    BY <1>c DEF KafkaMarkSeen, Pushing, PushDone, PushGoes
  <2>2. pendingSet' = pendingSet
    BY <1>c DEF KafkaMarkSeen
  <2>3. Covering(x)' = Covering(x)
    BY <1>1, <1>3, <2>1, <2>2 DEF Covering, At, Idle
  <2> QED BY <1>c, <2>3, CountedFrame DEF KafkaMarkSeen, history
<1>d. CASE KafkaMirror(w, u)
  <2>1. Covering(x)' = Covering(x)
    BY <1>1, <1>3, <1>d DEF KafkaMirror, Covering, At, Idle, Pushing, PushDone
  <2> QED BY <1>d, <2>1, CountedFrame DEF KafkaMirror, server, history
<1>e. CASE RedisPush(w, u)
  <2>1. backend = "redis" /\ UNCHANGED <<backend, pop, popped>>
    BY <1>e DEF RedisPush, IsUsing
  <2>2. CASE u \notin seenKey /\ ~(Len(store) >= MaxSize)
    <3>1. store' = Append(store, u) /\ seenKey' = seenKey \cup {u} /\ pushed' = [pushed EXCEPT ![u] = @ + 1]
      BY <1>e, <2>2 DEF RedisPush, Enqueued
    <3> QED BY <1>2, <1>4, <1>5, <2>1, <2>2, <3>1 DEF CountedOf
  <2>3. CASE ~(u \notin seenKey /\ ~(Len(store) >= MaxSize))
    <3>1. UNCHANGED <<store, seenKey, pushed>>
      BY <1>e, <2>3 DEF RedisPush, server
    <3> QED BY <2>1, <3>1, CountedFrame
  <2> QED BY <2>2, <2>3
<1>f. CASE PostgresPush(w, u)
  <2>1. backend = "postgres" /\ UNCHANGED <<backend, pop, popped, seenKey>>
    BY <1>f DEF PostgresPush, IsUsing
  <2>2. CASE Contains(store, u)
    BY <1>f, <2>1, <2>2, CountedFrame DEF PostgresPush
  <2>3. CASE ~Contains(store, u)
    <3>1. store' = Append(store, u) /\ pushed' = [pushed EXCEPT ![u] = @ + 1]
      BY <1>f, <2>3 DEF PostgresPush, Enqueued
    <3> QED BY <1>2, <1>4, <1>5, <2>1, <3>1 DEF CountedOf
  <2> QED BY <2>2, <2>3
<1>g. CASE KafkaWrite(w, u)
  <2>1. /\ backend = "kafka" /\ UNCHANGED <<backend, pop, popped, pendingSet, faulted>>
        /\ store' = Append(store, u) /\ pushed' = [pushed EXCEPT ![u] = @ + 1]
        /\ push[w] = At("write", u) /\ push' = [push EXCEPT ![w] = At("mirror", u)]
    BY <1>g DEF KafkaWrite, IsUsing, Enqueued, mirror, Pushing, PushGoes
  <2>2. u \notin pendingSet[w]
    BY <2>1 DEF OncePerProcess, At
  <2>3. Covering(x)' = IF u = x THEN Covering(x) \cup {w} ELSE Covering(x)
    BY <1>1, <1>3, <2>1 DEF Covering, At
  <2>4. u = x => Cardinality(Covering(x) \cup {w}) = Cardinality(Covering(x)) + 1
    <3>1. Covering(x) \subseteq Client /\ (u = x => w \notin Covering(x))
      BY <2>1, <2>2 DEF Covering, At
    <3> QED BY <3>1, OneIn
  <2>5. Cardinality(Covering(x))' = Cardinality(Covering(x)) + (IF u = x THEN 1 ELSE 0)
    BY <1>2, <2>3, <2>4
  <2> QED BY <1>2, <1>4, <1>5, <2>1, <2>5 DEF CountedOf
<1> QED BY <1>a, <1>b, <1>c, <1>d, <1>e, <1>f, <1>g

(* A pop takes a copy into its hand, and then counts it as handed out. *)
LEMMA CountedPop ==
  ASSUME TypesOK, crashes = 0, NEW w \in Client,
         PopAny(w) \/ consumeSeenTopic(w) \/ Saving(w), NEW x \in Url, CountedOf(x)
  PROVE  CountedOf(x)'
<1>1. /\ pendingSet \in [Client -> SUBSET Url] /\ pop \in [Client -> [at : PopPC, url : Url \cup {Null}]]
      /\ pushed \in [Url -> Nat] /\ popped \in [Url -> Nat] /\ x # Null
      /\ pop[w].at # "idle" => pop[w].url \in Url
      /\ store # <<>> => Head(store) \in Url
  BY QueueAssumption, ContainsMoves DEF TypesOK
<1>2. /\ Cardinality(Covering(x)) \in Nat /\ popped[x] \in Nat /\ pushed[x] \in Nat
      /\ CopiesOf(x) \in Nat /\ Cardinality(Hand(x)) \in Nat /\ TokensOf(x) \in Nat
  BY <1>1, TokensTyped
<1>3. Covering(x)' = {v \in Client : x \in pendingSet'[v] \/ push'[v] = At("mirror", x)}
  BY DEF Covering, At
(* A step out of the hand: one message fewer.                                *)
<1>5. ASSUME UNCHANGED store, pop' = [pop EXCEPT ![w] = Idle]
      PROVE  TokensOf(x) = TokensOf(x)' + (IF pop[w].url = x THEN 1 ELSE 0) /\ TokensOf(x)' \in Nat
  BY <1>5, TokensDown
(* A step from the queue to the hand.                                        *)
<1>6. ASSUME NEW l, store # <<>>, store' = Tail(store), pop[w] = Idle, pop' = [pop EXCEPT ![w] = At(l, Head(store))]
      PROVE  TokensOf(x)' = TokensOf(x)
  BY <1>6, TokensHead
<1>7. ASSUME NEW u \in Url, popped' = [popped EXCEPT ![u] = @ + 1]
      PROVE  popped'[x] = popped[x] + (IF u = x THEN 1 ELSE 0)
  BY <1>1, <1>7
<1>a. CASE RedisPop(w)
  <2>1. /\ backend = "redis" /\ store # <<>> /\ store' = Tail(store) /\ Head(store) \in Url
        /\ UNCHANGED <<backend, pop, pushed, seenKey>>
        /\ popped' = popped \/ popped' = [popped EXCEPT ![Head(store)] = @ + 1]
    BY <1>1, <1>a DEF RedisPop, IsUsing, HandedOut
  <2>0. TokensOf(x) = TokensOf(x)' + (IF Head(store) = x THEN 1 ELSE 0) /\ TokensOf(x)' \in Nat
    BY <2>1, TokensHead
  <2>6. popped'[x] = popped[x] \/ popped'[x] = popped[x] + (IF Head(store) = x THEN 1 ELSE 0)
    BY <1>7, <2>1
  <2>4. popped'[x] + TokensOf(x)' <= popped[x] + TokensOf(x)
    BY <1>2, <2>0, <2>6
  <2>5. popped'[x] \in Nat /\ TokensOf(x)' \in Nat
    BY <1>2, <2>0, <2>6
  <2> QED BY <1>2, <2>1, <2>4, <2>5 DEF CountedOf
<1>p. CASE PostgresPop(w)
  <2>1. /\ store # <<>> /\ store' = Tail(store) /\ pop[w] = Idle /\ Head(store) \in Url
        /\ (\E l : pop' = [pop EXCEPT ![w] = At(l, Head(store))]) \/ pop' = pop
        /\ backend = "postgres" /\ UNCHANGED <<backend, pushed, popped>>
    BY <1>1, <1>p DEF PostgresPop, PopGoes, IsUsing
  <2>2. TokensOf(x)' <= TokensOf(x) /\ TokensOf(x)' \in Nat
    <3>1. CASE pop' = pop
      BY <1>2, <2>1, <3>1, TokensHead
    <3>2. ASSUME NEW l, pop' = [pop EXCEPT ![w] = At(l, Head(store))] PROVE TokensOf(x)' = TokensOf(x)
      BY <1>6, <2>1, <3>2
    <3> QED BY <1>2, <2>1, <3>1, <3>2
  <2> QED BY <1>2, <2>1, <2>2 DEF CountedOf
<1>b. CASE KafkaFetch(w)
  <2>1. /\ store # <<>> /\ store' = Tail(store) /\ pop[w] = Idle
        /\ \E l : pop' = [pop EXCEPT ![w] = At(l, Head(store))]
        /\ UNCHANGED <<backend, pushed, popped, seenKey, pendingSet, push, faulted>>
    BY <1>b DEF KafkaFetch, PopGoes, history, mirror
  <2>2. TokensOf(x)' = TokensOf(x) /\ Covering(x)' = Covering(x)
    BY <1>6, <2>1 DEF Covering
  <2> QED BY <1>2, <2>1, <2>2 DEF CountedOf
<1>c. CASE markVisited(w)
  <2>1. /\ UNCHANGED <<backend, store, pushed>> /\ backend = "postgres" /\ pop' = [pop EXCEPT ![w] = Idle]
        /\ pop[w].url \in Url /\ popped' = [popped EXCEPT ![pop[w].url] = @ + 1]
    BY <1>1, <1>c DEF markVisited, IsUsing, PopDone, HandedOut
  <2> QED BY <1>2, <1>5, <1>7, <2>1 DEF CountedOf
<1>d. CASE KafkaCommit(w)
  <2>1. /\ UNCHANGED <<backend, store, pushed, popped, seenKey, pendingSet, push>> /\ backend = "kafka"
        /\ pop' = [pop EXCEPT ![w] = At("count", pop[w].url)] \/ pop' = [pop EXCEPT ![w] = Idle]
        /\ faulted' = faulted \/ faulted' = faulted \cup {pop[w].url}
    BY <1>d DEF KafkaCommit, IsUsing, PopDone, PopGoes, Fails, server, mirror
  <2>2. Covering(x)' = Covering(x)
    BY <2>1 DEF Covering
  <2>3. CASE pop' = [pop EXCEPT ![w] = At("count", pop[w].url)]
    <3>1. TokensOf(x)' = TokensOf(x)
      BY <2>1, <2>3, TokensDown
    <3> QED BY <1>2, <2>1, <2>2, <3>1 DEF CountedOf
  <2>4. CASE pop' = [pop EXCEPT ![w] = Idle]
    BY <1>2, <1>5, <2>1, <2>2, <2>4 DEF CountedOf
  <2> QED BY <2>1, <2>3, <2>4
<1>e. CASE KafkaCount(w)
  <2>1. /\ UNCHANGED <<backend, store, pushed, seenKey, push, faulted>> /\ backend = "kafka" /\ pop' = [pop EXCEPT ![w] = Idle]
        /\ pop[w].url \in Url /\ popped' = [popped EXCEPT ![pop[w].url] = @ + 1]
        /\ pendingSet' = [pendingSet EXCEPT ![w] = @ \ {pop[w].url}]
    BY <1>1, <1>e DEF KafkaCount, IsUsing, PopDone, HandedOut, server
  <2>2. pop[w].url # x => Covering(x)' = Covering(x)
    BY <1>1, <1>3, <2>1 DEF Covering
  <2>3. pop[w].url = x => Cardinality(Covering(x)) <= Cardinality(Covering(x)') + 1
    <3>1. Covering(x)' \subseteq Client /\ Covering(x) \ {w} \subseteq Covering(x)'
      BY <1>1, <1>3, <2>1 DEF Covering
    <3>2. IsFiniteSet(Covering(x)') /\ IsFiniteSet(Covering(x))
      BY <3>1, QueueAssumption, FS_Subset DEF Covering
    <3>3. Cardinality(Covering(x) \ {w}) <= Cardinality(Covering(x)')
      BY <3>1, <3>2, FS_Subset
    <3>4. Cardinality(Covering(x)) - 1 <= Cardinality(Covering(x) \ {w})
      <4>1. Cardinality(Covering(x) \ {w}) = IF w \in Covering(x) THEN Cardinality(Covering(x)) - 1
                                                                   ELSE Cardinality(Covering(x))
        BY <3>2, FS_RemoveElement
      <4> QED BY <1>2, <4>1
    <3>5. Cardinality(Covering(x) \ {w}) \in Nat /\ Cardinality(Covering(x)') \in Nat
      BY <3>2, FS_RemoveElement, FS_CardinalityType
    <3> QED BY <1>2, <3>3, <3>4, <3>5
  <2>4. Cardinality(Covering(x)') \in Nat
    <3>1. Covering(x)' \subseteq Client
      BY <1>3
    <3> QED BY <3>1, QueueAssumption, FS_Subset, FS_CardinalityType
  <2> HIDE DEF Covering
  <2> QED BY <1>2, <1>5, <1>7, <2>1, <2>2, <2>3, <2>4 DEF CountedOf
<1>f. CASE consumeSeenTopic(w) \/ Saving(w)
  <2>1. UNCHANGED <<backend, store, pop, pushed, popped, seenKey, pendingSet, push, faulted>>
    BY <1>f, SavingKeeps DEF consumeSeenTopic, history, server, mirror
  <2>2. Covering(x)' = Covering(x)
    BY <2>1 DEF Covering
  <2> QED BY <2>1, <2>2, CountedFrame
<1> QED BY <1>a, <1>b, <1>c, <1>d, <1>e, <1>f, <1>p DEF PopAny

(* A message that comes again is counted, and is on record as a failure. *)
LEMMA CountedAgain ==
  ASSUME TypesOK, OncePerProcess, crashes = 0, NEW w \in Client, Again(w), NEW x \in Url, CountedOf(x)
  PROVE  CountedOf(x)'
<1>1. PICK u \in Url : /\ store' = Append(store, u) /\ pushed' = [pushed EXCEPT ![u] = @ + 1]
                       /\ faulted' = faulted \cup {u} /\ backend = "kafka" /\ UNCHANGED <<backend, pop, popped, pendingSet>>
                       /\ push' = push \/ (push[w] = At("write", u) /\ push' = [push EXCEPT ![w] = Idle])
  BY TypesAgain DEF mirror
<1>2. /\ TokensOf(x) \in Nat /\ Cardinality(Covering(x)) \in Nat /\ popped[x] \in Nat /\ pushed[x] \in Nat
      /\ pushed'[x] = pushed[x] + (IF u = x THEN 1 ELSE 0)
  BY <1>1, TokensTyped DEF TypesOK
<1>3. TokensOf(x)' = TokensOf(x) + (IF u = x THEN 1 ELSE 0)
  BY <1>1, TokensUp
<1>4. Covering(x)' = Covering(x)
  <2>1. Covering(x)' = {v \in Client : x \in pendingSet'[v] \/ push'[v] = At("mirror", x)}
    BY DEF Covering, At
  <2>2. \A v \in Client : push'[v] = push[v] \/ (push[v] = At("write", u) /\ push'[v] = Idle)
    BY <1>1 DEF TypesOK
  <2> QED BY <1>1, <2>1, <2>2 DEF Covering, At, Idle
<1> QED BY <1>1, <1>2, <1>3, <1>4 DEF CountedOf

-----------------------------------------------------------------------------
(* The theorems. *)

QueueInv == crashes \in Nat /\ (crashes = 0 => CalmInv)

(* At the beginning the queue is empty and nobody is at work. *)
LEMMA QueueStart == QueueInit => QueueInv
<1> SUFFICES ASSUME QueueInit PROVE QueueInv
  OBVIOUS
<1>1. TypesOK
  BY QueueAssumption DEF QueueInit, TypesOK, PushPC, PopPC, Idle
<1>2. OncePerProcess
  BY DEF QueueInit, OncePerProcess, Idle
<1>3. ASSUME NEW u \in Url PROVE CountedOf(u) /\ KnownOf(u)
  <2>1. Places(<<>>, u) = {} /\ Hand(u) = {}
    BY QueueAssumption DEF QueueInit, Places, Hand, Idle
  <2>2. CopiesOf(u) = Cardinality(Places(store, u)) /\ store = <<>>
    BY DEF CopiesOf, Places, QueueInit
  <2>3. TokensOf(u) = 0
    BY <2>1, <2>2, FS_EmptySet DEF TokensOf
  <2>4. Cardinality(Covering(u)) \in Nat
    BY <1>1, TokensTyped
  <2> QED BY <2>3, <2>4 DEF CountedOf, KnownOf, QueueInit
<1> QED BY <1>1, <1>2, <1>3 DEF QueueInv, CalmInv, QueueInit

(* The configuration stays, and processes die one at a time.                 *)
LEMMA Counters ==
  ASSUME [QueueNext]_qvars
  PROVE  backend' = backend /\ (crashes' = crashes \/ crashes' = crashes + 1)
<1> DEFINE Goal == backend' = backend /\ (crashes' = crashes \/ crashes' = crashes + 1)
<1>1. CASE UNCHANGED qvars
  BY <1>1 DEF qvars, history
<1>2. ASSUME NEW w \in Client, PushAny(w) PROVE Goal
  BY <1>2 DEF PushAny, Discover, PushFails, RedisPush, PostgresPush, KafkaFull, KafkaMarkSeen, KafkaWrite,
       KafkaWriteFails, KafkaMirror, history
<1>3. ASSUME NEW w \in Client, PopAny(w) \/ consumeSeenTopic(w) \/ Saving(w) PROVE Goal
  BY <1>3, SavingKeeps DEF PopAny, RedisPop, PostgresPop, markVisited, KafkaFetch, KafkaCommit, KafkaCount,
     consumeSeenTopic, history
<1>4. ASSUME NEW w \in Client,
             \/ StartAfresh(w) \/ RedisRestart(w) \/ RedisLoadItem(w) \/ RedisLoadHash(w) \/ RedisLoadVisited(w)
             \/ PostgresRestart(w) \/ KafkaRestart(w) \/ KafkaLoadItem(w) \/ KafkaLoadVisited(w)
      PROVE  Goal
  BY <1>4 DEF StartAfresh, RedisRestart, RedisLoadItem, RedisLoadHash, RedisLoadVisited, PostgresRestart, KafkaRestart, KafkaLoadItem,
       KafkaLoadVisited, Restart, history
<1>5. ASSUME NEW w \in Client, Crash(w) PROVE Goal
  BY <1>5 DEF Crash
<1>6. ASSUME NEW w \in Client, Again(w) PROVE Goal
  BY <1>6 DEF Again, KafkaWriteUnheard, Redeliver
<1> QED BY <1>1, <1>2, <1>3, <1>4, <1>5, <1>6 DEF QueueNext, Saving

(* The step of the induction: after a crash nothing is claimed. *)
LEMMA QueueStep == QueueInv /\ [QueueNext]_qvars => QueueInv'
<1> SUFFICES ASSUME QueueInv, [QueueNext]_qvars PROVE QueueInv'
  OBVIOUS
<1>1. crashes' = crashes \/ crashes' = crashes + 1
  BY Counters
<1>2. ASSUME crashes' = 0 PROVE CalmInv'
  <2>1. crashes = 0 /\ CalmInv
    BY <1>1, <1>2 DEF QueueInv
  <2>2. CASE UNCHANGED qvars
    <3>1. /\ UNCHANGED <<backend, store, seenKey, seenTopic, seenSet, pendingSet, dedup, life, push, pop>>
          /\ UNCHANGED <<pushed, popped, faulted>>
      BY <2>2 DEF qvars, server, mirror, process, history
    <3>2. TypesOK' /\ OncePerProcess'
      BY <2>1, <3>1 DEF CalmInv, TypesOK, OncePerProcess
    <3>3. ASSUME NEW u \in Url PROVE CountedOf(u)'
      <4>1. Covering(u)' = Covering(u)
        BY <3>1 DEF Covering, At
      <4> QED BY <2>1, <3>1, <4>1, CountedFrame DEF CalmInv
    <3>4. ASSUME NEW u \in Url PROVE KnownOf(u)'
      <4>1. (Safe(u)' <=> Safe(u)) /\ (Writing(u)' <=> Writing(u)) /\ KnownOf(u)
        BY <2>1, <3>1 DEF Safe, Writing, At, CalmInv
      <4> QED BY <3>1, <4>1 DEF KnownOf, At
    <3> QED BY <3>2, <3>3, <3>4 DEF CalmInv
  <2>3. ASSUME NEW w \in Client, PushAny(w) PROVE CalmInv'
    BY <2>1, <2>3, TypesPush, CountedPush, KnownPush DEF CalmInv
  <2>4. ASSUME NEW w \in Client, PopAny(w) \/ consumeSeenTopic(w) \/ Saving(w) PROVE CalmInv'
    BY <2>1, <2>4, TypesPop, CountedPop, KnownPop DEF CalmInv
  <2>5. ASSUME NEW w \in Client, Again(w) PROVE CalmInv'
    BY <2>1, <2>5, TypesAgain, CountedAgain, KnownAgain DEF CalmInv
  <2>6. QueueNext => \E w \in Client : CalmStep(w)
    BY <1>2, <2>1, CalmSteps DEF CalmInv
  <2> QED BY <2>2, <2>3, <2>4, <2>5, <2>6 DEF CalmStep
<1> QED BY <1>1, <1>2 DEF QueueInv

(* Before any crash the counts and what is known fit the queue (queue/redis.go,
   postgres.go, kafka.go: PushURL and PopURL). *)
THEOREM QueueInvariant == QueueSpec => []QueueInv
BY QueueStart, QueueStep, PTL DEF QueueSpec

(* What a process has committed and the broker does not know of was sent.    *)
FlownInv == crashes = 0 => /\ unflushed \in [Client -> SUBSET Url]
                           /\ \A w \in Client : \A u \in unflushed[w] : pushed[u] > 0

(* A message in a hand was sent. *)
LEMMA InHand ==
  ASSUME CalmInv, NEW w \in Client, pop[w].at # "idle"
  PROVE  pop[w].url \in Url /\ pushed[pop[w].url] > 0
<1> DEFINE u == pop[w].url
<1>1. u \in Url /\ TypesOK
  BY DEF CalmInv, TypesOK
<1>2. CountedOf(u) /\ popped[u] \in Nat /\ pushed[u] \in Nat /\ CopiesOf(u) \in Nat
      /\ TokensOf(u) = CopiesOf(u) + Cardinality(Hand(u)) /\ Cardinality(Hand(u)) \in Nat
  BY <1>1, TokensTyped DEF CalmInv, TypesOK, TokensOf
<1>3. Cardinality(Hand(u)) # 0
  <2>1. w \in Hand(u) /\ IsFiniteSet(Hand(u))
    BY QueueAssumption, FS_Subset DEF Hand
  <2> QED BY <2>1, FS_EmptySet
<1> QED BY <1>1, <1>2, <1>3 DEF CountedOf

(* The step: only a commit adds to what the broker does not know of. *)
LEMMA FlownStep == QueueInv /\ FlownInv /\ [QueueNext]_qvars => FlownInv'
<1> SUFFICES ASSUME QueueInv, FlownInv, [QueueNext]_qvars, crashes' = 0
             PROVE  /\ unflushed' \in [Client -> SUBSET Url]
                    /\ \A w \in Client : \A u \in unflushed'[w] : pushed'[u] > 0
  BY DEF FlownInv
<1>1. crashes = 0 /\ CalmInv /\ TypesOK /\ unflushed \in [Client -> SUBSET Url]
      /\ pushed \in [Url -> Nat] /\ \A w \in Client : \A u \in unflushed[w] : u \in Url /\ pushed[u] > 0
  BY Counters DEF QueueInv, CalmInv, FlownInv, TypesOK
<1>2. ASSUME pushed' = pushed \/ \E u \in Url : pushed' = [pushed EXCEPT ![u] = @ + 1],
             NEW w \in Client, NEW S \in SUBSET Url, \A u \in S : u \in unflushed[w] \/ pushed[u] > 0,
             unflushed' = [unflushed EXCEPT ![w] = S] \/ unflushed' = unflushed
      PROVE  /\ unflushed' \in [Client -> SUBSET Url]
             /\ \A v \in Client : \A u \in unflushed'[v] : pushed'[u] > 0
  <2>1. \A u \in Url : pushed[u] > 0 => pushed'[u] > 0
    BY <1>1, <1>2
  <2>2. \A v \in Client : unflushed'[v] = unflushed[v] \/ (v = w /\ unflushed'[v] = S)
    BY <1>1, <1>2
  <2> QED BY <1>1, <1>2, <2>1, <2>2
<1>3. CASE UNCHANGED qvars
  BY <1>1, <1>3 DEF qvars, history
<1>4. CASE QueueNext
  <2>1. PICK w \in Client : CalmStep(w)
    BY <1>1, <1>4, CalmSteps
  <2>2. CASE PushAny(w)
    <3>1. unflushed' = unflushed /\ (pushed' = pushed \/ \E u \in Url : pushed' = [pushed EXCEPT ![u] = @ + 1])
      BY <1>1, <2>2 DEF PushAny, Discover, PushFails, RedisPush, PostgresPush, KafkaFull, KafkaMarkSeen, KafkaWrite,
         KafkaWriteFails, KafkaMirror, history, Enqueued
    <3> QED BY <1>1, <1>2, <3>1
  <2>3. CASE KafkaCommit(w)
    <3>1. pushed' = pushed /\ pop[w].at # "idle"
          /\ (unflushed' = [unflushed EXCEPT ![w] = @ \cup {pop[w].url}] \/ unflushed' = unflushed)
      BY <2>3 DEF KafkaCommit
    <3>2. pop[w].url \in Url /\ pushed[pop[w].url] > 0
      BY <1>1, <3>1, InHand
    <3> QED BY <1>1, <1>2, <3>1, <3>2
  <2>4. CASE RedisPop(w) \/ PostgresPop(w) \/ markVisited(w) \/ KafkaFetch(w) \/ KafkaCount(w)
             \/ consumeSeenTopic(w)
    <3>1. unflushed' = unflushed /\ pushed' = pushed
      BY <2>4 DEF RedisPop, PostgresPop, markVisited, KafkaFetch, KafkaCount, consumeSeenTopic, history
    <3> QED BY <1>1, <1>2, <3>1
  <2>5. CASE Saving(w)
    <3>1. pushed' = pushed /\ (unflushed' = [unflushed EXCEPT ![w] = {}] \/ unflushed' = unflushed)
      BY <2>5 DEF Saving, Flush, RedisSnapshot, RedisItems, PostgresItems, KafkaItems, ReadItems, AllVisited, history
    <3> QED BY <1>1, <1>2, <3>1
  <2>6. CASE Again(w)
    <3>1. PICK u \in Url : /\ pushed' = [pushed EXCEPT ![u] = @ + 1]
                           /\ unflushed' = [unflushed EXCEPT ![w] = @ \ {u}] \/ unflushed' = unflushed
      BY <1>1, <2>6 DEF Again, KafkaWriteUnheard, Redeliver, Enqueued
    <3> QED BY <1>1, <1>2, <3>1
  <2> QED BY <2>1, <2>2, <2>3, <2>4, <2>5, <2>6 DEF CalmStep, PopAny
<1> QED BY <1>3, <1>4

(* HandedOutOnce: popScript and the deletion of a row take the item they     *)
(* hand out; pushScript does not enqueue what is in the seen set.            *)
THEOREM QueueHandsOutOnce == QueueSpec => []HandedOutOnce
<1>1. QueueInv => HandedOutOnce
  <2> SUFFICES ASSUME QueueInv, crashes = 0, NEW u \in Url
               PROVE  /\ popped[u] + CopiesOf(u) <= pushed[u]
                      /\ backend = "redis" => pushed[u] <= 1
    BY DEF HandedOutOnce
  <2>1. CountedOf(u) /\ TypesOK
    BY DEF QueueInv, CalmInv
  <2>2. /\ CopiesOf(u) \in Nat /\ Cardinality(Hand(u)) \in Nat /\ TokensOf(u) = CopiesOf(u) + Cardinality(Hand(u))
        /\ popped[u] \in Nat /\ pushed[u] \in Nat
    BY <2>1, TokensTyped DEF TokensOf, TypesOK
  <2> QED BY <2>1, <2>2 DEF CountedOf
<1> QED BY <1>1, QueueInvariant, PTL

(* LostOnlyByFault: between a process's dedup set, the queue's seen set and  *)
(* the queue itself nothing is dropped, whoever else pushes or pops it.      *)
THEOREM QueueLosesOnlyByFault == QueueSpec => []LostOnlyByFault
<1>1. QueueInv => LostOnlyByFault
  <2> SUFFICES ASSUME QueueInv, crashes = 0, NEW u \in Url, NEW w \in Client, u \in dedup[w]
               PROVE  \/ u \in faulted \/ popped[u] > 0 \/ Contains(store, u)
                      \/ \E v \in Client : u \in {push[v].url, pop[v].url}
    BY DEF LostOnlyByFault
  <2>1. Safe(u) \/ Writing(u) \/ push[w] = At("push", u)
    BY DEF QueueInv, CalmInv, KnownOf
  <2> QED BY <2>1 DEF Safe, Writing, At
<1> QED BY <1>1, QueueInvariant, PTL

(* The abstract frontier.                                                    *)

Com == [u \in Url |-> Sending(u)]
Wai == [u \in Url |-> TokensOf(u)]
Sent == <<dedup, Com, pushed, Wai, popped, faulted>>

(* A process enters the set of those that send u, goes on, or leaves it.     *)
LEMMA SendingMoves ==
  ASSUME TypesOK, NEW w \in Client, NEW u \in Url
  PROVE  /\ push[w] = Idle /\ push' = [push EXCEPT ![w] = At("push", u)] =>
              Com' = [Com EXCEPT ![u] = @ \cup {w}]
         /\ push[w] \in {At("push", u), At("write", u)}
            /\ (push' = [push EXCEPT ![w] = Idle] \/ push' = [push EXCEPT ![w] = At("mirror", u)]) =>
              w \in Com[u] /\ Com' = [Com EXCEPT ![u] = @ \ {w}]
         /\ (\/ push' = push
             \/ push[w] = At("push", u) /\ push' = [push EXCEPT ![w] = At("write", u)]
             \/ push[w] = At("mirror", u) /\ push' = [push EXCEPT ![w] = Idle]) => Com' = Com
<1>1. push \in [Client -> [at : PushPC, url : Url \cup {Null}]] /\ Null \notin Url
  BY QueueAssumption DEF TypesOK
<1>2. /\ \A x \in Url : Com[x] = Sending(x) /\ Com'[x] = Sending(x)'
      /\ DOMAIN Com = Url /\ DOMAIN Com' = Url /\ Com' = [x \in Url |-> Com'[x]]
  BY DEF Com
<1>m. \A x, v : /\ v \in Sending(x) <=> v \in Client /\ (push[v] = At("push", x) \/ push[v] = At("write", x))
                /\ v \in Sending(x)' <=> v \in Client /\ (push'[v] = At("push", x) \/ push'[v] = At("write", x))
  BY DEF Sending, At
<1>3. \A x, y : /\ At("push", x) # At("write", y) /\ At("push", x) # At("mirror", y) /\ At("write", x) # At("mirror", y)
                /\ At("push", x) = At("push", y) <=> x = y
                /\ At("write", x) = At("write", y) <=> x = y
                /\ Idle # At("push", x) /\ Idle # At("write", x)
  BY DEF At, Idle
<1>4. Com = [x \in Url |-> Com[x]] /\ \A x \in Url : Com[x] \subseteq Client /\ Com'[x] \subseteq Client
  BY DEF Com, Sending
<1> HIDE DEF At, Idle, Com, Sending
<1>5. ASSUME push[w] = Idle, push' = [push EXCEPT ![w] = At("push", u)]
      PROVE  Com' = [Com EXCEPT ![u] = @ \cup {w}]
  <2>1. push'[w] = At("push", u) /\ \A v \in Client \ {w} : push'[v] = push[v]
    BY <1>1, <1>5
  <2>2. ASSUME NEW x \in Url PROVE Com'[x] = IF x = u THEN Com[x] \cup {w} ELSE Com[x]
    <3>1. \A v : v \in Sending(x)' <=> v \in Sending(x) \/ (x = u /\ v = w)
      BY <1>m, <1>3, <1>5, <2>1
    <3> QED BY <1>2, <3>1
  <2> QED BY <1>2, <1>4, <2>2
<1>6. ASSUME push[w] \in {At("push", u), At("write", u)},
             push' = [push EXCEPT ![w] = Idle] \/ push' = [push EXCEPT ![w] = At("mirror", u)]
      PROVE  w \in Com[u] /\ Com' = [Com EXCEPT ![u] = @ \ {w}]
  <2>1. push'[w] \in {Idle, At("mirror", u)} /\ \A v \in Client \ {w} : push'[v] = push[v]
    BY <1>1, <1>6
  <2>2. ASSUME NEW x \in Url PROVE Com'[x] = IF x = u THEN Com[x] \ {w} ELSE Com[x]
    <3>1. \A v : v \in Sending(x)' <=> v \in Sending(x) /\ ~(x = u /\ v = w)
      BY <1>m, <1>3, <1>6, <2>1
    <3>2. \A v : v \in Com'[x] <=> v \in Com[x] /\ ~(x = u /\ v = w)
      BY <1>2, <3>1
    <3>3. Com'[x] = Sending(x)' /\ Com[x] = Sending(x)
      BY <1>2
    <3>4. CASE x = u
      BY <3>2, <3>3, <3>4
    <3>5. CASE x # u
      <4>1. \A v : v \in Sending(x)' <=> v \in Sending(x)
        BY <3>1, <3>5
      <4>2. Sending(x)' = Sending(x)
        BY <4>1 DEF Sending
      <4> QED BY <3>3, <3>5, <4>2
    <3> QED BY <3>4, <3>5
  <2>3. w \in Com[u]
    BY <1>m, <1>2, <1>6
  <2> QED BY <1>2, <1>4, <2>2, <2>3
<1>7. ASSUME \/ push' = push
             \/ push[w] = At("push", u) /\ push' = [push EXCEPT ![w] = At("write", u)]
             \/ push[w] = At("mirror", u) /\ push' = [push EXCEPT ![w] = Idle]
      PROVE  Com' = Com
  <2>1. \A v \in Client : \/ push'[v] = push[v]
                          \/ push[v] = At("push", u) /\ push'[v] = At("write", u)
                          \/ push[v] = At("mirror", u) /\ push'[v] = Idle
    BY <1>1, <1>7
  <2>2. ASSUME NEW x \in Url PROVE Com'[x] = Com[x]
    <3>1. \A v : v \in Sending(x)' <=> v \in Sending(x)
      BY <1>m, <1>3, <2>1
    <3>2. Com'[x] \subseteq Com[x] /\ Com[x] \subseteq Com'[x]
      BY <1>2, <3>1
    <3> QED BY <3>2
  <2> QED BY <1>2, <1>4, <2>2
<1> QED BY <1>5, <1>6, <1>7

(* One URL waits once more or once less, or nothing is waited for anew.      *)
LEMMA WaitingMoves ==
  ASSUME TypesOK, NEW u \in Url
  PROVE  /\ (\A x \in Url : TokensOf(x)' = TokensOf(x) + (IF u = x THEN 1 ELSE 0)) =>
              Wai' = [Wai EXCEPT ![u] = @ + 1]
         /\ (\A x \in Url : TokensOf(x) = TokensOf(x)' + (IF u = x THEN 1 ELSE 0) /\ TokensOf(x)' \in Nat) =>
              Wai[u] > 0 /\ Wai' = [Wai EXCEPT ![u] = @ - 1]
         /\ (\A x \in Url : TokensOf(x)' = TokensOf(x)) => Wai' = Wai
<1>1. /\ \A x \in Url : Wai[x] = TokensOf(x) /\ Wai'[x] = TokensOf(x)' /\ TokensOf(x) \in Nat
      /\ Wai = [x \in Url |-> Wai[x]] /\ Wai' = [x \in Url |-> Wai'[x]]
  BY TokensTyped DEF Wai
<1> HIDE DEF Wai
<1>2. ASSUME \A x \in Url : TokensOf(x)' = TokensOf(x) + (IF u = x THEN 1 ELSE 0)
      PROVE  Wai' = [Wai EXCEPT ![u] = @ + 1]
  <2>1. \A x \in Url : Wai'[x] = IF x = u THEN Wai[x] + 1 ELSE Wai[x]
    BY <1>1, <1>2
  <2> QED BY <1>1, <2>1
<1>3. ASSUME \A x \in Url : TokensOf(x) = TokensOf(x)' + (IF u = x THEN 1 ELSE 0) /\ TokensOf(x)' \in Nat
      PROVE  Wai[u] > 0 /\ Wai' = [Wai EXCEPT ![u] = @ - 1]
  <2>1. \A x \in Url : Wai'[x] = IF x = u THEN Wai[x] - 1 ELSE Wai[x]
    BY <1>1, <1>3
  <2>2. Wai[u] > 0
    BY <1>1, <1>3
  <2> QED BY <1>1, <2>1, <2>2
<1>4. (\A x \in Url : TokensOf(x)' = TokensOf(x)) => Wai' = Wai
  BY <1>1
<1> QED BY <1>2, <1>3, <1>4

(* What is safe waits, was handed out or has a failure on record. *)
LEMMA SafeWaits ==
  ASSUME TypesOK, NEW u \in Url, Safe(u)
  PROVE  u \in faulted \/ popped[u] > 0 \/ Wai[u] > 0
<1>1. Wai[u] = TokensOf(u) /\ TokensOf(u) = CopiesOf(u) + Cardinality(Hand(u))
      /\ CopiesOf(u) \in Nat /\ Cardinality(Hand(u)) \in Nat
  BY TokensTyped DEF Wai, TokensOf
<1>2. ASSUME Contains(store, u) PROVE CopiesOf(u) # 0
  <2>1. CopiesOf(u) = Cardinality(Places(store, u)) /\ Places(store, u) # {}
    BY <1>2 DEF CopiesOf, Places, Contains, TypesOK
  <2>2. IsFiniteSet(Places(store, u))
    BY PlacesFinite DEF TypesOK
  <2> QED BY <2>1, <2>2, FS_EmptySet
<1>3. ASSUME NEW v \in Client, pop[v].url = u PROVE Cardinality(Hand(u)) # 0
  <2>1. v \in Hand(u) /\ IsFiniteSet(Hand(u))
    BY <1>3, QueueAssumption, FS_Subset DEF Hand
  <2> QED BY <2>1, FS_EmptySet
<1> QED BY <1>1, <1>2, <1>3 DEF Safe


SharedDo(w, u) == \/ Shared!Find(w, u) \/ Shared!Add(w, u) \/ Shared!Skip(w, u) \/ Shared!Refuse(w, u)

(* A step of a push enters the URL, or is not seen: PushURL of redis.go,     *)
(* postgres.go and kafka.go.                                                 *)
LEMMA SharedPush ==
  ASSUME CalmInv, crashes = 0, NEW w \in Client, PushAny(w)
  PROVE  (\E u \in Url : SharedDo(w, u)) \/ Sent' = Sent
<1> PICK u \in Url : \/ Discover(w, u) \/ PushFails(w, u) \/ RedisPush(w, u) \/ PostgresPush(w, u)
                     \/ KafkaFull(w, u) \/ KafkaMarkSeen(w, u) \/ KafkaWrite(w, u)
                     \/ KafkaWriteFails(w, u) \/ KafkaMirror(w, u)
  BY DEF PushAny
<1>1. TypesOK /\ KnownOf(u) /\ CountedOf(u) /\ pushed \in [Url -> Nat]
  BY DEF CalmInv, TypesOK
<1>2. store' = store /\ pop' = pop => Wai' = Wai
  BY <1>1, TokensDown, WaitingMoves
<1>3. store' = Append(store, u) /\ pop' = pop => Wai' = [Wai EXCEPT ![u] = @ + 1]
  BY <1>1, TokensUp, WaitingMoves
<1>4. pop' = pop /\ popped' = popped
  BY DEF Discover, PushFails, RedisPush, PostgresPush, KafkaFull, KafkaMarkSeen, KafkaWrite, KafkaWriteFails,
     KafkaMirror, history
<1> USE DEF SharedDo, Sent
<1> HIDE DEF Com, Wai
<1>a. CASE Discover(w, u)
  <2>1. /\ push[w] = Idle /\ push' = [push EXCEPT ![w] = At("push", u)] /\ u \notin dedup[w]
        /\ dedup' = [dedup EXCEPT ![w] = @ \cup {u}] /\ UNCHANGED <<store, pushed, faulted>>
    BY <1>a DEF Discover, server, history
  <2>2. Com' = [Com EXCEPT ![u] = @ \cup {w}] /\ Wai' = Wai
    BY <1>1, <1>2, <1>4, <2>1, SendingMoves
  <2> QED BY <1>4, <2>1, <2>2 DEF Shared!Find, Com, Wai
<1>b. CASE PushFails(w, u) \/ KafkaFull(w, u) \/ KafkaWriteFails(w, u)
  <2>1. /\ push[w] \in {At("push", u), At("write", u)} /\ push' = [push EXCEPT ![w] = Idle]
        /\ faulted' = faulted \cup {u} /\ UNCHANGED <<store, dedup, pushed>>
    BY <1>b DEF PushFails, KafkaFull, KafkaWriteFails, Pushing, PushDone, Fails, server, process
  <2>2. w \in Com[u] /\ Com' = [Com EXCEPT ![u] = @ \ {w}] /\ Wai' = Wai
    BY <1>1, <1>2, <1>4, <2>1, SendingMoves
  <2> QED BY <1>4, <2>1, <2>2 DEF Shared!Refuse, Shared!Leaves, Com, Wai
<1>s. ASSUME push[w] = At("push", u), push' = [push EXCEPT ![w] = Idle],
             UNCHANGED <<store, dedup, pushed, faulted>>, Safe(u) \/ Writing(u)
      PROVE  Shared!Skip(w, u)
  <2>1. w \in Com[u] /\ Com' = [Com EXCEPT ![u] = @ \ {w}] /\ Wai' = Wai
    BY <1>1, <1>2, <1>4, <1>s, SendingMoves
  <2>2. Writing(u) => Com[u] # {w}
    <3>1. ASSUME NEW v \in Client, push[v] = At("write", u) PROVE v # w /\ v \in Com[u]
      BY <1>s, <3>1 DEF Com, Sending, At
    <3> QED BY <3>1 DEF Writing
  <2>3. u \in faulted \/ popped[u] > 0 \/ Wai[u] > 0 \/ Com[u] # {w}
    BY <1>1, <1>s, <2>2, SafeWaits
  <2> QED BY <1>4, <1>s, <2>1, <2>3 DEF Shared!Skip, Shared!Leaves, Com, Wai
<1>t. ASSUME push[w] \in {At("push", u), At("write", u)},
             push' = [push EXCEPT ![w] = Idle] \/ push' = [push EXCEPT ![w] = At("mirror", u)],
             store' = Append(store, u), pushed' = [pushed EXCEPT ![u] = @ + 1],
             UNCHANGED <<dedup, faulted>>, backend = "redis" => pushed[u] = 0
      PROVE  Shared!Add(w, u)
  <2>1. w \in Com[u] /\ Com' = [Com EXCEPT ![u] = @ \ {w}] /\ Wai' = [Wai EXCEPT ![u] = @ + 1]
    BY <1>1, <1>3, <1>4, <1>t, SendingMoves
  <2> QED BY <1>4, <1>t, <2>1 DEF Shared!Add, Shared!Leaves, Com, Wai
<1>c. CASE RedisPush(w, u)
  <2>1. /\ backend = "redis" /\ push[w] = At("push", u) /\ push' = [push EXCEPT ![w] = Idle] /\ dedup' = dedup
    BY <1>c DEF RedisPush, IsUsing, Pushing, PushDone, process
  <2>2. CASE u \in seenKey
    <3>1. UNCHANGED <<store, pushed, faulted>>
      BY <1>c, <2>2 DEF RedisPush, server
    <3> QED BY <1>1, <1>s, <2>1, <2>2, <3>1 DEF KnownOf
  <2>3. CASE u \notin seenKey /\ Len(store) >= MaxSize
    <3>1. UNCHANGED <<store, pushed>> /\ faulted' = faulted \cup {u}
      BY <1>c, <2>3 DEF RedisPush, server, Fails
    <3>2. w \in Com[u] /\ Com' = [Com EXCEPT ![u] = @ \ {w}] /\ Wai' = Wai
      BY <1>1, <1>2, <1>4, <2>1, <3>1, SendingMoves
    <3> QED BY <1>4, <2>1, <3>1, <3>2 DEF Shared!Refuse, Shared!Leaves, Com, Wai
  <2>4. CASE u \notin seenKey /\ ~(Len(store) >= MaxSize)
    <3>1. store' = Append(store, u) /\ pushed' = [pushed EXCEPT ![u] = @ + 1] /\ faulted' = faulted
      BY <1>c, <2>4 DEF RedisPush, Enqueued
    <3>2. pushed[u] = 0
      <4>1. popped[u] \in Nat /\ TokensOf(u) \in Nat /\ pushed[u] \in Nat
        BY <1>1, TokensTyped DEF TypesOK
      <4> QED BY <1>1, <2>1, <2>4, <4>1 DEF CountedOf
    <3> QED BY <1>t, <2>1, <3>1, <3>2
  <2> QED BY <2>2, <2>3, <2>4
<1>d. CASE PostgresPush(w, u)
  <2>1. /\ backend = "postgres" /\ push[w] = At("push", u) /\ push' = [push EXCEPT ![w] = Idle]
        /\ UNCHANGED <<dedup, faulted>>
    BY <1>d DEF PostgresPush, IsUsing, Pushing, PushDone, process
  <2>2. CASE Contains(store, u)
    <3>1. UNCHANGED <<store, pushed>> /\ Safe(u)
      BY <1>d, <2>2 DEF PostgresPush, Safe
    <3> QED BY <1>s, <2>1, <3>1
  <2>3. CASE ~Contains(store, u)
    <3>1. store' = Append(store, u) /\ pushed' = [pushed EXCEPT ![u] = @ + 1]
      BY <1>d, <2>3 DEF PostgresPush, Enqueued
    <3> QED BY <1>t, <2>1, <3>1
  <2> QED BY <2>2, <2>3
<1>e. CASE KafkaMarkSeen(w, u)
  <2>1. backend = "kafka" /\ push[w] = At("push", u) /\ UNCHANGED <<store, dedup, pushed, faulted>>
    BY <1>e DEF KafkaMarkSeen, IsUsing, Pushing, process, history
  <2>2. CASE u \in seenSet[w]
    <3>1. push' = [push EXCEPT ![w] = Idle]
      BY <1>e, <2>2 DEF KafkaMarkSeen, PushDone
    <3> QED BY <1>1, <1>s, <2>1, <2>2, <3>1 DEF KnownOf
  <2>3. CASE u \notin seenSet[w]
    <3>1. push' = [push EXCEPT ![w] = At("write", u)]
      BY <1>e, <2>3 DEF KafkaMarkSeen, PushGoes
    <3>2. Com' = Com /\ Wai' = Wai
      BY <1>1, <1>2, <1>4, <2>1, <3>1, SendingMoves
    <3> QED BY <1>4, <2>1, <3>2
  <2> QED BY <2>2, <2>3
<1>f. CASE KafkaWrite(w, u)
  <2>1. /\ backend = "kafka" /\ push[w] = At("write", u) /\ push' = [push EXCEPT ![w] = At("mirror", u)]
        /\ store' = Append(store, u) /\ pushed' = [pushed EXCEPT ![u] = @ + 1] /\ UNCHANGED <<dedup, faulted>>
    BY <1>f DEF KafkaWrite, IsUsing, Pushing, PushGoes, Enqueued, process
  <2> QED BY <1>t, <2>1
<1>g. CASE KafkaMirror(w, u)
  <2>1. /\ push[w] = At("mirror", u) /\ push' = [push EXCEPT ![w] = Idle]
        /\ UNCHANGED <<store, dedup, pushed, faulted>>
    BY <1>g DEF KafkaMirror, Pushing, PushDone, server, process, history
  <2>2. Com' = Com /\ Wai' = Wai
    BY <1>1, <1>2, <1>4, <2>1, SendingMoves
  <2> QED BY <1>4, <2>1, <2>2
<1> QED BY <1>a, <1>b, <1>c, <1>d, <1>e, <1>f, <1>g

(* A step of a pop gives, loses or is not seen: PopURL. *)
LEMMA SharedPop ==
  ASSUME CalmInv, crashes = 0, NEW w \in Client, PopAny(w) \/ consumeSeenTopic(w) \/ Saving(w)
  PROVE  (\E u \in Url : Shared!Give(u) \/ Shared!Lose(u)) \/ Sent' = Sent
<1>1. /\ TypesOK /\ popped \in [Url -> Nat]
      /\ pop[w].at # "idle" => pop[w].url \in Url
      /\ store # <<>> => Head(store) \in Url
  BY ContainsMoves DEF CalmInv, TypesOK
<1>2. UNCHANGED <<dedup, push, pushed>>
  BY SavingKeeps DEF PopAny, RedisPop, PostgresPop, markVisited, KafkaFetch, KafkaCommit, KafkaCount,
     consumeSeenTopic, process, history
<1>3. Com' = Com
  BY <1>2 DEF Com, Sending, At
<1> USE DEF Sent
<1> HIDE DEF Com, Wai
<1>g. ASSUME NEW u \in Url,
             \A x \in Url : TokensOf(x) = TokensOf(x)' + (IF u = x THEN 1 ELSE 0) /\ TokensOf(x)' \in Nat
      PROVE  /\ HandedOut(u) /\ faulted' = faulted => Shared!Give(u)
             /\ Fails(u) /\ popped' = popped => Shared!Lose(u)
  <2>1. Wai[u] > 0 /\ Wai' = [Wai EXCEPT ![u] = @ - 1]
    BY <1>1, <1>g, WaitingMoves
  <2> QED BY <1>2, <1>3, <2>1 DEF HandedOut, Fails, Shared!Give, Shared!Lose, Shared!Goes, Com, Wai
<1>s. ASSUME UNCHANGED <<popped, faulted>>, \A x \in Url : TokensOf(x)' = TokensOf(x) PROVE Sent' = Sent
  <2>1. CASE Url = {}
    BY <1>2, <1>3, <1>s, <2>1 DEF Wai
  <2>2. CASE \E u \in Url : TRUE
    <3>1. Wai' = Wai
      BY <1>1, <1>s, <2>2, WaitingMoves
    <3> QED BY <1>2, <1>3, <1>s, <3>1
  <2> QED BY <2>1, <2>2
<1>a. CASE RedisPop(w)
  <2>1. /\ store # <<>> /\ store' = Tail(store) /\ pop' = pop
        /\ \/ HandedOut(Head(store)) /\ UNCHANGED faulted
           \/ Fails(Head(store)) /\ UNCHANGED popped
    BY <1>a DEF RedisPop
  <2>2. \A x \in Url : TokensOf(x) = TokensOf(x)' + (IF Head(store) = x THEN 1 ELSE 0) /\ TokensOf(x)' \in Nat
    BY <1>1, <2>1, TokensHead
  <2> QED BY <1>1, <1>g, <2>1, <2>2
<1>p. CASE PostgresPop(w) /\ Fails(Head(store)) /\ UNCHANGED pop
  <2>1. /\ store # <<>> /\ store' = Tail(store) /\ pop' = pop /\ Fails(Head(store)) /\ UNCHANGED popped
    BY <1>p DEF PostgresPop
  <2>2. \A x \in Url : TokensOf(x) = TokensOf(x)' + (IF Head(store) = x THEN 1 ELSE 0) /\ TokensOf(x)' \in Nat
    BY <1>1, <2>1, TokensHead
  <2> QED BY <1>1, <1>g, <2>1, <2>2
<1>b. CASE KafkaFetch(w) \/ (PostgresPop(w) /\ PopGoes(w, "mark", Head(store)) /\ UNCHANGED faulted)
  <2>1. /\ store # <<>> /\ store' = Tail(store) /\ pop[w] = Idle
        /\ \E l : pop' = [pop EXCEPT ![w] = At(l, Head(store))]
        /\ UNCHANGED <<popped, faulted>>
    BY <1>b DEF PostgresPop, KafkaFetch, PopGoes, history
  <2>2. \A x \in Url : TokensOf(x)' = TokensOf(x)
    BY <1>1, <2>1, TokensHead
  <2> QED BY <1>s, <2>1, <2>2
<1>c. CASE markVisited(w) \/ KafkaCount(w)
  <2>1. /\ store' = store /\ pop' = [pop EXCEPT ![w] = Idle] /\ pop[w].url \in Url
        /\ HandedOut(pop[w].url) /\ faulted' = faulted
    BY <1>1, <1>c DEF markVisited, KafkaCount, PopDone, server
  <2>2. \A x \in Url : TokensOf(x) = TokensOf(x)' + (IF pop[w].url = x THEN 1 ELSE 0) /\ TokensOf(x)' \in Nat
    BY <1>1, <2>1, TokensDown
  <2> QED BY <1>g, <2>1, <2>2
<1>d. CASE KafkaCommit(w)
  <2>1. /\ store' = store /\ popped' = popped /\ pop[w].url \in Url
        /\ \/ PopGoes(w, "count", pop[w].url) /\ UNCHANGED faulted
           \/ PopDone(w) /\ Fails(pop[w].url)
    BY <1>1, <1>d DEF KafkaCommit, server
  <2>2. CASE PopGoes(w, "count", pop[w].url) /\ UNCHANGED faulted
    <3>1. \A x \in Url : TokensOf(x)' = TokensOf(x)
      BY <1>1, <2>1, <2>2, TokensDown DEF PopGoes
    <3> QED BY <1>s, <2>1, <2>2, <3>1
  <2>3. CASE PopDone(w) /\ Fails(pop[w].url)
    <3>1. \A x \in Url : TokensOf(x) = TokensOf(x)' + (IF pop[w].url = x THEN 1 ELSE 0) /\ TokensOf(x)' \in Nat
      BY <1>1, <2>1, <2>3, TokensDown DEF PopDone
    <3> QED BY <1>g, <2>1, <2>3, <3>1
  <2> QED BY <2>1, <2>2, <2>3
<1>e. CASE consumeSeenTopic(w) \/ Saving(w)
  <2>1. UNCHANGED <<store, pop, popped, faulted>>
    BY <1>e, SavingKeeps DEF consumeSeenTopic, server, history
  <2>2. \A x \in Url : TokensOf(x)' = TokensOf(x)
    BY <1>1, <2>1, TokensDown
  <2> QED BY <1>s, <2>1, <2>2
<1>q. PostgresPop(w) => \/ PopGoes(w, "mark", Head(store)) /\ UNCHANGED faulted
                        \/ Fails(Head(store)) /\ UNCHANGED pop
  BY DEF PostgresPop
<1> QED BY <1>a, <1>b, <1>c, <1>d, <1>e, <1>p, <1>q DEF PopAny

(* A message of Kafka that comes again: the write of it goes on, has ended or is long past. *)
LEMMA SharedAgain ==
  ASSUME CalmInv, FlownInv, crashes = 0, NEW w \in Client, Again(w)
  PROVE  \E u \in Url : Shared!Add(w, u) \/ Shared!Repeat(u)
<1>1. TypesOK /\ OncePerProcess
  BY DEF CalmInv
<1>2. PICK u \in Url : /\ store' = Append(store, u) /\ pushed' = [pushed EXCEPT ![u] = @ + 1]
                       /\ faulted' = faulted \cup {u} /\ backend = "kafka" /\ UNCHANGED <<backend, pop, popped, dedup>>
                       /\ \/ push' = push /\ (Redeliver(w, u) \/ push[w] = At("write", u))
                          \/ push[w] = At("write", u) /\ push' = [push EXCEPT ![w] = Idle]
  BY <1>1, TypesAgain
<1>3. Wai' = [Wai EXCEPT ![u] = @ + 1]
  BY <1>1, <1>2, TokensUp, WaitingMoves
<1> HIDE DEF Com, Wai
<1>4. CASE push[w] = At("write", u) /\ push' = [push EXCEPT ![w] = Idle]
  <2>1. w \in Com[u] /\ Com' = [Com EXCEPT ![u] = @ \ {w}]
    BY <1>1, <1>4, SendingMoves
  <2> QED BY <1>2, <1>3, <2>1 DEF Shared!Add, Shared!Leaves, Com, Wai
<1>5. CASE push' = push
  <2>1. Com' = Com
    BY <1>1, <1>5, SendingMoves
  <2>2. CASE push[w] = At("write", u)
    <3>1. w \in Com[u]
      BY <2>2 DEF Com, Sending
    <3> QED BY <1>2, <1>3, <2>1, <3>1 DEF Shared!Repeat, Com, Wai
  <2>3. CASE Redeliver(w, u)
    <3>1. pushed[u] > 0
      <4>1. u \in unflushed[w] \/ (pop[w].at = "commit" /\ u = pop[w].url)
        BY <2>3 DEF Redeliver, Uncommitted
      <4> QED BY <4>1, InHand DEF FlownInv
    <3> QED BY <1>2, <1>3, <2>1, <3>1 DEF Shared!Repeat, Com, Wai
  <2>4. push[w] = At("write", u) \/ Redeliver(w, u)
    <3>1. push[w] = At("write", u) => push'[w] # Idle \/ push' # push
      BY DEF At, Idle
    <3> QED BY <1>2
  <2> QED BY <2>2, <2>3, <2>4
<1> QED BY <1>2, <1>4, <1>5

(* ImplementsSharedFrontier: with each backend, whatever the steps of a push *)
(* and a pop are, the queue is a shared frontier until a process dies        *)
(* (queue/redis.go, postgres.go, kafka.go).                                  *)
THEOREM QueueImplementsSharedFrontier == QueueSpec => ImplementsSharedFrontier
<1>1. QueueInit => Shared!SharedInit
  <2> SUFFICES ASSUME QueueInit PROVE Shared!SharedInit
    OBVIOUS
  <2>1. CalmInv /\ TypesOK
    BY QueueStart DEF QueueInv, QueueInit, CalmInv
  <2>2. \A u \in Url : Sending(u) = {}
    BY DEF QueueInit, Sending, Idle, At
  <2>3. ASSUME NEW u \in Url PROVE TokensOf(u) = 0
    <3>1. popped[u] + TokensOf(u) <= pushed[u] /\ popped[u] = 0 /\ pushed[u] = 0 /\ TokensOf(u) \in Nat
      BY <2>1, TokensTyped DEF CalmInv, CountedOf, QueueInit
    <3> QED BY <3>1
  <2> QED BY <2>2, <2>3 DEF QueueInit, Shared!SharedInit
<1>2. QueueInv /\ FlownInv /\ [QueueNext]_qvars => [Shared!SharedNext]_(Shared!sfvars)
  <2> SUFFICES ASSUME QueueInv, FlownInv, [QueueNext]_qvars, crashes' = 0
               PROVE  [Shared!SharedNext]_(Shared!sfvars)
    BY DEF Shared!SharedNext
  <2>1. crashes = 0 /\ CalmInv /\ TypesOK /\ backend' = backend
    BY Counters DEF QueueInv, CalmInv
  <2>s. (\E u \in Url : \/ Shared!Give(u) \/ Shared!Lose(u) \/ Shared!Repeat(u) \/ \E w \in Client : SharedDo(w, u)) =>
          Shared!SharedNext
    BY <2>1 DEF Shared!SharedNext, Shared!SharedStep, SharedDo
  <2>u. Sent' = Sent => UNCHANGED Shared!sfvars
    BY <2>1 DEF Shared!sfvars, Sent, Com, Wai
  <2>2. CASE UNCHANGED qvars
    <3>1. UNCHANGED <<store, dedup, push, pop, pushed, popped, faulted>>
      BY <2>2 DEF qvars, server, process, history
    <3>2. Sent' = Sent
      BY <3>1 DEF Sent, Com, Wai, Sending, At, TokensOf, Hand, CopiesOf
    <3> QED BY <2>u, <3>2
  <2>3. CASE QueueNext
    <3>1. PICK w \in Client : CalmStep(w)
      BY <2>1, <2>3, CalmSteps
    <3>2. CASE PushAny(w)
      BY <2>1, <2>s, <2>u, <3>2, SharedPush
    <3>3. CASE PopAny(w) \/ consumeSeenTopic(w) \/ Saving(w)
      BY <2>1, <2>s, <2>u, <3>3, SharedPop
    <3>4. CASE Again(w)
      BY <2>1, <2>s, <3>4, SharedAgain DEF SharedDo
    <3> QED BY <3>1, <3>2, <3>3, <3>4 DEF CalmStep
  <2> QED BY <2>2, <2>3
<1>3. QueueInit => FlownInv
  BY DEF QueueInit, FlownInv
<1> QED BY <1>1, <1>2, <1>3, FlownStep, QueueInvariant, PTL DEF QueueSpec, ImplementsSharedFrontier, Shared!SharedSpec

(* What the hash of Redis has, is about to have, or has lost to a load.      *)
Hashed == items \cup unhashed \cup UNION {Hashing(w) : w \in Client}

HashInv == /\ DOMAIN life = Client /\ DOMAIN plan = Client
           /\ backend = "redis" => store \in Seq(Hashed)

(* The load of one process goes on, and those of the others stay. *)
LEMMA HashingMoves ==
  ASSUME HashInv, NEW w \in Client,
         life' = life \/ \E l : life' = [life EXCEPT ![w] = l], plan' = plan \/ \E p : plan' = [plan EXCEPT ![w] = p],
         items \cup unhashed \subseteq items' \cup unhashed',
         Hashing(w) \subseteq items' \cup unhashed' \cup Hashing(w)'
  PROVE  Hashed \subseteq Hashed' /\ DOMAIN life' = Client /\ DOMAIN plan' = Client
<1>1. /\ DOMAIN life' = Client /\ DOMAIN plan' = Client
      /\ \A v \in Client \ {w} : life'[v] = life[v] /\ plan'[v] = plan[v]
  BY DEF HashInv
<1>2. \A v \in Client : Hashing(v) \subseteq items' \cup unhashed' \cup Hashing(v)'
  BY <1>1 DEF Hashing
<1> HIDE DEF Hashing
<1> QED BY <1>1, <1>2 DEF Hashed

(* pushScript writes the hash with the list, a load after it, and only a DEL *)
(* removes fields.                                                           *)
LEMMA HashStep == HashInv /\ [QueueNext]_qvars => HashInv'
<1> SUFFICES ASSUME HashInv, [QueueNext]_qvars PROVE HashInv'
  OBVIOUS
<1>1. backend' = backend /\ DOMAIN life = Client /\ DOMAIN plan = Client
  BY Counters DEF HashInv
<1>2. ASSUME Hashed \subseteq Hashed', DOMAIN life' = Client, DOMAIN plan' = Client,
             backend = "redis" => \/ store' = store \/ (store # <<>> /\ store' = Tail(store))
                                  \/ \E x \in Hashed' : store' = Append(store, x)
      PROVE  HashInv'
  <2>1. ASSUME backend = "redis" PROVE store' \in Seq(Hashed')
    <3>1. store \in Seq(Hashed')
      BY <1>2, <2>1 DEF HashInv
    <3>2. (\A x \in Hashed' : Append(store, x) \in Seq(Hashed')) /\ (store # <<>> => Tail(store) \in Seq(Hashed'))
      BY <3>1, MovesTyped
    <3> QED BY <1>2, <2>1, <3>1, <3>2
  <2> QED BY <1>1, <1>2, <2>1 DEF HashInv
<1>3. ASSUME UNCHANGED <<life, plan, unhashed>>, items' = items \/ \E x : items' = items \cup {x}
      PROVE  Hashed \subseteq Hashed'
  BY <1>3 DEF Hashed, Hashing
<1>4. ASSUME NEW w \in Client, PushAny(w) PROVE HashInv'
  <2> PICK u \in Url : \/ Discover(w, u) \/ PushFails(w, u) \/ RedisPush(w, u) \/ PostgresPush(w, u)
                       \/ KafkaFull(w, u) \/ KafkaMarkSeen(w, u) \/ KafkaWrite(w, u)
                       \/ KafkaWriteFails(w, u) \/ KafkaMirror(w, u)
    BY <1>4 DEF PushAny
  <2>1. UNCHANGED <<life, plan, unhashed>> /\ (items' = items \/ items' = items \cup {u})
    BY DEF Discover, PushFails, RedisPush, PostgresPush, KafkaFull, KafkaMarkSeen, KafkaWrite, KafkaWriteFails,
       KafkaMirror, process, checkpoint, server
  <2>2. backend = "redis" => store' = store \/ (store' = Append(store, u) /\ items' = items \cup {u})
    BY DEF Discover, PushFails, RedisPush, PostgresPush, KafkaFull, KafkaMarkSeen, KafkaWrite, KafkaWriteFails,
       KafkaMirror, IsUsing, server
  <2>3. items' = items \cup {u} => u \in Hashed'
    BY DEF Hashed
  <2> QED BY <1>1, <1>2, <1>3, <2>1, <2>2, <2>3
<1>5. ASSUME NEW w \in Client, PopAny(w) PROVE HashInv'
  <2>1. UNCHANGED <<life, plan, unhashed, items>>
    BY <1>5 DEF PopAny, RedisPop, PostgresPop, markVisited, KafkaFetch, KafkaCommit, KafkaCount, process, checkpoint,
       server
  <2>2. backend = "redis" => store # <<>> /\ store' = Tail(store)
    BY <1>5 DEF PopAny, RedisPop, PostgresPop, markVisited, KafkaFetch, KafkaCommit, KafkaCount, IsUsing
  <2> QED BY <1>1, <1>2, <1>3, <2>1, <2>2
<1>6. ASSUME NEW w \in Client, consumeSeenTopic(w) \/ Saving(w) \/ Again(w) \/ StartAfresh(w) PROVE HashInv'
  <2>1. UNCHANGED <<plan, unhashed, items>> /\ (backend = "redis" => store' = store)
    BY <1>6, SavingKeeps DEF consumeSeenTopic, Again, KafkaWriteUnheard, Redeliver, StartAfresh, IsUsing, server, process,
       checkpoint
  <2>2. life' = life \/ (life[w] = "down" /\ life' = [life EXCEPT ![w] = "run"])
    BY <1>6, SavingKeeps DEF consumeSeenTopic, Again, KafkaWriteUnheard, Redeliver, StartAfresh, process
  <2>3. Hashing(w) = {} \/ life' = life
    BY <2>2 DEF Hashing
  <2>4. Hashing(w) \subseteq items' \cup unhashed' \cup Hashing(w)'
    BY <2>1, <2>3 DEF Hashing
  <2> QED BY <1>2, <2>1, <2>2, <2>4, HashingMoves
<1>7. ASSUME NEW w \in Client, Crash(w) PROVE HashInv'
  <2>1. /\ life' = [life EXCEPT ![w] = "down"] /\ plan' = [plan EXCEPT ![w] = <<>>] /\ items' = items
        /\ unhashed' = unhashed \cup Hashing(w) /\ (backend = "redis" => store' = store)
    BY <1>7 DEF Crash
  <2> QED BY <1>2, <2>1, HashingMoves
<1>8. ASSUME NEW w \in Client, RedisRestart(w) PROVE HashInv'
  <2>1. \E p : life' = [life EXCEPT ![w] = "load"] /\ plan' = [plan EXCEPT ![w] = p]
    BY <1>8 DEF RedisRestart, Restart
  <2>2. CASE store' = <<>>
    <3>1. store' \in Seq(Hashed')
      BY <2>2
    <3> QED BY <1>1, <2>1, <3>1 DEF HashInv
  <2>3. CASE UNCHANGED <<store, items, seenKey>> /\ unhashed' = unhashed \cup Hashing(w)
    BY <1>2, <2>1, <2>3, HashingMoves
  <2> QED BY <1>8, <2>2, <2>3 DEF RedisRestart
<1>9. ASSUME NEW w \in Client, RedisLoadItem(w) PROVE HashInv'
  <2>1. /\ life[w] = "load" /\ life' = [life EXCEPT ![w] = "hash"] /\ UNCHANGED <<items, plan, unhashed>>
        /\ store' = store \/ store' = Append(store, Head(plan[w]))
    BY <1>9 DEF RedisLoadItem, Loading, checkpoint
  <2>2. Hashing(w) = {} /\ Hashing(w)' = {Head(plan[w])}
    BY <1>1, <2>1 DEF Hashing
  <2>3. Head(plan[w]) \in Hashed'
    BY <2>2 DEF Hashed
  <2> QED BY <1>2, <2>1, <2>2, <2>3, HashingMoves
<1>10. ASSUME NEW w \in Client, RedisLoadHash(w) PROVE HashInv'
  <2>1. /\ life' = [life EXCEPT ![w] = "load"] /\ plan' = [plan EXCEPT ![w] = Tail(plan[w])] /\ store' = store
        /\ \/ items' = items \cup Hashing(w) /\ unhashed' = unhashed
           \/ unhashed' = unhashed \cup Hashing(w) /\ items' = items
    BY <1>10 DEF RedisLoadHash
  <2> QED BY <1>2, <2>1, HashingMoves
<1>11. ASSUME NEW w \in Client, RedisLoadVisited(w) PROVE HashInv'
  <2>1. /\ life[w] = "load" /\ UNCHANGED <<store, items, plan, unhashed>> /\ \E l : life' = [life EXCEPT ![w] = l]
    BY <1>11 DEF RedisLoadVisited, Loading, checkpoint
  <2>2. Hashing(w) = {}
    BY <2>1 DEF Hashing
  <2> QED BY <1>2, <2>1, <2>2, HashingMoves
<1>12. ASSUME NEW w \in Client,
              PostgresRestart(w) \/ KafkaRestart(w) \/ KafkaLoadItem(w) \/ KafkaLoadVisited(w) PROVE HashInv'
  <2>1. backend # "redis" /\ DOMAIN life' = Client /\ DOMAIN plan' = Client
    BY <1>1, <1>12 DEF PostgresRestart, KafkaRestart, KafkaLoadItem, KafkaLoadVisited, Restart, Loading, checkpoint
  <2> QED BY <1>1, <2>1 DEF HashInv
<1>13. CASE UNCHANGED qvars
  <2>1. UNCHANGED <<life, plan, unhashed, items, store>>
    BY <1>13 DEF qvars, process, checkpoint, server
  <2> QED BY <1>1, <1>2, <1>3, <2>1
<1> QED BY <1>4, <1>5, <1>6, <1>7, <1>8, <1>9, <1>10, <1>11, <1>12, <1>13 DEF QueueNext, Saving

(* CheckpointCoversQueue: what a process saves at any time has what is       *)
(* queued, but for what a load or a write of Kafka left half done            *)
(* (queue/redis.go LoadFromCheckpoint, kafka.go PushURL).                    *)
THEOREM QueueCheckpointCovers == QueueSpec => []CheckpointCoversQueue
<1>1. QueueInit => HashInv
  BY DEF QueueInit, HashInv
<1>2. QueueSpec => []HashInv
  BY <1>1, HashStep, PTL DEF QueueSpec
<1>3. QueueInv /\ HashInv => CheckpointCoversQueue
  <2> SUFFICES ASSUME QueueInv, HashInv, NEW u \in ToSet(store)
               PROVE  /\ backend = "redis" => u \in Hashed
                      /\ backend = "kafka" /\ crashes = 0 =>
                           u \in faulted \/ \E w \in Client : u \in pendingSet[w] \cup {push[w].url}
    BY DEF CheckpointCoversQueue, Hashed
  <2>1. PICK i \in DOMAIN store : store[i] = u
    BY DEF ToSet
  <2>2. backend = "redis" => u \in Hashed
    <3> HIDE DEF Hashed
    <3> QED BY <2>1 DEF HashInv
  <2>3. ASSUME backend = "kafka", crashes = 0, u \notin faulted
        PROVE  \E w \in Client : u \in pendingSet[w] \cup {push[w].url}
    <3>1. TypesOK /\ u \in Url
      BY <2>1, <2>3 DEF QueueInv, CalmInv, TypesOK
    <3>2. TokensOf(u) <= Cardinality(Covering(u))
      BY <2>3, <3>1 DEF QueueInv, CalmInv, CountedOf
    <3>3. /\ CopiesOf(u) \in Nat /\ Cardinality(Hand(u)) \in Nat /\ TokensOf(u) = CopiesOf(u) + Cardinality(Hand(u))
          /\ Cardinality(Covering(u)) \in Nat
      BY <3>1, TokensTyped DEF TokensOf
    <3>4. CopiesOf(u) # 0
      <4>1. CopiesOf(u) = Cardinality(Places(store, u)) /\ i \in Places(store, u)
        BY <2>1 DEF CopiesOf, Places
      <4>2. IsFiniteSet(Places(store, u))
        BY <3>1, PlacesFinite DEF TypesOK
      <4> QED BY <4>1, <4>2, FS_EmptySet
    <3>5. Cardinality(Covering(u)) # 0
      BY <3>2, <3>3, <3>4
    <3>6. Covering(u) # {}
      BY <3>5, FS_EmptySet
    <3> QED BY <3>6 DEF Covering, At
  <2> QED BY <2>2, <2>3
<1> QED BY <1>2, <1>3, QueueInvariant, PTL

-----------------------------------------------------------------------------
(* The lock files. *)

(* The lock of a file is with the process that is past Flock on it, or has   *)
(* recorded it and has not yet given it back.                                *)
LockOwned ==
  \A p \in Process :
    /\ pc[p] \in {"truncate", "write", "record"} => flock[fd[p]] = p
    /\ held[p] # Nil /\ pc[p] # "remove" => flock[held[p]] = p
    /\ held[p] # Nil => pc[p] \in {"idle", "lead", "remove"}

(* As long as nobody removes the name, there is one file. *)
OneFile ==
  ~removed =>
    \A p \in Process : /\ fd[p] # Nil => fd[p] = name
                       /\ held[p] # Nil => held[p] = name

(* Only the process that wrote its ID, and keeps the lock it then had, finds *)
(* that ID in the file.                                                      *)
OwnID ==
  ~removed =>
    \A p \in Process :
      name # Nil /\ content[name] = p /\ phase[p] = "run" =>
        pc[p] = "record" \/ held[p] # Nil

(* A leader at work has the lock; what a process does follows its phase. *)
LeaderHolds ==
  \A p \in Process :
    /\ pc[p] = "lead" => held[p] # Nil
    /\ pc[p] = "remove" => phase[p] = "stopping"
    /\ phase[p] = "new" => leaderID[p] = Nil /\ \A f \in File : content[f] # p
    /\ phase[p] \in {"new", "dead"} => pc[p] = "idle"
    /\ ~removed /\ phase[p] = "run" /\ IsLeader(p) => held[p] # Nil

CoordinatorInv == CoordinatorTypeOK /\ LockOwned /\ OneFile /\ OwnID /\ LeaderHolds

LEMMA InitInv == ASSUME CoordinatorInit PROVE CoordinatorInv
<1> USE FileCoordinatorAssumption DEF CoordinatorInit
<1>1. CoordinatorTypeOK BY DEF CoordinatorTypeOK
<1>2. LockOwned /\ OneFile /\ OwnID BY DEF LockOwned, OneFile, OwnID
<1>3. LeaderHolds BY DEF LeaderHolds, IsLeader
<1> QED BY <1>1, <1>2, <1>3 DEF CoordinatorInv

LEMMA NextInv == ASSUME CoordinatorInv, [CoordinatorNext]_cvars PROVE CoordinatorInv'
<1> USE FileCoordinatorAssumption
    DEF CoordinatorInv, CoordinatorTypeOK, LockOwned, OneFile, OwnID, LeaderHolds, IsLeader,
        Beat, Alive, files
<1>1. ASSUME NEW p \in Process, StartCoordinator(p) PROVE CoordinatorInv'
  BY <1>1 DEF StartCoordinator
<1>2. ASSUME NEW p \in Process, TickHeld(p) PROVE CoordinatorInv'
  BY <1>2 DEF TickHeld
<1>3. ASSUME NEW p \in Process, TickFree(p) PROVE CoordinatorInv'
  BY <1>3 DEF TickFree
<1>4. ASSUME NEW p \in Process, OpenFails(p) PROVE CoordinatorInv'
  BY <1>4 DEF OpenFails
<1>5. ASSUME NEW p \in Process, NEW f \in File, Open(p, f) PROVE CoordinatorInv'
  BY <1>5 DEF Open, Fresh
<1>6. ASSUME NEW p \in Process, Flock(p) PROVE CoordinatorInv'
  BY <1>6 DEF Flock
<1>7. ASSUME NEW p \in Process, WouldBlock(p) PROVE CoordinatorInv'
  BY <1>7 DEF WouldBlock
<1>8. ASSUME NEW p \in Process, Truncate(p) PROVE CoordinatorInv'
  BY <1>8 DEF Truncate
<1>9. ASSUME NEW p \in Process, WriteFails(p) PROVE CoordinatorInv'
  BY <1>9 DEF WriteFails
<1>10. ASSUME NEW p \in Process, Write(p) PROVE CoordinatorInv'
  BY <1>10 DEF Write
<1>11. ASSUME NEW p \in Process, Record(p) PROVE CoordinatorInv'
  BY <1>11 DEF Record
<1>12. ASSUME NEW p \in Process, Lead(p) PROVE CoordinatorInv'
  BY <1>12 DEF Lead
<1>13. ASSUME NEW p \in Process, Follow(p) PROVE CoordinatorInv'
  BY <1>13 DEF Follow
<1>14. ASSUME NEW p \in Process, Cancel(p) PROVE CoordinatorInv'
  BY <1>14 DEF Cancel
<1>15. ASSUME NEW p \in Process, CloseStopCh(p) PROVE CoordinatorInv'
  BY <1>15 DEF CloseStopCh
<1>16. ASSUME NEW p \in Process, Unlock(p) PROVE CoordinatorInv'
  BY <1>16 DEF Unlock
<1>17. ASSUME NEW p \in Process, RemoveName(p) PROVE CoordinatorInv'
  <2>1. CoordinatorTypeOK'
    <3>1. CASE held[p] = Nil BY <1>17, <3>1 DEF RemoveName
    <3>2. CASE held[p] # Nil BY <1>17, <3>2 DEF RemoveName
    <3> QED BY <3>1, <3>2
  <2>2. LockOwned' BY <1>17 DEF RemoveName
  <2>3. OneFile' /\ OwnID' BY <1>17 DEF RemoveName
  <2>4. LeaderHolds' BY <1>17 DEF RemoveName
  <2> QED BY <2>1, <2>2, <2>3, <2>4
<1>18. ASSUME NEW p \in Process, Die(p) PROVE CoordinatorInv'
  BY <1>18 DEF Die
<1>19. ASSUME NEW p \in Process, FlockFails(p) PROVE CoordinatorInv'
  BY <1>19 DEF FlockFails
<1>20. CASE UNCHANGED cvars
  BY <1>20 DEF cvars
<1> QED
  BY <1>1, <1>2, <1>3, <1>4, <1>5, <1>6, <1>7, <1>8, <1>9, <1>10, <1>11, <1>12, <1>13, <1>14,
     <1>15, <1>16, <1>17, <1>18, <1>19, <1>20
  DEF CoordinatorNext, Heartbeat, Shutdown, AllDead

THEOREM CoordinatorInvariant == CoordinatorSpec => []CoordinatorInv
<1>1. CoordinatorInit => CoordinatorInv BY InitInv
<1>2. CoordinatorInv /\ [CoordinatorNext]_cvars => CoordinatorInv' BY NextInv
<1> QED BY <1>1, <1>2, PTL DEF CoordinatorSpec

(* checkLeader elects at most one leader among any number of processes, as   *)
(* long as none of them removes the name of the lock file.                   *)
THEOREM CoordinatorOneLeader == CoordinatorSpec => []OneLeaderByLock
<1>1. CoordinatorInv => OneLeaderByLock
  BY FileCoordinatorAssumption
  DEF CoordinatorInv, CoordinatorTypeOK, LockOwned, OneFile, LeaderHolds, OneLeaderByLock, Working
<1> QED BY <1>1, CoordinatorInvariant, PTL

(* Every variable keeps its type, and no path of AcquireLock leaks a file. *)
THEOREM CoordinatorTypes == CoordinatorSpec => []CoordinatorTypeOK
<1>1. CoordinatorInv => CoordinatorTypeOK BY DEF CoordinatorInv
<1> QED BY <1>1, CoordinatorInvariant, PTL

-----------------------------------------------------------------------------
(* The locks in Redis. *)

LockTypes ==
  /\ lock \in Member \cup {Nobody} /\ lockKeys \subseteq Member
  /\ rphase \in [Member -> {"new", "run", "stopping", "releasing", "stopped", "dead"}]
  /\ call \in [Member -> {"idle", "acquired", "release"}]

(* A call that has set the key still has it, unless it has been lost since,  *)
(* and is the worker's only one; a worker whose release is under way has     *)
(* forgotten the key; the calls end before Stop goes on.                     *)
CallOf(p) ==
  /\ call[p] = "acquired" => p \notin lockKeys /\ (lock = p \/ p \in lapsed)
  /\ call[p] = "release" => p \notin lockKeys
  /\ rphase[p] \notin {"run", "stopping"} => call[p] = "idle"
  /\ rphase[p] \in {"new", "dead"} => p \notin lockKeys

LockInv == LockTypes /\ LockExclusive /\ \A p \in Member : CallOf(p)

(* Locking, deregistering and dying: what one worker does to the lock. *)
LEMMA LockMoves ==
  ASSUME LockInv, NEW p \in Member,
         \/ AcquireLock(p) \/ AcquireUnheard(p) \/ AcquireNote(p) \/ ReleaseLock(p)
         \/ ReleaseInternal(p) \/ LateScript(p) \/ RedisDeregister(p) \/ RedisDie(p)
  PROVE  LockInv'
<1>1. CASE AcquireLock(p) \/ AcquireUnheard(p)
  BY <1>1, RedisCoordinatorAssumption
     DEF LockInv, LockTypes, LockExclusive, CallOf, AcquireLock, AcquireUnheard, SetsLock, election
<1>2. CASE AcquireNote(p)
  BY <1>2, RedisCoordinatorAssumption
     DEF LockInv, LockTypes, LockExclusive, CallOf, AcquireNote, election
<1>3. CASE ReleaseLock(p)
  BY <1>3, RedisCoordinatorAssumption
     DEF LockInv, LockTypes, LockExclusive, CallOf, ReleaseLock, election
<1>4. CASE ReleaseInternal(p)
  BY <1>4, RedisCoordinatorAssumption
     DEF LockInv, LockTypes, LockExclusive, CallOf, ReleaseInternal, Script, Deletes, election
<1>5. CASE LateScript(p)
  BY <1>5, RedisCoordinatorAssumption
     DEF LockInv, LockTypes, LockExclusive, CallOf, LateScript, Deletes, election
<1>6. CASE RedisDeregister(p)
  BY <1>6, RedisCoordinatorAssumption
     DEF LockInv, LockTypes, LockExclusive, CallOf, RedisDeregister, Script, Deletes, election
<1>7. CASE RedisDie(p)
  BY <1>7 DEF LockInv, LockTypes, LockExclusive, CallOf, RedisDie
<1> QED BY <1>1, <1>2, <1>3, <1>4, <1>5, <1>6, <1>7

(* LockExclusive: SetNX sets a key nobody has, and the script of a release   *)
(* compares the owner, however late it is run; only the end of its time, or  *)
(* its own late release, takes the key from a worker that has noted it       *)
(* (coordinator/redis_coordinator.go: AcquireLock, renewLock,                *)
(* releaseLockInternal).                                                     *)
THEOREM RedisLockExclusive == RedisSpec => []LockExclusive
<1>1. RedisInit => LockInv
  BY DEF RedisInit, LockInv, LockTypes, LockExclusive, CallOf
<1>2. LockInv /\ [RedisNext]_rvars => LockInv'
  <2> SUFFICES ASSUME LockInv, [RedisNext]_rvars PROVE LockInv'
    OBVIOUS
  <2>1. CASE UNCHANGED rvars \/ RedisAllDead \/ Election
    BY <2>1 DEF LockInv, LockTypes, LockExclusive, CallOf, rvars, locking, election, RedisAllDead,
       Election, LeaseExpires, Turn, ElectSetNX, ElectGet, ElectGetFails
  <2>2. CASE LockExpires
    BY <2>2, RedisCoordinatorAssumption
       DEF LockInv, LockTypes, LockExclusive, CallOf, LockExpires
  <2>3. ASSUME NEW p \in Member,
               \/ RedisStart(p) \/ RedisCloseStopCh(p) \/ RedisWait(p)
               \/ updateHeartbeat(p) \/ HeartbeatExpires(p)
        PROVE  LockInv'
    BY <2>3 DEF LockInv, LockTypes, LockExclusive, CallOf, RedisStart, RedisCloseStopCh, RedisWait,
       updateHeartbeat, HeartbeatExpires, locking
  <2> QED BY <2>1, <2>2, <2>3, LockMoves DEF RedisNext, Life, Locking, Registering
<1>3. LockInv => LockExclusive
  BY DEF LockInv
<1> QED BY <1>1, <1>2, <1>3, PTL DEF RedisSpec
=============================================================================
