------------------------- MODULE SharedResourceProofs -------------------------
(***************************************************************************)
(* Theorems about what pages share and wait for: MemoryBudget, for any     *)
(* number of reservers and any sizes, BrowserPool, for any number of       *)
(* browsers and slots, RateLimiter, for any callers and delays, and        *)
(* Scheduler, for any jobs, expressions and calendar.                      *)
(***************************************************************************)
EXTENDS MemoryBudget, BrowserPool, RateLimiter, Scheduler, FiniteSetTheorems, WellFoundedInduction, TLAPS

MemorySpec == MemoryInit /\ [][MemoryNext]_mvars
PoolSpec == PoolInit /\ [][PoolNext]_bvars
LimiterSpec == LimiterInit /\ [][LimiterNext]_rvars
SchedulerSpec == SchedulerInit /\ [][SchedulerNext]_schedVars

(* A set of numbers below a bound has a smallest one. *)
LEMMA SmallestIs ==
  ASSUME NEW n \in Nat, NEW S \in SUBSET (0..n), S # {}
  PROVE  \E k \in S : \A j \in S : k <= j
<1> DEFINE R == StrictSubsetOrdering(0..n)
           T == {0..i : i \in S}
<1>f. IsFiniteSet(0..n)
  BY FS_Interval
<1>1. IsWellFoundedOn(R, SUBSET (0..n))
  BY <1>f, FS_StrictSubsetOrderingWellFounded, FS_FiniteSubsetsOfFinite
<1>2. T \subseteq SUBSET (0..n) /\ T # {}
  <2>1. ASSUME NEW i \in S PROVE 0..i \in SUBSET (0..n)
    <3>1. i \in 0..n
      OBVIOUS
    <3> QED BY <3>1
  <2> QED BY <2>1
<1>3. PICK t \in T : \A y \in T : <<y, t>> \notin R
  BY <1>1, <1>2, WFMin
<1>4. PICK k \in S : t = 0..k
  OBVIOUS
<1>5. ASSUME NEW j \in S, j < k PROVE FALSE
  <2>1. 0..j \in T /\ 0..j \subseteq t /\ k \in t /\ k \notin 0..j
    BY <1>4, <1>5
  <2>2. <<0..j, t>> \in R
    BY <1>2, <2>1 DEF StrictSubsetOrdering
  <2> QED BY <1>3, <2>1, <2>2
<1>6. \A j \in S : k <= j
  BY <1>5
<1> QED BY <1>6

-----------------------------------------------------------------------------
(* The budget. *)

MemoryTypes ==
  /\ used \in Nat /\ locked \in BOOLEAN
  /\ rpc \in [Reserver -> {"idle", "check", "select", "holds", "gone"}]
  /\ helper \in [Reserver -> {"none", "wait", "parked", "woken", "sent"}]

(* The mutex is a reserver's, or its helper's before it parks and after it   *)
(* was woken.                                                                *)
Owner(r) == rpc[r] = "check" \/ (rpc[r] = "select" /\ helper[r] \in {"wait", "sent"})

MutexInv ==
  \A r \in Reserver :
    /\ Owner(r) => locked /\ \A s \in Reserver : Owner(s) => s = r
    /\ rpc[r] = "select" <=> helper[r] # "none"

(* A helper is on its way to sleep, or asleep, since the bytes did not fit:  *)
(* none are given back before it sleeps, and none without waking it.         *)
SleepInv == \A r \in Reserver : helper[r] \in {"wait", "parked"} => ~Fits(r)

NoneGone == \A r \in Reserver : rpc[r] # "gone"

MemoryInv ==
  MemoryTypes /\ (NoneGone => /\ MutexInv /\ SleepInv /\ used <= MaxBytes
                              /\ used = Cardinality(HeldBytes(Holders)))

(* What one more reserver holds is added to what is held. *)
LEMMA HeldAdds ==
  ASSUME NEW S \in SUBSET Reserver, NEW r \in Reserver \ S
  PROVE  /\ Cardinality(HeldBytes(S)) \in Nat
         /\ Cardinality(HeldBytes(S \cup {r})) = Cardinality(HeldBytes(S)) + Bytes[r]
<1> DEFINE T == {r} \X (1..Bytes[r])
           P == {{s} \X (1..Bytes[s]) : s \in S}
<1>1. IsFiniteSet(S) /\ \A s \in Reserver : IsFiniteSet({s} \X (1..Bytes[s]))
  <2>1. ASSUME NEW s \in Reserver PROVE IsFiniteSet({s} \X (1..Bytes[s]))
    <3>1. 1 \in Int /\ Bytes[s] \in Int
      BY MemoryAssumption
    <3>2. IsFiniteSet({s}) /\ IsFiniteSet(1..Bytes[s])
      BY <3>1, FS_Interval, FS_Singleton
    <3> QED BY <3>2, FS_Product
  <2> QED BY <2>1, MemoryAssumption, FS_Subset
<1>2. IsFiniteSet(P)
  <2> DEFINE f == [s \in S |-> {s} \X (1..Bytes[s])]
  <2>1. f \in Surjection(S, P)
    BY DEF Surjection
  <2> QED BY <1>1, <2>1, FS_Surjection
<1>3. IsFiniteSet(HeldBytes(S)) /\ HeldBytes(S) = UNION P
  BY <1>1, <1>2, FS_UNION DEF HeldBytes
<1>4. IsFiniteSet(T) /\ Cardinality(T) = Bytes[r]
  <2>1. Bytes[r] \in Nat /\ 1 \in Int
    BY MemoryAssumption
  <2>2. IsFiniteSet(1..Bytes[r]) /\ Cardinality(1..Bytes[r]) = Bytes[r]
    BY <2>1, FS_Interval
  <2>3. IsFiniteSet({r}) /\ Cardinality({r}) = 1
    BY FS_Singleton
  <2>4. Cardinality(T) = 1 * Bytes[r]
    BY <2>2, <2>3, FS_Product
  <2> QED BY <1>1, <2>1, <2>4
<1>5. HeldBytes(S) \cap T = {} /\ HeldBytes(S \cup {r}) = HeldBytes(S) \cup T
  BY DEF HeldBytes
<1>6. Cardinality(HeldBytes(S) \cup T) = Cardinality(HeldBytes(S)) + Bytes[r] - Cardinality({})
  BY <1>3, <1>4, <1>5, FS_Union
<1>7. Cardinality(HeldBytes(S)) \in Nat /\ Cardinality({}) = 0 /\ Bytes[r] \in Nat
  BY <1>3, FS_CardinalityType, FS_EmptySet, MemoryAssumption
<1>8. Cardinality(HeldBytes(S \cup {r})) = Cardinality(HeldBytes(S)) + Bytes[r] - 0
  BY <1>5, <1>6, <1>7
<1> HIDE DEF T
<1> QED BY <1>7, <1>8

(* Reserve and the end of ReserveBlocking take the bytes ... *)
LEMMA TakesBytes ==
  ASSUME MemoryTypes, NEW r \in Reserver, rpc[r] \in {"idle", "check"}, Fits(r),
         used' = used + Bytes[r], rpc' = [rpc EXCEPT ![r] = "holds"],
         used = Cardinality(HeldBytes(Holders))
  PROVE  used' = Cardinality(HeldBytes(Holders')) /\ used' \in Nat /\ used' <= MaxBytes
<1>1. Holders' = Holders \cup {r} /\ r \notin Holders /\ Holders \in SUBSET Reserver
  BY DEF Holders, MemoryTypes
<1>2. Bytes[r] \in Nat
  BY MemoryAssumption
<1> QED BY <1>1, <1>2, HeldAdds DEF MemoryTypes, Fits

(* ... and Release gives back those it held. *)
LEMMA GivesBytes ==
  ASSUME MemoryTypes, NEW r \in Reserver, GiveBack(r), used = Cardinality(HeldBytes(Holders))
  PROVE  used' = Cardinality(HeldBytes(Holders')) /\ used' <= used
<1> DEFINE S == Holders \ {r}
<1>1. Holders' = S /\ Holders = S \cup {r} /\ S \in SUBSET Reserver /\ r \in Reserver \ S
  BY DEF Holders, MemoryTypes, GiveBack
<1>2. /\ Cardinality(HeldBytes(S)) \in Nat /\ Bytes[r] \in Nat
      /\ used = Cardinality(HeldBytes(S)) + Bytes[r]
  BY <1>1, HeldAdds, MemoryAssumption
<1> QED BY <1>1, <1>2 DEF GiveBack

(* The types, whoever has been cancelled. *)
LEMMA MemoryTyped == MemoryTypes /\ [MemoryNext]_mvars => MemoryTypes'
<1> SUFFICES ASSUME MemoryTypes, [MemoryNext]_mvars PROVE MemoryTypes'
  OBVIOUS
<1>1. \A r \in Reserver : Bytes[r] \in Nat
  BY MemoryAssumption
<1>2. CASE UNCHANGED mvars
  BY <1>2 DEF MemoryTypes, mvars
<1>3. ASSUME NEW r \in Reserver PROVE \A v \in {"idle", "check", "select", "holds", "gone"} :
        [rpc EXCEPT ![r] = v] \in [Reserver -> {"idle", "check", "select", "holds", "gone"}]
  BY DEF MemoryTypes
<1>4. ASSUME NEW r \in Reserver PROVE \A v \in {"none", "wait", "parked", "woken", "sent"} :
        [helper EXCEPT ![r] = v] \in [Reserver -> {"none", "wait", "parked", "woken", "sent"}]
  BY DEF MemoryTypes
<1>5. ASSUME NEW r \in Reserver, Reserve(r) \/ CheckFits(r) PROVE MemoryTypes'
  <2>1. used' \in Nat
    BY <1>1, <1>5 DEF MemoryTypes, Reserve, CheckFits
  <2>2. rpc' \in [Reserver -> {"idle", "check", "select", "holds", "gone"}]
    BY <1>3, <1>5 DEF Reserve, CheckFits
  <2>3. locked' \in BOOLEAN /\ helper' = helper
    BY <1>5 DEF MemoryTypes, Reserve, CheckFits, Unlock
  <2> QED BY <2>1, <2>2, <2>3 DEF MemoryTypes
<1>6. ASSUME NEW r \in Reserver,
             \/ ReserveBlocking(r) \/ CheckWaits(r) \/ Woken(r) \/ HelperParks(r) \/ HelperLocks(r)
             \/ CancelReserve(r)
      PROVE  MemoryTypes'
  BY <1>3, <1>4, <1>6 DEF MemoryTypes, ReserveBlocking, CheckWaits, Woken, HelperParks, HelperLocks,
     CancelReserve, Unlock
<1>7. ASSUME NEW r \in Reserver, Release(r) PROVE MemoryTypes'
  BY <1>1, <1>3, <1>7 DEF MemoryTypes, Release, GiveBack
<1> QED BY <1>2, <1>5, <1>6, <1>7 DEF MemoryNext

(* Step by step: the mutex goes from one owner to the next. *)
LEMMA MemoryStep == MemoryInv /\ [MemoryNext]_mvars => MemoryInv'
<1> SUFFICES ASSUME MemoryInv, [MemoryNext]_mvars, NoneGone'
             PROVE  (MutexInv /\ SleepInv /\ used <= MaxBytes /\ used = Cardinality(HeldBytes(Holders)))'
  BY MemoryTyped DEF MemoryInv
<1>t. MemoryTypes /\ MaxBytes \in Nat /\ \A r \in Reserver : Bytes[r] \in Nat
  BY MemoryAssumption DEF MemoryInv
<1>g. NoneGone
  BY <1>t DEF MemoryTypes, NoneGone, MemoryNext, mvars, Reserve, ReserveBlocking, CheckFits, CheckWaits,
     Woken, HelperParks, HelperLocks, CancelReserve, Release, GiveBack
<1>i. MutexInv /\ SleepInv /\ used <= MaxBytes /\ used = Cardinality(HeldBytes(Holders))
  BY <1>g DEF MemoryInv
<1>h. ASSUME Holders' = Holders, used' = used
      PROVE  (used <= MaxBytes /\ used = Cardinality(HeldBytes(Holders)))'
  BY <1>i, <1>h DEF HeldBytes
<1>1. CASE UNCHANGED mvars
  <2>1. Holders' = Holders
    BY <1>1 DEF Holders, mvars
  <2> QED BY <1>1, <1>i, <1>h, <2>1 DEF mvars, MutexInv, SleepInv, Owner, Fits
<1>2. ASSUME NEW r \in Reserver, Reserve(r) PROVE (MutexInv /\ SleepInv)'
  <2>1. \A s \in Reserver : Fits(s)' => Fits(s)
    BY <1>2, <1>t DEF Reserve, Fits, MemoryTypes
  <2>2. MutexInv'
    BY <1>2, <1>t, <1>i DEF Reserve, MemoryTypes, MutexInv, Owner
  <2> QED BY <1>2, <1>i, <2>1, <2>2 DEF Reserve, SleepInv
<1>3. ASSUME NEW r \in Reserver, ReserveBlocking(r) PROVE (MutexInv /\ SleepInv)'
  BY <1>3, <1>t, <1>i DEF ReserveBlocking, MemoryTypes, MutexInv, SleepInv, Owner, Fits
<1>4. ASSUME NEW r \in Reserver, CheckFits(r) PROVE (MutexInv /\ SleepInv)'
  <2>1. \A s \in Reserver : Fits(s)' => Fits(s)
    BY <1>4, <1>t DEF CheckFits, Fits, MemoryTypes
  <2>2. MutexInv'
    BY <1>4, <1>t, <1>i DEF CheckFits, Unlock, MemoryTypes, MutexInv, Owner
  <2> QED BY <1>4, <1>i, <2>1, <2>2 DEF CheckFits, SleepInv
<1>5. ASSUME NEW r \in Reserver, CheckWaits(r) PROVE (MutexInv /\ SleepInv)'
  BY <1>5, <1>t, <1>i DEF CheckWaits, MemoryTypes, MutexInv, SleepInv, Owner, Fits
<1>6. ASSUME NEW r \in Reserver, Woken(r) PROVE (MutexInv /\ SleepInv)'
  BY <1>6, <1>t, <1>i DEF Woken, MemoryTypes, MutexInv, SleepInv, Owner, Fits
<1>7. ASSUME NEW r \in Reserver, HelperParks(r) PROVE (MutexInv /\ SleepInv)'
  BY <1>7, <1>t, <1>i DEF HelperParks, Unlock, MemoryTypes, MutexInv, SleepInv, Owner, Fits
<1>8. ASSUME NEW r \in Reserver, HelperLocks(r) PROVE (MutexInv /\ SleepInv)'
  BY <1>8, <1>t, <1>i DEF HelperLocks, MemoryTypes, MutexInv, SleepInv, Owner, Fits
<1>9. ASSUME NEW r \in Reserver, Release(r) PROVE (MutexInv /\ SleepInv)'
  BY <1>9, <1>t, <1>i DEF Release, GiveBack, MemoryTypes, MutexInv, SleepInv, Owner, Fits
<1>10. ASSUME NEW r \in Reserver, CancelReserve(r) PROVE FALSE
  BY <1>10, <1>t DEF CancelReserve, MemoryTypes, NoneGone
<1>11. ASSUME NEW r \in Reserver, Reserve(r) \/ CheckFits(r)
       PROVE  (used <= MaxBytes /\ used = Cardinality(HeldBytes(Holders)))'
  <2>1. used' = Cardinality(HeldBytes(Holders')) /\ used' <= MaxBytes
    BY <1>11, <1>t, <1>i, TakesBytes DEF Reserve, CheckFits
  <2> QED BY <2>1 DEF HeldBytes
<1>12. ASSUME NEW r \in Reserver, Release(r)
       PROVE  (used <= MaxBytes /\ used = Cardinality(HeldBytes(Holders)))'
  <2>1. used' = Cardinality(HeldBytes(Holders')) /\ used' <= used
    BY <1>12, <1>t, <1>i, GivesBytes DEF Release
  <2>2. used' \in Nat /\ used \in Nat /\ MaxBytes \in Nat
    BY MemoryTyped, <1>t, MemoryAssumption DEF MemoryTypes
  <2> QED BY <1>i, <2>1, <2>2 DEF HeldBytes
<1>13. ASSUME NEW r \in Reserver,
              ReserveBlocking(r) \/ CheckWaits(r) \/ Woken(r) \/ HelperParks(r) \/ HelperLocks(r)
       PROVE  (used <= MaxBytes /\ used = Cardinality(HeldBytes(Holders)))'
  <2>1. Holders' = Holders /\ used' = used
    BY <1>13, <1>t DEF Holders, MemoryTypes, ReserveBlocking, CheckWaits, Woken, HelperParks, HelperLocks
  <2> QED BY <1>h, <2>1
<1> QED BY <1>1, <1>2, <1>3, <1>4, <1>5, <1>6, <1>7, <1>8, <1>9, <1>10, <1>11, <1>12, <1>13
        DEF MemoryNext

(* BudgetExact: no reservation exceeds the budget and no wake-up is lost, as *)
(* long as no context ended in ReserveBlocking (util/memory.go).             *)
THEOREM MemoryBudgetExact == MemorySpec => []BudgetExact
<1>1. MemoryInit => MemoryInv
  <2> SUFFICES ASSUME MemoryInit PROVE MemoryInv
    OBVIOUS
  <2>0. Holders = {} /\ HeldBytes({}) = {}
    BY DEF MemoryInit, Holders, HeldBytes
  <2>1. used = Cardinality(HeldBytes(Holders)) /\ used = 0 /\ used <= MaxBytes
    BY <2>0, FS_EmptySet, MemoryAssumption DEF MemoryInit
  <2>2. MemoryTypes
    BY DEF MemoryInit, MemoryTypes
  <2>3. MutexInv /\ SleepInv
    BY DEF MemoryInit, MutexInv, SleepInv, Owner
  <2> QED BY <2>1, <2>2, <2>3 DEF MemoryInv
<1>2. MemoryInv => BudgetExact
  BY DEF MemoryInv, NoneGone, BudgetExact, SleepInv
<1> QED BY <1>1, <1>2, MemoryStep, PTL DEF MemorySpec

-----------------------------------------------------------------------------
(* The browsers. *)

(* The slots still to be replaced are slots; a browser is on its way to a    *)
(* slot at store only; Close has something to shut down after it began.      *)
PoolTypes ==
  /\ instances \in Seq(Browser) /\ live \subseteq Browser
  /\ hpc \in {"idle", "next", "launch", "store"}
  /\ toReplace \subseteq DOMAIN instances
  /\ hpc \in {"launch", "store"} => toReplace # {}
  /\ fresh \in Browser \cup {NoBrowser} /\ (hpc = "store" <=> fresh # NoBrowser)
  /\ ~poolClosed => closing = {}

(* While the check launches, what is in the slot is dead or came by Acquire. *)
SlotIsFree == hpc \in {"launch", "store"} => instances[Current] \notin live \ raced

PoolInv == PoolTypes /\ SlotIsFree /\ NoOrphanBrowser

(* The check takes the slots in their order. *)
LEMMA CurrentIsNext ==
  ASSUME PoolTypes, toReplace # {}
  PROVE  Current \in toReplace
<1>1. Len(instances) \in Nat /\ toReplace \in SUBSET (0..Len(instances))
  BY DEF PoolTypes
<1>2. \E k \in toReplace : \A j \in toReplace : k <= j
  BY <1>1, SmallestIs
<1> QED BY <1>2 DEF Current

(* Start puts every browser it launched in a slot. *)
LEMMA AllInSlots ==
  ASSUME NEW bs \in SUBSET Browser
  PROVE  SetToSeq(bs) \in Seq(bs) /\ bs = {SetToSeq(bs)[i] : i \in DOMAIN SetToSeq(bs)}
<1> DEFINE n == Cardinality(bs)
<1>1. IsFiniteSet(bs) /\ n \in Nat
  BY PoolAssumption, FS_Subset, FS_CardinalityType
<1>2. PICK f \in Bijection(1..n, bs) : TRUE
  BY <1>1, FS_CardinalityType DEF ExistsBijection
<1>3. SetToSeq(bs) \in [1..n -> bs] /\ IsInjective(SetToSeq(bs))
  BY <1>2 DEF SetToSeq, Bijection, Injection, IsInjective
<1> DEFINE q == SetToSeq(bs)
<1> HIDE DEF q
<1>4. q \in [1..n -> bs] /\ IsInjective(q)
  BY <1>3 DEF q
<1>5. ASSUME NEW t \in bs, \A i \in 1..n : q[i] # t PROVE FALSE
  <2>1. q \in Injection(1..n, bs \ {t})
    BY <1>4, <1>5 DEF Injection
  <2>2. IsFiniteSet(bs \ {t}) /\ Cardinality(bs \ {t}) = n - 1
    BY <1>1, FS_RemoveElement
  <2>3. IsFiniteSet(1..n) /\ Cardinality(1..n) = n
    BY <1>1, FS_Interval
  <2>4. Cardinality(1..n) <= Cardinality(bs \ {t})
    BY <2>1, <2>2, <2>3, FS_Injection
  <2> QED BY <1>1, <2>2, <2>3, <2>4
<1>6. q \in Seq(bs) /\ DOMAIN q = 1..n
  BY <1>1, <1>4
<1>7. bs = {q[i] : i \in DOMAIN q}
  BY <1>4, <1>5, <1>6
<1> QED BY <1>6, <1>7 DEF q

(* A slot that changes keeps the others. *)
LEMMA SlotChanges ==
  ASSUME PoolTypes, NEW i \in DOMAIN instances, NEW b \in Browser, instances' = [instances EXCEPT ![i] = b]
  PROVE  /\ instances' \in Seq(Browser) /\ DOMAIN instances' = DOMAIN instances
         /\ \A j \in DOMAIN instances : instances'[j] = IF j = i THEN b ELSE instances[j]
BY DEF PoolTypes

(* Acquire puts a new browser in the place of a dead one ... *)
LEMMA AcquireKeeps == PoolInv /\ Acquire => PoolInv'
<1> SUFFICES ASSUME PoolInv, Acquire PROVE PoolInv'
  OBVIOUS
<1>u. /\ ~poolClosed /\ poolClosed' = poolClosed /\ closing' = closing /\ hpc' = hpc
      /\ toReplace' = toReplace /\ fresh' = fresh /\ Current' = Current
  BY DEF Acquire, Slots, Current
<1>1. CASE UNCHANGED <<instances, live, raced>>
  BY <1>u, <1>1 DEF PoolInv, PoolTypes, SlotIsFree, NoOrphanBrowser, Slots
<1>2. ASSUME NEW i \in Slots, Dead(i), NEW b \in Browser, Launch(b), instances' = [instances EXCEPT ![i] = b],
             raced' = IF i \in toReplace THEN raced \cup {b} ELSE raced
      PROVE  PoolInv'
  <2>1. /\ i \in DOMAIN instances /\ b \in Browser /\ live' = live \cup {b} /\ instances[i] \notin live
        /\ \A j \in DOMAIN instances : instances[j] # b
    BY <1>2 DEF Launch, Unused, Held, ToSet, Dead, Slots
  <2>2. /\ instances' \in Seq(Browser) /\ DOMAIN instances' = DOMAIN instances
        /\ \A j \in DOMAIN instances : instances'[j] = IF j = i THEN b ELSE instances[j]
    BY <1>2, <2>1, SlotChanges DEF PoolInv
  <2>3. PoolTypes'
    BY <1>u, <2>1, <2>2 DEF PoolInv, PoolTypes
  <2>4. SlotIsFree'
    <3> SUFFICES ASSUME hpc \in {"launch", "store"} PROVE instances'[Current] \notin live' \ raced'
      BY <1>u DEF SlotIsFree
    <3>1. Current \in toReplace /\ Current \in DOMAIN instances
      BY CurrentIsNext DEF PoolInv, PoolTypes
    <3>2. instances[Current] \notin live \ raced
      BY DEF PoolInv, SlotIsFree
    <3> QED BY <1>2, <2>1, <2>2, <3>1, <3>2
  <2>5. NoOrphanBrowser'
    BY <1>u, <1>2, <2>1, <2>2 DEF PoolInv, NoOrphanBrowser, Slots
  <2> QED BY <2>3, <2>4, <2>5 DEF PoolInv
<1> QED BY <1>1, <1>2 DEF Acquire, TryRestart

(* ... and the check one in the place of what is dead or came by Acquire. *)
LEMMA HealthKeeps ==
  ASSUME PoolInv, HealthCheck \/ HealthShutdown \/ HealthLaunch \/ HealthStore \/ HealthDone
  PROVE  PoolInv'
<1>n. NoBrowser \notin live
  BY PoolAssumption DEF PoolInv, PoolTypes
<1>c. toReplace # {} => Current \in toReplace /\ Current \in DOMAIN instances
  BY CurrentIsNext DEF PoolInv, PoolTypes
<1>1. CASE HealthCheck \/ HealthDone
  BY <1>1 DEF HealthCheck, HealthDone, PoolInv, PoolTypes, SlotIsFree, NoOrphanBrowser, Slots
<1>2. CASE HealthShutdown
  <2>1. Current' = Current
    BY <1>2 DEF HealthShutdown, Current
  <2> QED BY <1>2, <2>1 DEF HealthShutdown, Shutdown, PoolInv, PoolTypes, SlotIsFree, NoOrphanBrowser, Slots
<1>3. ASSUME HealthLaunch, NEW b \in Browser, Launch(b), fresh' = b, hpc' = "store", UNCHANGED toReplace
      PROVE  PoolInv'
  <2>1. Current' = Current /\ hpc = "launch" /\ UNCHANGED <<instances, poolClosed, closing, raced>>
    BY <1>3 DEF HealthLaunch, Current
  <2>2. live' = live \cup {b} /\ b # NoBrowser /\ \A j \in DOMAIN instances : instances[j] # b
    BY <1>3, PoolAssumption DEF Launch, Unused, Held, ToSet
  <2>3. fresh = NoBrowser /\ Current \in DOMAIN instances
    BY <1>c, <2>1 DEF PoolInv, PoolTypes
  <2> QED BY <1>3, <1>n, <2>1, <2>2, <2>3 DEF PoolInv, PoolTypes, SlotIsFree, NoOrphanBrowser, Slots
<1>4. CASE HealthLaunch /\ hpc' = "next" /\ UNCHANGED <<live, healthy, fresh>> /\ toReplace' = toReplace \ {Current}
  BY <1>4 DEF HealthLaunch, PoolInv, PoolTypes, SlotIsFree, NoOrphanBrowser, Slots
<1>5. CASE HealthStore
  <2>1. /\ hpc = "store" /\ hpc' = "next" /\ toReplace' = toReplace \ {Current} /\ fresh' = NoBrowser
        /\ UNCHANGED <<poolClosed, closing, raced>> /\ fresh \in Browser
        /\ Current \in DOMAIN instances /\ instances[Current] \notin live \ raced
    BY <1>5, <1>c DEF HealthStore, PoolInv, PoolTypes, SlotIsFree
  <2>2. CASE Current \notin Slots
    BY <1>5, <2>1, <2>2 DEF HealthStore, Shutdown, PoolInv, PoolTypes, SlotIsFree, NoOrphanBrowser, Slots
  <2>3. CASE Current \in Slots
    <3>1. instances' = [instances EXCEPT ![Current] = fresh] /\ live' = live
      BY <1>5, <2>3 DEF HealthStore
    <3>2. /\ instances' \in Seq(Browser) /\ DOMAIN instances' = DOMAIN instances
          /\ \A j \in DOMAIN instances : instances'[j] = IF j = Current THEN fresh ELSE instances[j]
      BY <2>1, <3>1, SlotChanges DEF PoolInv
    <3> QED BY <2>1, <2>3, <3>1, <3>2 DEF PoolInv, PoolTypes, SlotIsFree, NoOrphanBrowser, Slots
  <2> QED BY <2>2, <2>3
<1> QED BY <1>1, <1>2, <1>3, <1>4, <1>5 DEF HealthLaunch

(* NoOrphanBrowser: launchInstance under no mutex, Acquire and Close in      *)
(* between (browserpool/pool.go: HealthCheck, tryRestartInstance, Close).    *)
THEOREM PoolNoOrphan == PoolSpec => []NoOrphanBrowser
<1>1. PoolInit => PoolInv
  BY DEF PoolInit, PoolInv, PoolTypes, SlotIsFree, NoOrphanBrowser
<1>2. PoolInv /\ [PoolNext]_bvars => PoolInv'
  <2> SUFFICES ASSUME PoolInv, [PoolNext]_bvars PROVE PoolInv'
    OBVIOUS
  <2>1. CASE UNCHANGED bvars
    <3>1. Current' = Current
      BY <2>1 DEF bvars, Current
    <3> QED BY <2>1, <3>1 DEF bvars, PoolInv, PoolTypes, SlotIsFree, NoOrphanBrowser, Slots
  <2>2. CASE StartPool
    <3>1. PICK bs \in SUBSET Unused : instances' = SetToSeq(bs) /\ live' = bs
      BY <2>2 DEF StartPool
    <3>2. bs \in SUBSET Browser
      BY DEF Unused
    <3>3. instances' \in Seq(bs) /\ bs = {instances'[i] : i \in DOMAIN instances'}
      BY <3>1, <3>2, AllInSlots
    <3>4. instances' \in Seq(Browser)
      BY <3>2, <3>3
    <3>5. toReplace = {} /\ hpc \notin {"launch", "store"}
      BY <2>2 DEF StartPool, PoolInv, PoolTypes
    <3> QED BY <2>2, <3>1, <3>2, <3>3, <3>4, <3>5
            DEF StartPool, PoolInv, PoolTypes, SlotIsFree, NoOrphanBrowser, Slots
  <2>3. CASE ClosePool
    <3>1. Current' = Current
      BY <2>3 DEF ClosePool, Current
    <3> QED BY <2>3, <3>1 DEF ClosePool, PoolInv, PoolTypes, SlotIsFree, NoOrphanBrowser, Slots, ToSet
  <2>4. ASSUME NEW b \in Browser, CrashBrowser(b) \/ CloseOne(b) PROVE PoolInv'
    <3>1. Current' = Current
      BY <2>4 DEF CrashBrowser, CloseOne, Current
    <3>2. /\ live' = live \ {b} /\ closing \ {b} \subseteq closing' /\ closing' \subseteq closing
          /\ UNCHANGED <<instances, poolClosed, hpc, toReplace, fresh, raced>>
      BY <2>4 DEF CrashBrowser, CloseOne, Shutdown
    <3> QED BY <3>1, <3>2 DEF PoolInv, PoolTypes, SlotIsFree, NoOrphanBrowser, Slots
  <2> QED BY <2>1, <2>2, <2>3, <2>4, AcquireKeeps, HealthKeeps DEF PoolNext
<1>3. PoolInv => NoOrphanBrowser
  BY DEF PoolInv
<1> QED BY <1>1, <1>2, <1>3, PTL DEF PoolSpec


-----------------------------------------------------------------------------
(* The rate. *)

(* The types, which hold after a split too. *)
LimiterTypes ==
  /\ current \in made \cup {NoLimiter} /\ made \subseteq Limiter
  /\ tokens \in [Limiter -> Int] /\ \A l \in Limiter : tokens[l] <= Full
  /\ delay \in [Limiter -> ShortestDelay..LongestDelay]
  /\ allowance \in Int /\ quota \in Int /\ quota <= FullQuota
  /\ wake \in [Caller -> Nat] /\ turn \in [Caller -> Nat]
  /\ lpc \in [Caller -> {"idle", "touch", "create", "ask", "wait"}]
  /\ lim \in [Caller -> Limiter \cup {NoLimiter}]
  /\ \A c \in Caller : lim[c] # NoLimiter <=> lpc[c] \in {"touch", "ask", "wait"}

Waiting == {c \in Caller : lpc[c] = "wait"}
Fastest == RateOf(ShortestDelay)

(* Until a split there is one limiter in use, and it has what one bucket for *)
(* the host would have; a new one starts with no more than the quota.        *)
OneBucket ==
  /\ \A c \in Caller : lim[c] \in {current, NoLimiter}
  /\ allowance = IF current = NoLimiter THEN Full ELSE tokens[current]
  /\ \A c \in Waiting : wake[c] >= turn[c]

(* Every token that is there or reserved is in the quota; and of some who    *)
(* sleep, one sleeps until the quota has a token for each of them.           *)
Paid ==
  /\ quota >= 0
  /\ quota >= (IF current = NoLimiter THEN Full ELSE tokens[current]) + Token * Cardinality(Waiting)
  /\ \A S \in SUBSET Waiting :
       S # {} => \E c \in S : quota + Fastest * wake[c] >= Token * Cardinality(S)

LimiterInv == LimiterTypes /\ (~split => OneBucket /\ Paid)

(* Products keep the order; the provers take this in small steps. *)
LEMMA Product ==
  ASSUME NEW a \in Nat, NEW b \in Nat, NEW c \in Nat, a <= b
  PROVE  a * c <= b * c /\ c * a <= c * b /\ a * c \in Nat
OBVIOUS

(* A rate makes up for a debt in the ticks that are waited for it.           *)
LEMMA TicksPay ==
  ASSUME NEW left \in Int, NEW rate \in Nat \ {0}
  PROVE  TicksFor(left, rate) \in Nat /\ left + rate * TicksFor(left, rate) >= 0
<1>1. CASE left >= 0
  <2>1. TicksFor(left, rate) = 0
    BY <1>1 DEF TicksFor
  <2> QED BY <1>1, <2>1
<1>2. CASE left < 0
  <2> DEFINE debt == rate - 1 - left
             q == debt \div rate
  <2>1. debt \in Nat /\ q \in Nat
    BY <1>2
  <2>2. debt < rate * q + rate
    <3> HIDE DEF debt
    <3>1. debt = rate * q + (debt % rate) /\ debt % rate < rate
      BY <2>1
    <3> QED BY <2>1, <3>1
  <2>3. rate * q \in Nat
    BY <2>1
  <2>4. TicksFor(left, rate) = q
    BY <1>2 DEF TicksFor
  <2> QED BY <2>1, <2>2, <2>3, <2>4
<1> QED BY <1>1, <1>2

(* What the assumptions say of delays and rates. *)
LEMMA Rates ==
  /\ ShortestDelay \in Nat \ {0} /\ LongestDelay \in Nat \ {0}
  /\ {BaseDelay, MaxDelay} \subseteq ShortestDelay..LongestDelay /\ MinDelay >= ShortestDelay /\ MinDelay \in Nat
  /\ Full \in Nat /\ Token \in Nat \ {0} /\ Full >= Token
  /\ Cardinality(Caller) \in Nat /\ FullQuota = Full + Token * Cardinality(Caller) /\ FullQuota \in Nat
  /\ Fastest \in Nat \ {0}
  /\ \A d \in ShortestDelay..LongestDelay : RateOf(d) \in Nat \ {0} /\ RateOf(d) <= Fastest
<1>1. /\ ShortestDelay \in Nat \ {0} /\ LongestDelay \in Nat \ {0}
      /\ {BaseDelay, MaxDelay} \subseteq ShortestDelay..LongestDelay /\ MinDelay >= ShortestDelay /\ MinDelay \in Nat
  BY LimiterAssumption DEF ShortestDelay, LongestDelay, Greatest, Least
<1>2. /\ Full \in Nat /\ Token \in Nat \ {0} /\ Full >= Token
  BY LimiterAssumption DEF Full
<1>3. /\ Cardinality(Caller) \in Nat /\ FullQuota = Full + Token * Cardinality(Caller) /\ FullQuota \in Nat
  BY <1>2, LimiterAssumption, FS_CardinalityType DEF FullQuota
<1>4. ASSUME NEW d \in ShortestDelay..LongestDelay
      PROVE  d \in Nat \ {0} /\ RateOf(d) \in Nat \ {0} /\ RateOf(d) * d = Token
  <2>1. d \in Nat \ {0} /\ d \in 1..LongestDelay
    BY <1>1
  <2>2. RateOf(d) \in Nat
    BY <1>2, <2>1 DEF RateOf
  <2>3. RateOf(d) * d = Token
    BY <2>1, LimiterAssumption DEF RateOf
  <2>4. RateOf(d) # 0
    BY <1>2, <2>1, <2>3
  <2> QED BY <2>1, <2>2, <2>3, <2>4
<1>5. ShortestDelay \in ShortestDelay..LongestDelay
  BY <1>1
<1>6. Fastest \in Nat \ {0} /\ Fastest * ShortestDelay = Token
  BY <1>4, <1>5 DEF Fastest
<1>7. ASSUME NEW d \in ShortestDelay..LongestDelay PROVE RateOf(d) <= Fastest
  <2> DEFINE q == RateOf(d)
  <2>1. q \in Nat /\ q * d = Token /\ d \in Nat /\ ShortestDelay <= d
    BY <1>1, <1>4
  <2> HIDE DEF q
  <2>2. SUFFICES ASSUME Fastest + 1 <= q PROVE FALSE
    BY <2>1, <1>6 DEF q
  <2>3. (Fastest + 1) * ShortestDelay <= q * ShortestDelay
    BY <2>1, <2>2, <1>1, <1>6, Product
  <2>4. q * ShortestDelay <= q * d
    BY <2>1, <1>1, Product
  <2>5. (Fastest + 1) * ShortestDelay = Fastest * ShortestDelay + ShortestDelay
    BY <1>1, <1>6
  <2>6. q * ShortestDelay \in Nat
    BY <2>1, <1>1
  <2> QED BY <2>1, <2>3, <2>4, <2>5, <2>6, <1>1, <1>2, <1>6
<1> QED BY <1>1, <1>2, <1>3, <1>4, <1>6, <1>7

(* The types hold also after a split. *)
LEMMA LimiterTyped == LimiterTypes /\ [LimiterNext]_rvars => LimiterTypes'
<1> SUFFICES ASSUME LimiterTypes, [LimiterNext]_rvars PROVE LimiterTypes'
  OBVIOUS
<1> USE DEF LimiterTypes, histVars
<1>1. CASE ObserveLatency
  <2>1. ASSUME NEW x \in ShortestDelay..LongestDelay
        PROVE  /\ Least(2 * x, MaxDelay) \in ShortestDelay..LongestDelay
               /\ x > MinDelay => Greatest(x \div 2, MinDelay) \in ShortestDelay..LongestDelay
    BY Rates DEF Least, Greatest
  <2>2. delay' \in [Limiter -> ShortestDelay..LongestDelay]
    BY <1>1, <2>1 DEF ObserveLatency
  <2> QED BY <1>1, <2>2 DEF ObserveLatency
<1>2. CASE DropIdle \/ EndOfCrawl
  BY <1>2 DEF DropIdle, EndOfCrawl
<1>3. CASE LimiterTick
  <2>1. ASSUME NEW l \in Limiter
        PROVE  Least(Full, tokens[l] + RateOf(delay[l])) \in Int
               /\ Least(Full, tokens[l] + RateOf(delay[l])) <= Full
    <3>1. tokens[l] + RateOf(delay[l]) \in Int
      BY Rates
    <3> QED BY <3>1, Rates DEF Least
  <2>2. tokens' \in [Limiter -> Int] /\ \A l \in Limiter : tokens'[l] <= Full
    BY <1>3, <2>1, Rates DEF LimiterTick
  <2>3. ASSUME NEW n \in Nat PROVE Greatest(0, n - 1) \in Nat
    BY DEF Greatest
  <2>4. wake' \in [Caller -> Nat] /\ turn' \in [Caller -> Nat]
    BY <1>3, <2>3 DEF LimiterTick
  <2>5. quota' \in Int /\ quota' <= FullQuota
    BY <1>3, Rates DEF LimiterTick, Least, Fastest
  <2>6. allowance' \in Int
    <3>1. current # NoLimiter => RateOf(delay[current]) \in Int
      BY Rates
    <3>2. CASE current = NoLimiter
      BY <1>3, <3>2, Rates DEF LimiterTick
    <3>3. CASE current # NoLimiter
      <4>1. allowance' = Least(Full, allowance + RateOf(delay[current]))
        BY <1>3, <3>3 DEF LimiterTick
      <4>2. allowance + RateOf(delay[current]) \in Int
        BY <3>1, <3>3
      <4> QED BY <4>1, <4>2, Rates DEF Least
    <3> QED BY <3>2, <3>3
  <2> QED BY <1>3, <2>2, <2>4, <2>5, <2>6 DEF LimiterTick
<1>4. ASSUME NEW c \in Caller, GetRead(c) PROVE LimiterTypes'
  BY <1>4 DEF GetRead
<1>k. ASSUME NEW c \in Caller, GetKnown(c) PROVE LimiterTypes'
  <2>1. lim[c] \in Limiter /\ delay' \in [Limiter -> ShortestDelay..LongestDelay]
    BY <1>k, Rates DEF GetKnown
  <2> QED BY <1>k, <2>1 DEF GetKnown, AskOf
<1>5. ASSUME NEW c \in Caller, GetCreate(c) PROVE LimiterTypes'
  <2>1. CASE current # NoLimiter
    BY <1>5, <2>1 DEF GetCreate, AskOf
  <2>2. CASE current = NoLimiter
    <3>1. PICK l \in Limiter \ made :
            /\ current' = l /\ made' = made \cup {l} /\ AskOf(c, l)
            /\ tokens' = [tokens EXCEPT ![l] = Full] /\ delay' = [delay EXCEPT ![l] = BaseDelay]
      BY <1>5, <2>2 DEF GetCreate, NewLimiter
    <3>2. l # NoLimiter
      BY LimiterAssumption
    <3>3. tokens' \in [Limiter -> Int] /\ (\A k \in Limiter : tokens'[k] <= Full)
          /\ delay' \in [Limiter -> ShortestDelay..LongestDelay]
      BY <3>1, Rates
    <3>4. UNCHANGED <<allowance, quota, wake, turn>> /\ lpc[c] = "create"
      BY <1>5 DEF GetCreate
    <3> QED BY <3>1, <3>2, <3>3, <3>4 DEF AskOf
  <2> QED BY <2>1, <2>2
<1>6. ASSUME NEW c \in Caller, TakeToken(c) PROVE LimiterTypes'
  <2>1. lim[c] \in Limiter /\ RateOf(delay[lim[c]]) \in Nat \ {0}
    BY <1>6, Rates DEF TakeToken
  <2>2. /\ TicksFor(tokens[lim[c]] - Token, RateOf(delay[lim[c]])) \in Nat
        /\ TicksFor(allowance - Token, RateOf(delay[lim[c]])) \in Nat
    <3>1. tokens[lim[c]] - Token \in Int /\ allowance - Token \in Int
      BY <2>1, Rates
    <3> HIDE DEF LimiterTypes
    <3> QED BY <2>1, <3>1, TicksPay
  <2>3. tokens' \in [Limiter -> Int] /\ \A l \in Limiter : tokens'[l] <= Full
    BY <1>6, <2>1, Rates DEF TakeToken
  <2>4. wake' \in [Caller -> Nat] /\ turn' \in [Caller -> Nat] /\ allowance' \in Int
    BY <1>6, <2>2, Rates DEF TakeToken
  <2> QED BY <1>6, <2>3, <2>4 DEF TakeToken
<1>7. ASSUME NEW c \in Caller, Go(c) \/ GiveUp(c) PROVE LimiterTypes'
  <2>1. quota' \in Int /\ quota' <= FullQuota
    BY <1>7, Rates DEF Go, GiveUp
  <2> QED BY <1>7, <2>1 DEF Go, GiveUp, IsServed
<1>8. CASE UNCHANGED rvars
  BY <1>8 DEF rvars
<1> QED BY <1>1, <1>2, <1>3, <1>4, <1>k, <1>5, <1>6, <1>7, <1>8 DEF LimiterNext

(* The sleepers are finitely many. *)
LEMMA Sleepers ==
  ASSUME LimiterTypes
  PROVE  /\ IsFiniteSet(Waiting) /\ Cardinality(Waiting) \in Nat /\ Cardinality(Waiting) <= Cardinality(Caller)
         /\ \A S \in SUBSET Waiting : /\ IsFiniteSet(S) /\ Cardinality(S) \in Nat
                                      /\ Cardinality(S) <= Cardinality(Waiting)
<1>1. Waiting \subseteq Caller /\ IsFiniteSet(Caller)
  BY LimiterAssumption DEF Waiting
<1> QED BY <1>1, FS_Subset, FS_CardinalityType

(* Where nobody begins or ends to sleep and no tokens move, nothing is owed. *)
LEMMA PaidStays ==
  ASSUME LimiterTypes, LimiterTypes', Paid, Waiting' = Waiting, UNCHANGED <<quota, wake>>,
         (IF current' = NoLimiter THEN Full ELSE tokens'[current'])
           <= (IF current = NoLimiter THEN Full ELSE tokens[current])
  PROVE  Paid'
<1> USE Rates DEF LimiterTypes
<1>1. Token * Cardinality(Waiting) \in Nat
  BY Sleepers
<1>2. quota' >= (IF current' = NoLimiter THEN Full ELSE tokens'[current']) + Token * Cardinality(Waiting')
  BY <1>1 DEF Paid
<1> QED BY <1>2 DEF Paid

(* A tick gives the quota at least what it gives the bucket. *)
LEMMA TickPays ==
  ASSUME LimiterTypes, LimiterTypes', OneBucket, Paid, LimiterTick
  PROVE  Paid'
<1> USE Rates DEF LimiterTypes
<1>1. /\ Waiting' = Waiting /\ current' = current
      /\ quota' = Least(FullQuota, quota + Fastest)
      /\ \A c \in Caller : wake'[c] = Greatest(0, wake[c] - 1)
  BY DEF LimiterTick, Waiting, Fastest
<1>2. quota' >= quota /\ (quota' = quota + Fastest \/ quota' = FullQuota)
  BY <1>1 DEF Least
<1>3. /\ Cardinality(Waiting) \in Nat /\ Cardinality(Waiting) <= Cardinality(Caller)
      /\ \A S \in SUBSET Waiting : Cardinality(S) \in Nat /\ Cardinality(S) <= Cardinality(Caller)
  BY Sleepers
<1>4. Token * Cardinality(Waiting) \in Nat /\ Token * Cardinality(Waiting) <= Token * Cardinality(Caller)
  BY <1>3, Product
<1>5. quota' >= (IF current' = NoLimiter THEN Full ELSE tokens'[current']) + Token * Cardinality(Waiting')
  <2>1. CASE current = NoLimiter
    BY <1>1, <1>2, <1>4, <2>1 DEF Paid
  <2>2. CASE current # NoLimiter
    <3>1. current \in Limiter /\ current \in made
      BY <2>2
    <3>2. tokens'[current] <= tokens[current] + RateOf(delay[current]) /\ tokens'[current] <= Full
      <4>1. tokens'[current] = Least(Full, tokens[current] + RateOf(delay[current]))
        BY <3>1 DEF LimiterTick
      <4>2. tokens[current] + RateOf(delay[current]) \in Int
        BY <3>1
      <4> QED BY <4>1, <4>2 DEF Least
    <3>3. RateOf(delay[current]) \in Nat /\ RateOf(delay[current]) <= Fastest /\ tokens[current] \in Int
          /\ tokens'[current] \in Int
      BY <3>1
    <3>4. quota >= tokens[current] + Token * Cardinality(Waiting)
      BY <2>2 DEF Paid
    <3>5. CASE quota' = quota + Fastest
      BY <1>1, <1>4, <2>2, <3>2, <3>3, <3>4, <3>5
    <3>6. CASE quota' = FullQuota
      BY <1>1, <1>4, <2>2, <3>2, <3>3, <3>6
    <3> QED BY <1>2, <3>5, <3>6
  <2> QED BY <2>1, <2>2
<1>6. ASSUME NEW S \in SUBSET Waiting', S # {}
      PROVE  \E c \in S : quota' + Fastest * wake'[c] >= Token * Cardinality(S)
  <2>1. PICK c \in S : quota + Fastest * wake[c] >= Token * Cardinality(S)
    BY <1>1, <1>6 DEF Paid
  <2>2. c \in Caller /\ wake[c] \in Nat /\ wake'[c] \in Nat /\ wake'[c] = Greatest(0, wake[c] - 1)
    BY <1>1 DEF Waiting
  <2>3. Cardinality(S) \in Nat /\ Token * Cardinality(S) \in Nat /\ Token * Cardinality(S) <= Token * Cardinality(Caller)
    BY <1>1, <1>3, Product
  <2>4. Fastest * wake'[c] \in Nat
    BY <2>2
  <2>5. CASE quota' = FullQuota
    BY <2>3, <2>4, <2>5
  <2>6. CASE quota' = quota + Fastest
    <3>1. CASE wake[c] = 0
      <4>1. Fastest * wake[c] = 0
        BY <3>1
      <4> QED BY <2>1, <2>3, <2>4, <2>6, <4>1
    <3>2. CASE wake[c] # 0
      <4> DEFINE n == wake'[c]
      <4>1. wake[c] = n + 1 /\ n \in Nat
        BY <2>2, <3>2 DEF Greatest
      <4> HIDE DEF n
      <4>2. Fastest * (n + 1) = Fastest * n + Fastest
        BY <4>1
      <4>3. Fastest * wake[c] = Fastest * wake'[c] + Fastest
        BY <4>1, <4>2 DEF n
      <4> QED BY <2>1, <2>3, <2>4, <2>6, <4>3
    <3> QED BY <3>1, <3>2
  <2> QED BY <1>2, <2>5, <2>6
<1>7. quota' >= 0
  BY <1>2 DEF Paid
<1> QED BY <1>5, <1>6, <1>7 DEF Paid

(* Who reserves sleeps long enough for all who sleep. *)
LEMMA ReservePays ==
  ASSUME LimiterTypes, LimiterTypes', OneBucket, Paid, NEW c \in Caller, TakeToken(c)
  PROVE  Paid'
<1> USE Rates DEF LimiterTypes
<1>1. /\ lim[c] = current /\ current # NoLimiter /\ current \in Limiter /\ c \notin Waiting
      /\ Waiting' = Waiting \cup {c} /\ UNCHANGED <<quota, current>>
      /\ tokens'[current] = tokens[current] - Token
      /\ wake'[c] = TicksFor(tokens'[current], RateOf(delay[current]))
      /\ \A d \in Caller \ {c} : wake'[d] = wake[d]
  <2>1. lim[c] = current /\ current # NoLimiter
    BY DEF TakeToken, OneBucket
  <2> QED BY <2>1 DEF TakeToken, Waiting
<1>2. /\ Cardinality(Waiting) \in Nat /\ Cardinality(Waiting') = Cardinality(Waiting) + 1
  BY <1>1, Sleepers, FS_AddElement
<1>3. Token * Cardinality(Waiting') = Token * Cardinality(Waiting) + Token
      /\ Token * Cardinality(Waiting) \in Nat
  <2> DEFINE n == Cardinality(Waiting)
  <2>1. n \in Nat /\ Cardinality(Waiting') = n + 1
    BY <1>2
  <2> HIDE DEF n
  <2>2. Token * (n + 1) = Token * n + Token /\ Token * n \in Nat
    BY <2>1
  <2> QED BY <2>1, <2>2 DEF n
<1>4. quota >= tokens'[current] + Token * Cardinality(Waiting')
  BY <1>1, <1>3 DEF Paid
<1>5. quota + Fastest * wake'[c] >= Token * Cardinality(Waiting')
  <2> DEFINE rate == RateOf(delay[current])
             left == tokens'[current]
  <2>1. rate \in Nat \ {0} /\ rate <= Fastest /\ left \in Int
    BY <1>1
  <2> HIDE DEF rate, left
  <2>2. wake'[c] \in Nat /\ left + rate * wake'[c] >= 0
    BY <1>1, <2>1, TicksPay DEF rate, left
  <2>3. rate * wake'[c] <= Fastest * wake'[c] /\ rate * wake'[c] \in Nat /\ Fastest * wake'[c] \in Nat
    <3> DEFINE n == wake'[c]
    <3>1. n \in Nat /\ Fastest \in Nat
      BY <2>2
    <3> HIDE DEF n
    <3>2. rate * n <= Fastest * n /\ rate * n \in Nat /\ Fastest * n \in Nat
      BY <2>1, <3>1, Product
    <3> QED BY <3>2 DEF n
  <2> QED BY <1>3, <1>4, <2>1, <2>2, <2>3 DEF left
<1>6. ASSUME NEW S \in SUBSET Waiting', S # {}
      PROVE  \E d \in S : quota' + Fastest * wake'[d] >= Token * Cardinality(S)
  <2>1. CASE c \in S
    <3>1. Cardinality(S) \in Nat /\ Cardinality(S) <= Cardinality(Waiting') /\ Cardinality(Waiting') \in Nat
      BY <1>1, <1>2, Sleepers, FS_AddElement, FS_Subset, FS_CardinalityType
    <3>2. Token * Cardinality(S) <= Token * Cardinality(Waiting') /\ Token * Cardinality(S) \in Nat
      BY <3>1, Product
    <3>3. Fastest * wake'[c] \in Nat
      OBVIOUS
    <3> QED BY <1>1, <1>3, <1>5, <2>1, <3>2, <3>3
  <2>2. CASE c \notin S
    <3>1. S \in SUBSET Waiting
      BY <1>1, <2>2
    <3>2. PICK d \in S : quota + Fastest * wake[d] >= Token * Cardinality(S)
      BY <1>6, <3>1 DEF Paid
    <3>3. wake'[d] = wake[d]
      BY <1>1, <2>2, <3>1 DEF Waiting
    <3> QED BY <1>1, <3>2, <3>3
  <2> QED BY <2>1, <2>2
<1> QED BY <1>1, <1>4, <1>6 DEF Paid

(* Who goes has a token of the quota, and leaves one to each who still       *)
(* sleeps; who gives up only leaves more.                                    *)
LEMMA ServedPays ==
  ASSUME LimiterTypes, LimiterTypes', OneBucket, Paid, NEW c \in Caller, Go(c) \/ GiveUp(c)
  PROVE  Paid'
<1> USE Rates DEF LimiterTypes
<1>1. /\ lim[c] = current /\ current # NoLimiter /\ current \in Limiter
      /\ Waiting' = Waiting \ {c} /\ UNCHANGED <<current, tokens>>
      /\ \A d \in Caller \ {c} : wake'[d] = wake[d]
  <2>1. lim[c] = current /\ current # NoLimiter
    BY DEF Go, GiveUp, OneBucket
  <2> QED BY <2>1 DEF Go, GiveUp, IsServed, Waiting
<1>2. \/ c \in Waiting /\ wake[c] = 0 /\ quota' = quota - Token
      \/ quota' = quota
  BY DEF Go, GiveUp, Waiting
<1>3. Cardinality(Waiting) \in Nat /\ IsFiniteSet(Waiting)
      /\ Cardinality(Waiting') = IF c \in Waiting THEN Cardinality(Waiting) - 1 ELSE Cardinality(Waiting)
  BY <1>1, Sleepers, FS_RemoveElement
<1>4. Cardinality(Waiting') \in Nat /\ Token * Cardinality(Waiting') \in Nat
      /\ Token * Cardinality(Waiting) = Token * Cardinality(Waiting') + (IF c \in Waiting THEN Token ELSE 0)
  <2>1. Cardinality(Waiting') \in Nat
    BY Sleepers, <1>1, <1>3, FS_RemoveElement, FS_CardinalityType
  <2> QED BY <1>3, <2>1
<1>5. quota' >= tokens'[current] + Token * Cardinality(Waiting')
  <2>1. quota >= tokens[current] + Token * Cardinality(Waiting)
    BY <1>1 DEF Paid
  <2> QED BY <1>1, <1>2, <1>4, <2>1
<1>6. quota' >= 0
  <2>1. CASE c \in Waiting /\ wake[c] = 0 /\ quota' = quota - Token
    <3>1. \E d \in {c} : quota + Fastest * wake[d] >= Token * Cardinality({c})
      <4>1. {c} \in SUBSET Waiting /\ {c} # {}
        BY <2>1
      <4> HIDE DEF Waiting
      <4> QED BY <4>1 DEF Paid
    <3>2. Cardinality({c}) = 1
      BY FS_Singleton
    <3> QED BY <2>1, <3>1, <3>2
  <2> QED BY <1>2, <2>1 DEF Paid
<1>7. ASSUME NEW S \in SUBSET Waiting', S # {}
      PROVE  \E d \in S : quota' + Fastest * wake'[d] >= Token * Cardinality(S)
  <2>1. S \in SUBSET Waiting /\ c \notin S /\ IsFiniteSet(S) /\ Cardinality(S) \in Nat
    BY <1>1, Sleepers
  <2>2. \A d \in S : wake'[d] = wake[d] /\ wake[d] \in Nat /\ Fastest * wake[d] \in Nat
    BY <1>1, <2>1 DEF Waiting
  <2>3. CASE c \in Waiting /\ wake[c] = 0 /\ quota' = quota - Token
    <3> DEFINE T == S \cup {c}
    <3>1. T \in SUBSET Waiting /\ T # {}
      BY <2>1, <2>3
    <3>c. Cardinality(T) = Cardinality(S) + 1
      BY <2>1, FS_AddElement
    <3>2. PICK d \in T : quota + Fastest * wake[d] >= Token * Cardinality(T)
      BY <3>1 DEF Paid
    <3>3. Token * Cardinality(T) = Token * Cardinality(S) + Token /\ Token * Cardinality(S) \in Nat
      <4> DEFINE n == Cardinality(S)
      <4>1. n \in Nat /\ Cardinality(T) = n + 1
        BY <2>1, <3>c
      <4> HIDE DEF n, T
      <4>2. Token * (n + 1) = Token * n + Token /\ Token * n \in Nat
        BY <4>1
      <4> QED BY <4>1, <4>2 DEF n
    <3> HIDE DEF T
    <3>4. CASE d \in S
      BY <2>2, <2>3, <3>2, <3>3, <3>4
    <3>5. CASE d = c
      <4>1. quota >= Token * Cardinality(S) + Token
        BY <2>3, <3>2, <3>3, <3>5
      <4>2. PICK e \in S : TRUE
        BY <1>7
      <4> QED BY <2>2, <2>3, <3>3, <4>1, <4>2
    <3> QED BY <3>4, <3>5 DEF T
  <2>4. CASE quota' = quota
    <3>1. PICK d \in S : quota + Fastest * wake[d] >= Token * Cardinality(S)
      BY <1>7, <2>1 DEF Paid
    <3> QED BY <2>2, <2>4, <3>1
  <2> QED BY <1>2, <2>3, <2>4
<1> QED BY <1>1, <1>5, <1>6, <1>7 DEF Paid

(* The bucket and the quota at every step. *)
LEMMA BucketStep == LimiterInv /\ [LimiterNext]_rvars => LimiterInv'
<1> SUFFICES ASSUME LimiterInv, [LimiterNext]_rvars PROVE LimiterInv'
  OBVIOUS
<1> USE DEF LimiterInv, histVars
<1>t. LimiterTypes'
  BY LimiterTyped
<1>f. SUFFICES ASSUME ~split' PROVE OneBucket' /\ Paid'
  BY <1>t
<1>o. ~split /\ OneBucket /\ Paid
  <2>1. split => split'
    BY DEF LimiterNext, ObserveLatency, DropIdle, EndOfCrawl, LimiterTick, GetRead, GetKnown, GetCreate,
           NewLimiter, TakeToken, Go, GiveUp, IsServed, rvars
  <2> QED BY <1>f, <2>1
<1>1. CASE ObserveLatency \/ EndOfCrawl \/ UNCHANGED rvars
  <2>1. UNCHANGED <<current, tokens, allowance, lpc, lim, wake, turn, quota>> /\ Waiting' = Waiting
    BY <1>1 DEF ObserveLatency, EndOfCrawl, rvars, Waiting
  <2>2. Paid'
    <3>1. current # NoLimiter => tokens[current] \in Int
      BY DEF LimiterTypes
    <3> QED BY <2>1, <3>1, <1>o, <1>t, Rates, PaidStays
  <2> QED BY <2>1, <2>2, <1>o DEF OneBucket
<1>2. CASE DropIdle
  <2>1. /\ current' = NoLimiter /\ tokens[current] = Full /\ ~\E c \in Caller : lim[c] = current
        /\ UNCHANGED <<tokens, lpc, lim, wake, turn, quota, allowance>> /\ Waiting' = Waiting
        /\ current # NoLimiter
    BY <1>2, <1>f DEF DropIdle, Waiting
  <2>2. Paid'
    BY <2>1, <1>o, <1>t, Rates, PaidStays
  <2> QED BY <2>1, <2>2, <1>o DEF OneBucket
<1>3. CASE LimiterTick
  <2>1. Paid'
    BY <1>3, <1>o, <1>t, TickPays
  <2>2. /\ UNCHANGED <<current, lpc, lim>> /\ Waiting' = Waiting
        /\ \A c \in Caller : wake'[c] = Greatest(0, wake[c] - 1) /\ turn'[c] = Greatest(0, turn[c] - 1)
    BY <1>3 DEF LimiterTick, Waiting
  <2>3. allowance' = IF current' = NoLimiter THEN Full ELSE tokens'[current']
    BY <1>3, <1>o DEF LimiterTick, OneBucket, LimiterTypes
  <2>4. \A c \in Waiting' : wake'[c] >= turn'[c]
    BY <2>2, <1>o DEF OneBucket, Waiting, Greatest, LimiterTypes
  <2> QED BY <2>1, <2>2, <2>3, <2>4, <1>o DEF OneBucket
<1>4. ASSUME NEW c \in Caller, GetRead(c) \/ GetKnown(c) PROVE OneBucket' /\ Paid'
  <2>1. /\ UNCHANGED <<current, tokens, allowance, wake, turn, quota>> /\ Waiting' = Waiting
    BY <1>4 DEF GetRead, GetKnown, AskOf, Waiting, LimiterTypes
  <2>3. \A d \in Caller : lim'[d] \in {current, NoLimiter}
    BY <1>4, <1>o DEF GetRead, GetKnown, AskOf, OneBucket, LimiterTypes
  <2>2. Paid'
    BY <2>1, <1>o, <1>t, Rates, PaidStays DEF LimiterTypes
  <2> QED BY <2>1, <2>2, <2>3, <1>o DEF OneBucket
<1>5. ASSUME NEW c \in Caller, GetCreate(c) PROVE OneBucket' /\ Paid'
  <2>1. UNCHANGED <<allowance, wake, turn, quota>>
    BY <1>5 DEF GetCreate
  <2>3. /\ current' # NoLimiter /\ tokens'[current'] = IF current = NoLimiter THEN Full ELSE tokens[current]
        /\ AskOf(c, current') /\ (current # NoLimiter => current' = current)
    BY <1>5, LimiterAssumption DEF GetCreate, NewLimiter, LimiterTypes
  <2>4. \A d \in Caller : lim'[d] \in {current', NoLimiter}
    BY <2>3, <1>o DEF AskOf, OneBucket, LimiterTypes
  <2>5. Waiting' = Waiting
    BY <1>5, <2>3 DEF GetCreate, AskOf, Waiting, LimiterTypes
  <2>2. Paid'
    <3>1. tokens'[current'] \in Int
      BY <1>t, <2>3 DEF LimiterTypes
    <3> QED BY <2>1, <2>3, <2>5, <3>1, <1>o, <1>t, PaidStays
  <2> QED BY <2>1, <2>2, <2>3, <2>4, <2>5, <1>o DEF OneBucket
<1>6. ASSUME NEW c \in Caller, TakeToken(c) PROVE OneBucket' /\ Paid'
  <2>1. Paid'
    BY <1>6, <1>o, <1>t, ReservePays
  <2>2. lim[c] = current /\ current # NoLimiter /\ current \in Limiter /\ allowance = tokens[current]
    BY <1>6, <1>o DEF TakeToken, OneBucket, LimiterTypes
  <2>3. /\ wake'[c] = turn'[c] /\ UNCHANGED <<current, lim>> /\ allowance' = tokens'[current]
        /\ \A d \in Caller \ {c} : wake'[d] = wake[d] /\ turn'[d] = turn[d] /\ lpc'[d] = lpc[d]
    BY <1>6, <2>2 DEF TakeToken, LimiterTypes
  <2>4. ASSUME NEW d \in Waiting' PROVE wake'[d] >= turn'[d]
    <3>1. d \in Caller /\ wake'[d] \in Nat
      BY <1>t DEF Waiting, LimiterTypes
    <3>2. CASE d = c
      BY <2>3, <3>1, <3>2
    <3>3. CASE d # c
      <4>1. d \in Waiting /\ wake'[d] = wake[d] /\ turn'[d] = turn[d]
        BY <2>3, <3>1, <3>3 DEF Waiting
      <4> QED BY <4>1, <1>o DEF OneBucket
    <3> QED BY <3>2, <3>3
  <2>5. \A d \in Caller : lim'[d] \in {current', NoLimiter}
    BY <2>3, <1>o DEF OneBucket
  <2>6. allowance' = IF current' = NoLimiter THEN Full ELSE tokens'[current']
    BY <2>2, <2>3
  <2> QED BY <2>1, <2>4, <2>5, <2>6 DEF OneBucket
<1>7. ASSUME NEW c \in Caller, Go(c) \/ GiveUp(c) PROVE OneBucket' /\ Paid'
  <2>1. Paid'
    BY <1>7, <1>o, <1>t, ServedPays
  <2>2. /\ UNCHANGED <<current, tokens, allowance>> /\ lpc'[c] = "idle"
        /\ \A d \in Caller \ {c} : wake'[d] = wake[d] /\ turn'[d] = turn[d] /\ lpc'[d] = lpc[d]
        /\ \A d \in Caller : lim'[d] \in {current, NoLimiter}
    BY <1>7, <1>o DEF Go, GiveUp, IsServed, OneBucket, LimiterTypes
  <2>3. \A d \in Waiting' : wake'[d] >= turn'[d]
    BY <2>2, <1>o DEF OneBucket, Waiting
  <2> QED BY <2>1, <2>2, <2>3, <1>o DEF OneBucket
<1> QED BY <1>1, <1>2, <1>3, <1>4, <1>5, <1>6, <1>7 DEF LimiterNext

(* RateRespected: under the read and then the write lock of get the callers  *)
(* meet in one limiter, from which each reserves in turn; and a quota filled *)
(* at the fastest rate always has the tokens of those who sleep, or will     *)
(* have them when they wake, however the rate changes meanwhile.             *)
THEOREM LimiterRespectsRate == LimiterSpec => []RateRespected
<1>1. LimiterInit => LimiterInv
  <2> SUFFICES ASSUME LimiterInit PROVE LimiterInv
    OBVIOUS
  <2>1. LimiterTypes
    BY LimiterAssumption, Rates DEF LimiterInit, LimiterTypes
  <2>2. Waiting = {} /\ Cardinality(Waiting) = 0
    BY FS_EmptySet DEF LimiterInit, Waiting
  <2>3. Paid
    <3>1. Token * Cardinality(Waiting) = 0 /\ Token * Cardinality(Caller) \in Nat
      BY <2>2, Rates
    <3> QED BY <2>2, <3>1, Rates DEF LimiterInit, Paid
  <2> QED BY <2>1, <2>2, <2>3 DEF LimiterInit, LimiterInv, OneBucket
<1>2. LimiterInv => RateRespected
  BY DEF LimiterInv, OneBucket, Paid, Waiting, RateRespected
<1> QED BY <1>1, <1>2, BucketStep, PTL DEF LimiterSpec

-----------------------------------------------------------------------------
(* The scheduler. *)

(* The types the proof needs. *)
SchedulerTypes ==
  /\ cronOf \in [Job -> Cron] /\ tick \in Nat /\ starts \in Nat
  /\ jobAt \in [Runner -> {"none", "plan", "wait", "run", "over"}]
  /\ dueAt \in [Runner -> Int] /\ lastRun \in [Runner -> Int] /\ afterCancel \in [Runner -> Nat]

(* A goroutine has started its job in no minute yet to come; with its        *)
(* context cancelled it has started it once, and then waits for a tick to    *)
(* come if it waits at all; and its timer, stopped or not, is set to the     *)
(* minute that is right.                                                     *)
KeepsTime(r) ==
  /\ lastRun[r] <= MinuteOf(tick)
  /\ ~NoWait(cronOf[r[1]]) =>
       /\ afterCancel[r] <= 1
       /\ afterCancel[r] = 1 => r[2] \in cancelled /\ (jobAt[r] = "wait" => dueAt[r] > tick)
  /\ jobAt[r] = "wait" /\ cronOf[r[1]].kind = "fields" => WaitsRightly(r) \/ WaitsADay(r)

SchedulerInv == SchedulerTypes /\ \A r \in Runner : KeepsTime(r)

(* The minutes of the calendar: a tick is in one that does not end before    *)
(* it, none goes back, and each begins with a tick of its own.               *)
LEMMA MinutesGo ==
  /\ Ticks \in Nat \ {0} /\ Ticks * Minutes * Hours \in Nat \ {0} /\ Year \in Nat
  /\ \A t \in Nat : /\ MinuteOf(t) \in Nat /\ Ticks * (MinuteOf(t) + 1) > t
                    /\ MinuteOf(t + 1) >= MinuteOf(t)
  /\ \A m \in Nat : MinuteOf(Ticks * m) = m
<1>1. /\ Ticks \in Nat \ {0} /\ Minutes \in Nat \ {0} /\ Hours \in Nat \ {0}
      /\ Days \in Nat \ {0} /\ Months \in Nat \ {0}
  BY CalendarAssumption
<1>2. Ticks * Minutes * Hours \in Nat \ {0}
  <2>1. Ticks * Minutes \in Nat \ {0}
    BY <1>1
  <2> QED BY <1>1, <2>1
<1>3. Year \in Nat
  BY <1>1 DEF Year
<1>4. ASSUME NEW t \in Nat
      PROVE  /\ MinuteOf(t) \in Nat /\ Ticks * (MinuteOf(t) + 1) > t
             /\ MinuteOf(t + 1) >= MinuteOf(t)
  BY <1>1 DEF MinuteOf
<1>5. ASSUME NEW m \in Nat PROVE MinuteOf(Ticks * m) = m
  BY <1>1 DEF MinuteOf
<1> QED BY <1>1, <1>2, <1>3, <1>4, <1>5

(* For fields nextRun returns what is yet to come: the first minute the      *)
(* expression names, or a day later when none of the year ahead is.          *)
LEMMA NextIsFirst ==
  ASSUME NEW c \in Cron, NEW t \in Nat
  PROVE  /\ c.kind = "every" => nextRun(c, t) = t + c.every
         /\ c.kind # "every" =>
              /\ nextRun(c, t) \in Nat /\ nextRun(c, t) > t
              /\ \/ \E p \in Nat : /\ nextRun(c, t) = Ticks * p /\ p > MinuteOf(t) /\ matchCron(c, p)
                                   /\ \A m \in MinuteOf(t) + 1..p - 1 : ~matchCron(c, m)
                 \/ nextRun(c, t) = t + Ticks * Minutes * Hours /\ \A m \in Ahead(t) : ~matchCron(c, m)
<1> DEFINE M == {m \in Ahead(t) : matchCron(c, m)}
           first == CHOOSE m \in M : \A k \in M : m <= k
<1>0. MinuteOf(t) \in Nat /\ Year \in Nat /\ Ticks \in Nat /\ Ticks * (MinuteOf(t) + 1) > t
  BY MinutesGo
<1>2. CASE c.kind = "every"
  BY <1>2 DEF nextRun
<1>3. CASE c.kind # "every" /\ M = {}
  <2>1. nextRun(c, t) = t + Ticks * Minutes * Hours
    BY <1>3 DEF nextRun
  <2>2. t + Ticks * Minutes * Hours \in Nat /\ t + Ticks * Minutes * Hours > t
    <3>1. Ticks * Minutes * Hours \in Nat \ {0}
      BY MinutesGo
    <3> HIDE DEF M
    <3> QED BY <3>1
  <2>3. \A m \in Ahead(t) : ~matchCron(c, m)
    BY <1>3
  <2> HIDE DEF M
  <2> QED BY <1>3, <2>1, <2>2, <2>3
<1>4. CASE c.kind # "every" /\ M # {}
  <2>1. nextRun(c, t) = Ticks * first
    BY <1>4 DEF nextRun
  <2>2. first \in M /\ \A k \in M : first <= k
    <3>1. MinuteOf(t) + Year \in Nat
      BY <1>0
    <3>2. M \in SUBSET (0..MinuteOf(t) + Year)
      <4>1. ASSUME NEW m \in M PROVE m \in 0..MinuteOf(t) + Year
        BY <1>0 DEF Ahead
      <4> QED BY <4>1
    <3>3. \E k \in M : \A j \in M : k <= j
      BY <1>4, <3>1, <3>2, SmallestIs
    <3> QED BY <3>3
  <2> HIDE DEF first
  <2>3. first \in Nat /\ first > MinuteOf(t) /\ first <= MinuteOf(t) + Year /\ matchCron(c, first)
    BY <2>2, <1>0 DEF Ahead
  <2>4. \A m \in MinuteOf(t) + 1..first - 1 : ~matchCron(c, m)
    <3>1. SUFFICES ASSUME NEW m \in MinuteOf(t) + 1..first - 1, matchCron(c, m) PROVE FALSE
      OBVIOUS
    <3>2. m \in Ahead(t)
      BY <2>3, <1>0 DEF Ahead
    <3>3. m < first
      BY <2>3, <1>0
    <3>4. first <= m
      BY <3>1, <3>2, <2>2
    <3> QED BY <3>3, <3>4, <2>3, <1>0
  <2>5. Ticks * first \in Nat /\ Ticks * first > t
    <3>1. first >= MinuteOf(t) + 1
      BY <2>3, <1>0
    <3>2. Ticks * first >= Ticks * (MinuteOf(t) + 1)
      BY <3>1, <2>3, <1>0
    <3> QED BY <3>2, <2>3, <1>0
  <2> HIDE DEF M
  <2> QED BY <1>4, <2>1, <2>3, <2>4, <2>5
<1> QED BY <1>2, <1>3, <1>4

(* A timer is set to no tick that has passed, and to one yet to come unless  *)
(* the interval leaves no time to wait; for fields it is set to what nextRun *)
(* returned.                                                                 *)
LEMMA TimerAhead ==
  ASSUME NEW c \in Cron, NEW t \in Nat
  PROVE  /\ TimerOf(c, t) \in Nat /\ TimerOf(c, t) >= t
         /\ ~NoWait(c) => TimerOf(c, t) > t
         /\ c.kind # "every" => TimerOf(c, t) = nextRun(c, t)
<1>1. c.every \in Int /\ Ticks \in Nat \ {0}
  BY CalendarAssumption
<1>2. CASE c.kind = "every"
  <2>1. nextRun(c, t) = t + c.every
    BY <1>2, NextIsFirst
  <2>2. nextRun(c, t + Ticks) = t + Ticks + c.every
    <3>1. t + Ticks \in Nat
      BY <1>1
    <3> QED BY <1>2, <3>1, NextIsFirst
  <2>3. TimerOf(c, t) = IF (IF t + c.every < t THEN t + Ticks + c.every ELSE t + c.every) < t THEN t
                        ELSE IF t + c.every < t THEN t + Ticks + c.every ELSE t + c.every
    BY <2>1, <2>2 DEF TimerOf
  <2> QED BY <1>1, <1>2, <2>3 DEF NoWait
<1>3. CASE c.kind # "every"
  <2>1. nextRun(c, t) \in Nat /\ nextRun(c, t) > t
    BY <1>3, NextIsFirst
  <2>2. TimerOf(c, t) = nextRun(c, t)
    BY <2>1 DEF TimerOf
  <2> QED BY <1>3, <2>1, <2>2
<1> QED BY <1>2, <1>3

(* A goroutine that plans its next run.                                      *)
LEMMA PlanKeeps ==
  ASSUME SchedulerInv, NEW r \in Runner, Plan(r)
  PROVE  KeepsTime(r)'
<1> DEFINE c == cronOf[r[1]]
           n == TimerOf(c, tick)
<1>1. /\ c \in Cron /\ tick \in Nat /\ jobAt'[r] = "wait" /\ dueAt'[r] = n
      /\ cronOf' = cronOf /\ tick' = tick /\ lastRun' = lastRun /\ afterCancel' = afterCancel
      /\ cancelled' = cancelled
  BY DEF SchedulerInv, SchedulerTypes, Plan, Runner
<1>2. n \in Nat /\ (~NoWait(c) => n > tick)
  BY <1>1, TimerAhead
<1>3. lastRun[r] \in Int /\ lastRun[r] <= MinuteOf(tick) /\ MinuteOf(tick) \in Nat
  BY <1>1, MinutesGo DEF SchedulerInv, SchedulerTypes, KeepsTime
<1>4. ASSUME c.kind = "fields" PROVE WaitsRightly(r)' \/ WaitsADay(r)'
  <2>1. CASE \E p \in Nat : /\ n = Ticks * p /\ p > MinuteOf(tick) /\ matchCron(c, p)
                            /\ \A m \in MinuteOf(tick) + 1..p - 1 : ~matchCron(c, m)
    <3>1. PICK p \in Nat : /\ n = Ticks * p /\ p > MinuteOf(tick) /\ matchCron(c, p)
                           /\ \A m \in MinuteOf(tick) + 1..p - 1 : ~matchCron(c, m)
      BY <2>1
    <3>2. MinuteOf(n) = p
      BY <3>1, MinutesGo
    <3>3. lastRun[r] # p
      BY <1>3, <3>1
    <3> HIDE DEF n
    <3> QED BY <1>1, <3>1, <3>2, <3>3 DEF WaitsRightly
  <2>2. CASE n = tick + Ticks * Minutes * Hours /\ \A m \in Ahead(tick) : ~matchCron(c, m)
    <3> HIDE DEF n
    <3>1. n - Ticks * Minutes * Hours = tick
      BY <2>2, <1>1, MinutesGo
    <3> QED BY <3>1, <2>2, <1>1 DEF WaitsADay
  <2>3. n = nextRun(c, tick)
    BY <1>1, <1>4, TimerAhead
  <2>4. \/ \E p \in Nat : /\ nextRun(c, tick) = Ticks * p /\ p > MinuteOf(tick) /\ matchCron(c, p)
                         /\ \A m \in MinuteOf(tick) + 1..p - 1 : ~matchCron(c, m)
        \/ nextRun(c, tick) = tick + Ticks * Minutes * Hours /\ \A m \in Ahead(tick) : ~matchCron(c, m)
    <3> HIDE DEF c
    <3> QED BY <1>1, <1>4, NextIsFirst
  <2> HIDE DEF n
  <2> QED BY <2>1, <2>2, <2>3, <2>4
<1> HIDE DEF n
<1>5. /\ lastRun[r] <= MinuteOf(tick)
      /\ ~NoWait(c) => afterCancel[r] <= 1 /\ (afterCancel[r] = 1 => r[2] \in cancelled)
  BY DEF SchedulerInv, KeepsTime
<1> QED BY <1>1, <1>2, <1>4, <1>5 DEF KeepsTime

(* The types are kept. *)
LEMMA SchedulerTyped == SchedulerTypes /\ [SchedulerNext]_schedVars => SchedulerTypes'
<1> SUFFICES ASSUME SchedulerTypes, [SchedulerNext]_schedVars PROVE SchedulerTypes'
  OBVIOUS
<1> USE CalendarAssumption DEF SchedulerTypes
<1>1. CASE Start \/ StopCancels \/ StopTimers \/ TickPasses \/ (\E j \in Job : Add(j)) \/ UNCHANGED schedVars
  BY <1>1 DEF Start, StopCancels, StopTimers, TickPasses, Add, schedVars
<1>2. ASSUME NEW r \in Runner, Plan(r) PROVE SchedulerTypes'
  <2>1. TimerOf(cronOf[r[1]], tick) \in Nat
    BY TimerAhead DEF Runner
  <2> QED BY <1>2, <2>1 DEF Plan
<1>3. ASSUME NEW r \in Runner, Fire(r) PROVE SchedulerTypes'
  <2>0. Never \in Int
    BY DEF Never
  <2>1. MinuteOf(tick) \in Nat
    BY MinutesGo
  <2> QED BY <1>3, <2>0, <2>1 DEF Fire
<1>4. ASSUME NEW r \in Runner, JobReturns(r) \/ Leave(r) PROVE SchedulerTypes'
  BY <1>4 DEF JobReturns, Leave, Never
<1> QED BY <1>1, <1>2, <1>3, <1>4 DEF SchedulerNext

(* A tick shortens the wait, and passes for no goroutine that can go on.     *)
LEMMA TickKeeps ==
  ASSUME SchedulerInv, TickPasses, NEW r \in Runner
  PROVE  KeepsTime(r)'
<1>1. /\ tick \in Nat /\ tick' = tick + 1 /\ ~Ready(r) /\ KeepsTime(r) /\ lastRun[r] \in Int /\ dueAt[r] \in Int
      /\ UNCHANGED <<jobAt, dueAt, cronOf, lastRun, afterCancel, cancelled>>
  BY DEF SchedulerInv, SchedulerTypes, TickPasses
<1>2. MinuteOf(tick) \in Nat /\ MinuteOf(tick') \in Nat /\ MinuteOf(tick') >= MinuteOf(tick)
  <2>1. \A t \in Nat : MinuteOf(t) \in Nat /\ MinuteOf(t + 1) >= MinuteOf(t)
    BY MinutesGo
  <2>2. tick + 1 \in Nat
    BY <1>1
  <2> QED BY <1>1, <2>1, <2>2
<1>3. WaitsADay(r) => WaitsADay(r)'
  BY <1>1 DEF WaitsADay
<1>4. WaitsRightly(r) => WaitsRightly(r)'
  <2>1. SUFFICES ASSUME WaitsRightly(r), NEW m \in MinuteOf(tick') + 1..MinuteOf(dueAt[r]) - 1
                 PROVE  ~matchCron(cronOf[r[1]], m)
    BY <1>1 DEF WaitsRightly
  <2>2. MinuteOf(dueAt[r]) \in Int
    BY <1>1, CalendarAssumption DEF MinuteOf
  <2>3. m \in MinuteOf(tick) + 1..MinuteOf(dueAt[r]) - 1
    BY <1>2, <2>2
  <2> QED BY <2>1, <2>3 DEF WaitsRightly
<1> QED BY <1>1, <1>2, <1>3, <1>4 DEF KeepsTime, Ready

(* KeepsTime is inductive: planning and ticking apart, a goroutine that waits *)
(* goes on waiting for what it waited for.                                   *)
LEMMA SchedulerStep == SchedulerInv /\ [SchedulerNext]_schedVars => SchedulerInv'
<1> SUFFICES ASSUME SchedulerInv, [SchedulerNext]_schedVars, NEW r \in Runner PROVE KeepsTime(r)'
  BY SchedulerTyped DEF SchedulerInv
<1>1. CASE TickPasses
  BY <1>1, TickKeeps
<1>2. ASSUME UNCHANGED <<cronOf, tick, lastRun, afterCancel>>, jobAt'[r] # "wait" \/ jobAt'[r] = jobAt[r],
             dueAt'[r] = dueAt[r] \/ jobAt'[r] # "wait", cancelled \subseteq cancelled'
      PROVE  KeepsTime(r)'
  BY <1>2 DEF SchedulerInv, KeepsTime, WaitsRightly, WaitsADay
<1>3. CASE Start \/ StopCancels \/ StopTimers \/ (\E j \in Job : Add(j)) \/ UNCHANGED schedVars
  BY <1>2, <1>3 DEF Start, StopCancels, StopTimers, Add, schedVars, SchedulerInv, SchedulerTypes
<1>4. ASSUME NEW s \in Runner, Plan(s) PROVE KeepsTime(r)'
  <2>1. CASE s = r
    BY <1>4, <2>1, PlanKeeps
  <2>2. CASE s # r
    BY <1>2, <1>4, <2>2 DEF Plan, SchedulerInv, SchedulerTypes
  <2> QED BY <2>1, <2>2
<1>5. ASSUME NEW s \in Runner, Fire(s) PROVE KeepsTime(r)'
  <2>1. CASE s = r
    <3>1. /\ jobAt'[r] = "run" /\ lastRun'[r] = MinuteOf(tick) /\ MinuteOf(tick) \in Nat
          /\ UNCHANGED <<tick, cronOf, cancelled>> /\ dueAt[r] <= tick /\ jobAt[r] = "wait"
          /\ afterCancel'[r] = IF r[2] \in cancelled /\ afterCancel[r] < 2 THEN afterCancel[r] + 1 ELSE afterCancel[r]
      BY <1>5, <2>1, MinutesGo DEF Fire, SchedulerInv, SchedulerTypes
    <3>2. ~NoWait(cronOf[r[1]]) => afterCancel[r] = 0
      <4>1. /\ afterCancel[r] \in Nat /\ dueAt[r] \in Int /\ tick \in Nat
            /\ ~NoWait(cronOf[r[1]]) => afterCancel[r] <= 1 /\ (afterCancel[r] = 1 => dueAt[r] > tick)
        BY <3>1 DEF SchedulerInv, SchedulerTypes, KeepsTime
      <4> QED BY <4>1, <3>1
    <3> QED BY <3>1, <3>2 DEF KeepsTime
  <2>2. CASE s # r
    <3>1. /\ UNCHANGED <<tick, cronOf, cancelled>> /\ jobAt'[r] = jobAt[r] /\ dueAt'[r] = dueAt[r]
          /\ lastRun'[r] = lastRun[r] /\ afterCancel'[r] = afterCancel[r]
      BY <1>5, <2>2 DEF Fire, SchedulerInv, SchedulerTypes
    <3> QED BY <3>1 DEF SchedulerInv, KeepsTime, WaitsRightly, WaitsADay
  <2> QED BY <2>1, <2>2
<1>6. ASSUME NEW s \in Runner, JobReturns(s) \/ Leave(s) PROVE KeepsTime(r)'
  BY <1>2, <1>6 DEF JobReturns, Leave, SchedulerInv, SchedulerTypes
<1> QED BY <1>1, <1>3, <1>4, <1>5, <1>6 DEF SchedulerNext

(* JobsKeepTime: runJob plans from the tick it is at, after its job has      *)
(* returned, and nothing but its select lies between the timer and the job.  *)
THEOREM SchedulerKeepsTime == SchedulerSpec => []JobsKeepTime
<1>1. SchedulerInit => SchedulerInv
  <2> SUFFICES ASSUME SchedulerInit PROVE SchedulerInv
    OBVIOUS
  <2>1. MinuteOf(0) \in Nat /\ Never \in Int /\ Never < 0
    BY MinutesGo DEF Never
  <2> QED BY <2>1 DEF SchedulerInit, SchedulerInv, SchedulerTypes, KeepsTime
<1>2. SchedulerInv => JobsKeepTime
  BY DEF SchedulerInv, KeepsTime, JobsKeepTime
<1> QED BY <1>1, <1>2, SchedulerStep, PTL DEF SchedulerSpec
=============================================================================
