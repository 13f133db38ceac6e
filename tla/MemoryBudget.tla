------------------------------ MODULE MemoryBudget ------------------------------
(***************************************************************************)
(* internal/util/memory.go: a budget of bytes under a mutex, and a         *)
(* condition variable whose Wait runs in a helper goroutine, so that the   *)
(* reserver can select between it and its context.  Wait unlocks the mutex *)
(* the reserver locked; the helper locks it again, and hands it over with  *)
(* the message it sends.  The page pipeline reserves the size of its HTML. *)
(***************************************************************************)
EXTENDS Integers, FiniteSets

CONSTANTS
  Reserver,      \* goroutines of pages
  MaxBytes,      \* mb.maxBytes
  Bytes          \* Bytes[r]: what r reserves

ASSUME MemoryAssumption ==
  IsFiniteSet(Reserver) /\ Bytes \in [Reserver -> Nat] /\ MaxBytes \in Nat

VARIABLES
  used,          \* mb.usedBytes
  locked,        \* mb.mu is locked, by whomever
  rpc,           \* "idle", "check", "select", "holds", "gone"
  helper,        \* "none", "wait", "parked", "woken", "sent"
  fatal          \* a mutex that was not locked has been unlocked: the process is dead

mvars == <<used, locked, rpc, helper, fatal>>

MemoryInit ==
  /\ used = 0 /\ locked = FALSE /\ fatal = FALSE
  /\ rpc = [r \in Reserver |-> "idle"] /\ helper = [r \in Reserver |-> "none"]

Fits(r) == used + Bytes[r] <= MaxBytes

Unlock == locked' = FALSE /\ fatal' = ~locked

(* Reserve: now or not at all. *)
Reserve(r) ==
  /\ rpc[r] = "idle" /\ ~locked /\ Fits(r)
  /\ used' = used + Bytes[r] /\ rpc' = [rpc EXCEPT ![r] = "holds"]
  /\ UNCHANGED <<locked, helper, fatal>>

ReserveBlocking(r) ==
  /\ rpc[r] = "idle" /\ ~locked /\ locked' = TRUE /\ rpc' = [rpc EXCEPT ![r] = "check"]
  /\ UNCHANGED <<used, helper, fatal>>

(* The loop's condition: the bytes, or a helper that waits for them. *)
CheckFits(r) ==
  /\ rpc[r] = "check" /\ Fits(r)
  /\ used' = used + Bytes[r] /\ rpc' = [rpc EXCEPT ![r] = "holds"] /\ Unlock
  /\ UNCHANGED helper

CheckWaits(r) ==
  /\ rpc[r] = "check" /\ ~Fits(r)
  /\ rpc' = [rpc EXCEPT ![r] = "select"] /\ helper' = [helper EXCEPT ![r] = "wait"]
  /\ UNCHANGED <<used, locked, fatal>>

HelperParks(r) ==
  /\ helper[r] = "wait" /\ helper' = [helper EXCEPT ![r] = "parked"] /\ Unlock
  /\ UNCHANGED <<used, rpc>>

HelperLocks(r) ==
  /\ helper[r] = "woken" /\ ~locked /\ locked' = TRUE /\ helper' = [helper EXCEPT ![r] = "sent"]
  /\ UNCHANGED <<used, rpc, fatal>>

Woken(r) ==
  /\ rpc[r] = "select" /\ helper[r] = "sent"
  /\ rpc' = [rpc EXCEPT ![r] = "check"] /\ helper' = [helper EXCEPT ![r] = "none"]
  /\ UNCHANGED <<used, locked, fatal>>

(* The context ends: the deferred Unlock runs, whoever has the mutex.  When  *)
(* the helper has unlocked it and nobody has locked it since, the process    *)
(* dies.                                                                     *)
CancelReserve(r) ==
  /\ rpc[r] = "select" /\ rpc' = [rpc EXCEPT ![r] = "gone"] /\ Unlock
  /\ UNCHANGED <<used, helper>>

GiveBack(r) ==
  /\ rpc[r] = "holds" /\ ~locked
  /\ used' = (IF used < Bytes[r] THEN 0 ELSE used - Bytes[r]) /\ rpc' = [rpc EXCEPT ![r] = "idle"]
  /\ UNCHANGED <<locked, fatal>>

(* Fault: Signal in the place of Broadcast. *)
Release_Signal(r) ==
  /\ GiveBack(r)
  /\ \/ \E h \in Reserver : helper[h] = "parked" /\ helper' = [helper EXCEPT ![h] = "woken"]
     \/ (\A h \in Reserver : helper[h] # "parked") /\ UNCHANGED helper

Release(r) ==
  /\ GiveBack(r)
  /\ helper' = [h \in Reserver |-> IF helper[h] = "parked" THEN "woken" ELSE helper[h]]

MemoryNext ==
  /\ ~fatal
  /\ \E r \in Reserver :
       \/ Reserve(r) \/ ReserveBlocking(r) \/ CheckFits(r) \/ CheckWaits(r) \/ Woken(r)
       \/ HelperParks(r) \/ HelperLocks(r) \/ CancelReserve(r) \/ Release(r)

-----------------------------------------------------------------------------
HeldBytes(rs) == UNION {{r} \X (1..Bytes[r]) : r \in rs}
Holders == {r \in Reserver : rpc[r] = "holds"}

(* The budget counts what is held, no more is held than it has, and nobody   *)
(* sleeps whose bytes would fit: each Release wakes all who wait, and one    *)
(* that goes back to sleep has found the budget too full under the mutex.    *)
(* This holds as long as no reserver has been cancelled.                     *)
BudgetExact ==
  (\A r \in Reserver : rpc[r] # "gone") =>
    /\ used = Cardinality(HeldBytes(Holders))
    /\ used <= MaxBytes
    /\ \A r \in Reserver : helper[r] = "parked" => ~Fits(r)
=============================================================================
