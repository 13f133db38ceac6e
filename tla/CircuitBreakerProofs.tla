------------------------ MODULE CircuitBreakerProofs ------------------------
(***************************************************************************)
(* Theorems about CircuitBreaker: however the dispatcher's Allow, which    *)
(* does without the mutex, interleaves with the results of any number of   *)
(* requests, with any thresholds.                                          *)
(***************************************************************************)
EXTENDS CircuitBreaker, TLAPS

AllowPC == {"idle", "load", "open", "swap", "reset", "refill", "half-open", "take", "reopen", "stamp"}

(* Steps of a request that has the mutex of its breaker. *)
Locked == {"probed", "clear", "late", "flunked", "counted"}

RequestPC == {"idle", "out", "success", "failure"} \cup Locked

Fields == [state : State, failureCount : Nat, successCount : 0..(SuccessThreshold - 1),
           halfOpenProbes : -1..MaxProbes, failureAge : 0..Old, halfAge : 0..Old,
           mu : Request \cup {None}, passes : Nat, streak : Nat]

(* Types of the variables of CircuitBreaker. *)
BreakersOK == /\ entry \in Breaker \cup {None}
              /\ cb \in [Breaker -> Fields]
              /\ sweeping \in BOOLEAN
CallersOK == /\ dpc \in AllowPC /\ dcb \in Breaker \cup {None}
             /\ dpc # "idle" => dcb \in Breaker
             /\ pc \in [Request -> RequestPC] /\ rcb \in [Request -> Breaker \cup {None}]
             /\ \A r \in Request : pc[r] \notin {"idle", "out"} => rcb[r] \in Breaker

(* A mutex has one holder. *)
LockInv == \A r \in Request : pc[r] \in Locked => cb[rcb[r]].mu = r

TypeInv == BreakersOK /\ CallersOK /\ LockInv

-----------------------------------------------------------------------------
(* Types, and the mutex. *)

(* What the assumptions say of the thresholds and of New. *)
LEMMA NewTyped == New \in Fields
BY BreakerAssumption DEF New, Fields, State, Old

(* getOrCreate gives the breaker that is there, or a new one. *)
LEMMA ObtainTyped ==
  ASSUME TypeInv, NEW b \in Breaker, Obtain(b)
  PROVE  /\ BreakersOK /\ sweeping' = sweeping => BreakersOK'
         /\ \A c \in Breaker : cb'[c] = cb[c] \/ (c = b /\ cb'[c] = New /\ ~Held(c))
         /\ cb' \in [Breaker -> Fields]
BY NewTyped DEF TypeInv, BreakersOK, Obtain

(* There is no breaker at the beginning. *)
LEMMA TypeInit == BreakerInit => TypeInv
BY NewTyped, BreakerAssumption
   DEF BreakerInit, TypeInv, BreakersOK, CallersOK, LockInv, AllowPC, RequestPC, Locked

(* Time passes for a record. *)
LEMMA AgedTyped ==
  ASSUME NEW c \in Fields
  PROVE  [c EXCEPT !.failureAge = Older(@), !.halfAge = Older(@)] \in Fields
<1>1. \A n \in 0..Old : Older(n) \in 0..Old
  BY BreakerAssumption DEF Older, Old
<1> QED BY <1>1 DEF Fields

(* The updates of Allow ... *)
LEMMA AllowUpdates ==
  ASSUME NEW c \in Fields
  PROVE  /\ [c EXCEPT !.state = "half-open", !.passes = 0, !.streak = 0] \in Fields
         /\ [c EXCEPT !.failureCount = 0, !.successCount = 0, !.halfAge = 0] \in Fields
         /\ [c EXCEPT !.halfOpenProbes = MaxProbes, !.passes = OnePass(c)] \in Fields
         /\ [c EXCEPT !.state = "open", !.passes = 0] \in Fields
         /\ [c EXCEPT !.failureAge = 0] \in Fields
         /\ c.halfOpenProbes > 0 => [c EXCEPT !.halfOpenProbes = @ - 1, !.passes = OnePass(c)] \in Fields
         /\ [c EXCEPT !.halfOpenProbes = -1] \in Fields
<1>1. OnePass(c) \in Nat
  BY DEF OnePass, Fields
<1>2. 0 \in 0..Old /\ -1 \in -1..MaxProbes /\ MaxProbes \in -1..MaxProbes /\ 0 \in 0..(SuccessThreshold - 1)
  BY BreakerAssumption DEF Old
<1>3. c.halfOpenProbes > 0 => c.halfOpenProbes - 1 \in -1..MaxProbes
  BY BreakerAssumption DEF Fields
<1> QED BY <1>1, <1>2, <1>3 DEF Fields, State

(* ... and those of Success and Failure. *)
LEMMA ResultUpdates ==
  ASSUME NEW c \in Fields, NEW r \in Request
  PROVE  /\ [c EXCEPT !.mu = r] \in Fields
         /\ [c EXCEPT !.state = "closed", !.failureCount = 0, !.successCount = 0,
                      !.halfOpenProbes = MaxProbes, !.passes = 0, !.streak = 0, !.mu = None] \in Fields
         /\ c.successCount + 1 < SuccessThreshold =>
              [c EXCEPT !.successCount = @ + 1, !.halfOpenProbes = MaxProbes, !.streak = 0, !.mu = None] \in Fields
         /\ [c EXCEPT !.failureCount = 0, !.streak = 0, !.mu = None] \in Fields
         /\ [c EXCEPT !.mu = None] \in Fields
         /\ [c EXCEPT !.mu = r, !.failureCount = @ + 1, !.failureAge = 0, !.streak = @ + 1] \in Fields
         /\ [Tripped(c) EXCEPT !.successCount = 0, !.mu = None] \in Fields
         /\ [Tripped(c) EXCEPT !.mu = None] \in Fields
<1>1. 0 \in 0..Old /\ MaxProbes \in -1..MaxProbes /\ 0 \in 0..(SuccessThreshold - 1)
  BY BreakerAssumption DEF Old
<1>2. c.successCount + 1 < SuccessThreshold => c.successCount + 1 \in 0..(SuccessThreshold - 1)
  BY BreakerAssumption DEF Fields
<1>3. c.failureCount + 1 \in Nat /\ c.streak + 1 \in Nat
  BY DEF Fields
<1>4. Tripped(c) \in Fields
  BY DEF Tripped, Fields, State
<1>5. [Tripped(c) EXCEPT !.successCount = 0, !.mu = None] \in Fields /\ [Tripped(c) EXCEPT !.mu = None] \in Fields
  BY <1>1, <1>4 DEF Fields
<1> QED BY <1>1, <1>2, <1>3, <1>5 DEF Fields, State

(* Allow changes the breaker it holds. *)
LEMMA AllowTyped == TypeInv /\ Allow => BreakersOK'
<1> SUFFICES ASSUME TypeInv, Allow PROVE BreakersOK'
  OBVIOUS
<1>1. UNCHANGED <<entry, sweeping>>
  BY DEF Allow, LoadClosed, LoadOther, StillOpen, TimedOut, Swap, ResetCounts, RefillProbes, Stuck, NotStuck,
      Reopen, ReopenFails, StampFailure, TakeProbe, NoProbeLeft, Goto, Grant, Refuse
<1>2. dcb \in Breaker /\ cb[dcb] \in Fields
  BY DEF TypeInv, BreakersOK, CallersOK, At, AtLocked, Allow, LoadClosed, LoadOther, StillOpen, TimedOut, Swap,
      ResetCounts, RefillProbes, Stuck, NotStuck, Reopen, ReopenFails, StampFailure, TakeProbe, NoProbeLeft
<1>3. cb' = cb \/ \E c \in Fields : cb' = [cb EXCEPT ![dcb] = c]
  <2>1. CASE Swap \/ ResetCounts \/ Reopen \/ StampFailure \/ NoProbeLeft
    BY <1>2, <2>1, AllowUpdates DEF Swap, ResetCounts, Reopen, StampFailure, NoProbeLeft
  <2>2. ASSUME NEW r \in Request, RefillProbes(r) \/ TakeProbe(r)
        PROVE  \E c \in Fields : cb' = [cb EXCEPT ![dcb] = c]
    <3>1. CASE RefillProbes(r)
      <4>1. cb' = [cb EXCEPT ![dcb] = [cb[dcb] EXCEPT !.halfOpenProbes = MaxProbes, !.passes = OnePass(cb[dcb])]]
        BY <1>2, <3>1 DEF RefillProbes, TypeInv, BreakersOK
      <4>2. [cb[dcb] EXCEPT !.halfOpenProbes = MaxProbes, !.passes = OnePass(cb[dcb])] \in Fields
        BY <1>2, AllowUpdates
      <4> QED BY <4>1, <4>2
    <3>2. CASE TakeProbe(r)
      <4>1. cb' = [cb EXCEPT ![dcb] = [cb[dcb] EXCEPT !.halfOpenProbes = @ - 1, !.passes = OnePass(cb[dcb])]]
        BY <3>2 DEF TakeProbe
      <4>2. [cb[dcb] EXCEPT !.halfOpenProbes = @ - 1, !.passes = OnePass(cb[dcb])] \in Fields
        BY <1>2, <3>2, AllowUpdates DEF TakeProbe
      <4> QED BY <4>1, <4>2
    <3> QED BY <2>2, <3>1, <3>2
  <2>3. CASE ~(Swap \/ ResetCounts \/ Reopen \/ StampFailure \/ NoProbeLeft
               \/ \E r \in Request : RefillProbes(r) \/ TakeProbe(r))
    BY <2>3 DEF Allow, LoadClosed, LoadOther, StillOpen, TimedOut, Stuck, NotStuck, ReopenFails
  <2> QED BY <2>1, <2>2, <2>3
<1> QED BY <1>1, <1>2, <1>3 DEF TypeInv, BreakersOK

(* A request changes the breaker it has locked, or obtains one. *)
LEMMA SettleTyped == ASSUME TypeInv, NEW r \in Request, Settle(r) PROVE BreakersOK'
<1>1. CASE EndUnrecorded(r)
  BY <1>1 DEF EndUnrecorded, TypeInv, BreakersOK
<1>2. CASE \E b \in Breaker, outcome \in {"success", "failure"} : End(r, b, outcome)
  BY <1>2, ObtainTyped DEF End, TypeInv
<1>3. CASE \/ LoadInSuccess(r) \/ ProbeSucceeds(r) \/ ClosedSucceeds(r) \/ LateSuccess(r)
           \/ LoadInFailure(r) \/ ProbeFails(r) \/ CountFailure(r)
  <2>1. rcb[r] \in Breaker /\ cb[rcb[r]] \in Fields /\ UNCHANGED <<entry, sweeping>>
    BY <1>3 DEF TypeInv, BreakersOK, CallersOK, Lock, Unlock, LoadInSuccess, ProbeSucceeds, ClosedSucceeds,
         LateSuccess, LoadInFailure, ProbeFails, CountFailure
  <2>2. \E c \in Fields : cb' = [cb EXCEPT ![rcb[r]] = c]
    <3>1. CASE LoadInSuccess(r)
      BY <2>1, <3>1, ResultUpdates DEF LoadInSuccess
    <3>2. CASE ClosedSucceeds(r)
      BY <2>1, <3>2, ResultUpdates DEF ClosedSucceeds
    <3>3. CASE LateSuccess(r)
      <4>1. cb' = [cb EXCEPT ![rcb[r]] = [cb[rcb[r]] EXCEPT !.mu = None]]
        BY <2>1, <3>3 DEF LateSuccess
      <4> QED BY <2>1, <4>1, ResultUpdates
    <3>4. CASE LoadInFailure(r)
      <4>1. cb' = [cb EXCEPT ![rcb[r]] = [cb[rcb[r]] EXCEPT !.mu = r, !.failureCount = @ + 1,
                                                            !.failureAge = 0, !.streak = @ + 1]]
        BY <3>4 DEF LoadInFailure
      <4> QED BY <2>1, <4>1, ResultUpdates
    <3>5. CASE ProbeFails(r)
      <4>1. cb' = [cb EXCEPT ![rcb[r]] = [Tripped(cb[rcb[r]]) EXCEPT !.successCount = 0, !.mu = None]]
        BY <3>5 DEF ProbeFails
      <4> QED BY <2>1, <4>1, ResultUpdates
    <3>6. CASE ProbeSucceeds(r)
      <4>1. cb[rcb[r]].successCount \in Nat /\ SuccessThreshold \in Nat
        BY <2>1, BreakerAssumption DEF Fields
      <4>2. CASE cb[rcb[r]].successCount + 1 >= SuccessThreshold
        <5>1. cb' = [cb EXCEPT ![rcb[r]] = [cb[rcb[r]] EXCEPT !.state = "closed", !.failureCount = 0,
                 !.successCount = 0, !.halfOpenProbes = MaxProbes, !.passes = 0, !.streak = 0, !.mu = None]]
          BY <3>6, <4>2 DEF ProbeSucceeds
        <5> QED BY <2>1, <5>1, ResultUpdates
      <4>3. CASE ~(cb[rcb[r]].successCount + 1 >= SuccessThreshold)
        <5>1. cb' = [cb EXCEPT ![rcb[r]] = [cb[rcb[r]] EXCEPT !.successCount = @ + 1,
                       !.halfOpenProbes = MaxProbes, !.streak = 0, !.mu = None]]
          BY <3>6, <4>3 DEF ProbeSucceeds, Unlock
        <5>2. cb[rcb[r]].successCount + 1 < SuccessThreshold
          BY <4>1, <4>3
        <5> QED BY <2>1, <5>1, <5>2, ResultUpdates
      <4> QED BY <4>2, <4>3
    <3>7. CASE CountFailure(r)
      <4>1. CASE OverThreshold(cb[rcb[r]])
        <5>1. cb' = [cb EXCEPT ![rcb[r]] = [Tripped(cb[rcb[r]]) EXCEPT !.mu = None]]
          BY <3>7, <4>1 DEF CountFailure
        <5> QED BY <2>1, <5>1, ResultUpdates
      <4>2. CASE ~OverThreshold(cb[rcb[r]])
        <5>1. cb' = [cb EXCEPT ![rcb[r]] = [cb[rcb[r]] EXCEPT !.mu = None]]
          BY <3>7, <4>2 DEF CountFailure
        <5> QED BY <2>1, <5>1, ResultUpdates
      <4> QED BY <4>1, <4>2
    <3> QED BY <1>3, <3>1, <3>2, <3>3, <3>4, <3>5, <3>6, <3>7
  <2> QED BY <2>1, <2>2 DEF TypeInv, BreakersOK
<1> QED BY <1>1, <1>2, <1>3 DEF Settle

(* The records stay records of their type. *)
LEMMA BreakersTyped == TypeInv /\ [BreakerNext]_bvars => BreakersOK'
<1> SUFFICES ASSUME TypeInv, [BreakerNext]_bvars PROVE BreakersOK'
  OBVIOUS
<1> USE DEF TypeInv, BreakersOK
<1>1. CASE Tick
  BY <1>1, AgedTyped DEF Tick
<1>2. CASE AskStep
  BY <1>2, ObtainTyped DEF AskStep, Ask
<1>3. CASE Cleanup
  BY <1>3, NewTyped DEF Cleanup, CleanupCheck, CleanupDelete
<1>4. CASE UNCHANGED bvars
  BY <1>4 DEF bvars
<1> QED BY <1>1, <1>2, <1>3, <1>4, AllowTyped, SettleTyped DEF BreakerNext

-----------------------------------------------------------------------------
(* The mutex is not Allow's to take: its steps leave every mutex as it is,   *)
(* start requests and end none.                                              *)
LEMMA AllowKeepsMutex ==
  ASSUME TypeInv, Allow
  PROVE  /\ \A b \in Breaker : cb'[b].mu = cb[b].mu
         /\ rcb' = rcb
         /\ pc' = pc \/ \E r \in Request : pc[r] = "idle" /\ pc' = [pc EXCEPT ![r] = "out"]
         /\ dpc' \in AllowPC /\ dcb' \in {dcb, None} /\ (dpc' # "idle" => dcb' = dcb)
         /\ dcb \in Breaker
<1>1. cb \in [Breaker -> Fields]
  BY DEF TypeInv, BreakersOK
<1>2. dcb \in Breaker
  BY DEF TypeInv, CallersOK, At, AtLocked, Allow, LoadClosed, LoadOther, StillOpen, TimedOut, Swap,
      ResetCounts, RefillProbes, Stuck, NotStuck, Reopen, ReopenFails, StampFailure, TakeProbe, NoProbeLeft
<1>3. \A b \in Breaker : cb'[b].mu = cb[b].mu
  <2>1. CASE Swap
    <3>1. \/ cb' = cb
          \/ cb' = [cb EXCEPT ![dcb] = [cb[dcb] EXCEPT !.state = "half-open", !.passes = 0, !.streak = 0]]
      BY <2>1 DEF Swap
    <3> QED BY <1>1, <1>2, <3>1 DEF Fields
  <2>7. CASE ResetCounts
    BY <1>1, <1>2, <2>7 DEF ResetCounts, Fields
  <2>5. CASE Reopen
    BY <1>1, <1>2, <2>5 DEF Reopen, Fields
  <2>8. CASE StampFailure
    BY <1>1, <1>2, <2>8 DEF StampFailure, Fields
  <2>6. CASE NoProbeLeft
    BY <1>1, <1>2, <2>6 DEF NoProbeLeft, Fields
  <2>2. CASE \E r \in Request : RefillProbes(r)
    BY <1>1, <1>2, <2>2 DEF RefillProbes, Fields
  <2>3. CASE \E r \in Request : TakeProbe(r)
    BY <1>1, <1>2, <2>3 DEF TakeProbe, Fields
  <2>4. CASE UNCHANGED cb
    BY <2>4
  <2> QED BY <2>1, <2>2, <2>3, <2>4, <2>5, <2>6, <2>7, <2>8 DEF Allow, LoadClosed, LoadOther, StillOpen, TimedOut, Stuck, NotStuck, ReopenFails
<1>4. CASE \E r \in Request : LoadClosed(r) \/ RefillProbes(r) \/ TakeProbe(r)
  BY <1>2, <1>3, <1>4 DEF LoadClosed, RefillProbes, TakeProbe, Grant, AllowPC
<1>5. CASE LoadOther \/ StillOpen \/ TimedOut \/ Swap \/ ResetCounts
  BY <1>1, <1>2, <1>3, <1>5 DEF LoadOther, StillOpen, TimedOut, Swap, ResetCounts, Goto, Refuse, AllowPC, requests,
      Fields, State, At
<1>6. CASE Stuck \/ NotStuck \/ Reopen \/ ReopenFails \/ StampFailure \/ NoProbeLeft
  BY <1>2, <1>3, <1>6 DEF Stuck, NotStuck, Reopen, ReopenFails, StampFailure, NoProbeLeft, Goto, Refuse, AllowPC, requests
<1> QED BY <1>4, <1>5, <1>6 DEF Allow

(* A result changes the breaker of its request only, and takes its mutex *)
(* when nobody has it, or gives it back.                                 *)
LEMMA SettleMoves ==
  ASSUME TypeInv, NEW r \in Request, Settle(r)
  PROVE  /\ asking' = asking
         /\ pc' \in [Request -> RequestPC] /\ rcb' \in [Request -> Breaker \cup {None}]
         /\ pc'[r] \notin {"idle", "out"} => rcb'[r] \in Breaker
         /\ \A q \in Request \ {r} : pc'[q] = pc[q] /\ rcb'[q] = rcb[q]
         /\ pc'[r] \in Locked => /\ rcb'[r] \in Breaker /\ rcb'[r] = rcb[r]
                                 /\ cb[rcb[r]].mu = None /\ cb'[rcb[r]].mu = r
         /\ \A b \in Breaker : \/ cb'[b] = cb[b] \/ ~Held(b)
                               \/ b = rcb[r] /\ cb[b].mu \in {None, r}
<1> USE DEF TypeInv, BreakersOK, CallersOK
<1>1. CASE EndUnrecorded(r)
  BY <1>1 DEF EndUnrecorded, RequestPC, Locked, asking
<1>2. CASE \E b \in Breaker, outcome \in {"success", "failure"} : End(r, b, outcome)
  BY <1>2, ObtainTyped DEF End, RequestPC, Locked, asking
<1>3. CASE LoadInSuccess(r)
  BY <1>3 DEF LoadInSuccess, Lock, RequestPC, Locked, asking, Fields, State
<1>4. CASE LoadInFailure(r)
  BY <1>4 DEF LoadInFailure, Lock, RequestPC, Locked, asking, Fields, State
<1>5. CASE ProbeSucceeds(r)
  BY <1>5 DEF ProbeSucceeds, Unlock, RequestPC, Locked, asking, LockInv
<1>6. CASE ClosedSucceeds(r) \/ LateSuccess(r)
  BY <1>6 DEF ClosedSucceeds, LateSuccess, Unlock, RequestPC, Locked, asking, LockInv
<1>7. CASE ProbeFails(r) \/ CountFailure(r)
  BY <1>7 DEF ProbeFails, CountFailure, Unlock, RequestPC, Locked, asking, LockInv
<1> QED BY <1>1, <1>2, <1>3, <1>4, <1>5, <1>6, <1>7 DEF Settle

(* The places of the callers, and who has which mutex. *)
LEMMA TypeNext == TypeInv /\ [BreakerNext]_bvars => TypeInv'
<1> SUFFICES ASSUME TypeInv, [BreakerNext]_bvars PROVE CallersOK' /\ LockInv'
  BY BreakersTyped DEF TypeInv
<1>0. \A r \in Request : pc[r] \in Locked => rcb[r] \in Breaker /\ cb[rcb[r]].mu = r
  BY DEF TypeInv, CallersOK, LockInv, Locked
<1>00. \A r \in Request : pc[r] \in Locked => Held(rcb[r])
  BY DEF Held
<1>1. CASE Tick
  <2>1. \A b \in Breaker : cb'[b].mu = cb[b].mu
    BY <1>1 DEF Tick, TypeInv, BreakersOK, Fields
  <2> QED BY <1>0, <1>1, <2>1 DEF Tick, TypeInv, CallersOK, LockInv, asking, requests
<1>2. CASE AskStep
  <2>1. PICK b \in Breaker : Ask(b)
    BY <1>2 DEF AskStep
  <2>2. CallersOK'
    BY <2>1 DEF Ask, TypeInv, CallersOK, AllowPC, requests
  <2>3. LockInv'
    BY <1>0, <1>00, <2>1, ObtainTyped DEF Ask, LockInv, requests
  <2> QED BY <2>2, <2>3
<1>3. CASE Allow
  <2>1. CallersOK'
    BY <1>3, AllowKeepsMutex DEF TypeInv, CallersOK, RequestPC
  <2>2. LockInv'
    BY <1>0, <1>3, AllowKeepsMutex DEF TypeInv, CallersOK, LockInv, Locked
  <2> QED BY <2>1, <2>2
<1>4. ASSUME NEW r \in Request, Settle(r) PROVE CallersOK' /\ LockInv'
  <2>1. CallersOK'
    BY <1>4, SettleMoves DEF TypeInv, CallersOK, asking
  <2>2. LockInv'
    BY <1>0, <1>00, <1>4, SettleMoves, BreakerAssumption DEF LockInv
  <2> QED BY <2>1, <2>2
<1>5. CASE Cleanup
  BY <1>0, <1>00, <1>5 DEF Cleanup, CleanupCheck, CleanupDelete, TypeInv, BreakersOK, CallersOK, LockInv, asking, requests
<1>6. CASE UNCHANGED bvars
  BY <1>6 DEF bvars, asking, requests, TypeInv, CallersOK, LockInv
<1> QED BY <1>1, <1>2, <1>3, <1>4, <1>5, <1>6 DEF BreakerNext

(* Every field keeps its type, and a mutex is held by the one request that is
   between its Lock and Unlock (circuitbreaker.go: Success, Failure). *)
THEOREM BreakerTyped == BreakerSpec => []TypeInv
<1>1. BreakerInit => TypeInv
  BY TypeInit
<1>2. TypeInv /\ [BreakerNext]_bvars => TypeInv'
  BY TypeNext
<1> QED BY <1>1, <1>2, PTL DEF BreakerSpec

(* What a record's fields are. *)
LEMMA FieldTypes ==
  ASSUME TypeInv, NEW b \in Breaker
  PROVE  /\ cb[b].state \in State /\ cb[b].mu \in Request \cup {None}
         /\ cb[b].failureCount \in Nat /\ cb[b].passes \in Nat /\ cb[b].streak \in Nat
         /\ cb[b].successCount \in 0..(SuccessThreshold - 1)
         /\ cb[b].halfOpenProbes \in -1..MaxProbes
BY DEF TypeInv, BreakersOK, Fields

-----------------------------------------------------------------------------
(* An open breaker. *)

(* Allow is past the test of an open state: nobody was let through since.    *)
PastOpen == {"half-open", "take", "reset", "refill"}

OpenInv ==
  \A b \in Breaker : cb[b].state = "open" =>
    cb[b].passes <= 1 /\ (b = dcb /\ dpc \in PastOpen => cb[b].passes = 0)

(* What Allow lets through, it lets through once. *)
LEMMA OpenAllow == ASSUME TypeInv, OpenInv, Allow PROVE OpenInv'
<1> DEFINE c == cb[dcb]
<1>1. dcb \in Breaker /\ dcb # None /\ cb \in [Breaker -> Fields] /\ c \in Fields
  BY AllowKeepsMutex, BreakerAssumption DEF TypeInv, BreakersOK
<1>2. c.state \in State /\ c.passes \in Nat
  BY <1>1, FieldTypes
<1>3. OpenInv' <=>
      \A b \in Breaker : cb'[b].state = "open" =>
        cb'[b].passes <= 1 /\ (b = dcb' /\ dpc' \in PastOpen => cb'[b].passes = 0)
  BY DEF OpenInv
<1> USE <1>1, <1>2, <1>3 DEF OpenInv, PastOpen
<1>a. CASE LoadOther
  BY <1>a DEF LoadOther, Goto, At
<1>b. CASE TimedOut \/ StillOpen \/ ReopenFails \/ Stuck \/ NotStuck
  BY <1>b DEF TimedOut, StillOpen, ReopenFails, Stuck, NotStuck, Goto, At, AtLocked, Refuse
<1>c. CASE Swap
  BY <1>c DEF Swap, Goto, Refuse, Fields
<1>d. CASE ResetCounts
  BY <1>d DEF ResetCounts, Goto, AtLocked, Fields
<1>e. CASE Reopen
  BY <1>e DEF Reopen, Goto, At, Fields
<1>f. CASE StampFailure
  BY <1>f DEF StampFailure, Refuse, Fields
<1>g. CASE NoProbeLeft
  BY <1>g DEF NoProbeLeft, Refuse, Fields
<1>h. CASE \E r \in Request : LoadClosed(r)
  BY <1>h DEF LoadClosed, Grant
<1>i. CASE \E r \in Request : RefillProbes(r)
  BY <1>i DEF RefillProbes, Grant, Fields, At, OnePass
<1>j. CASE \E r \in Request : TakeProbe(r)
  BY <1>j DEF TakeProbe, Grant, Fields, At, OnePass
<1> QED BY <1>a, <1>b, <1>c, <1>d, <1>e, <1>f, <1>g, <1>h, <1>i, <1>j DEF Allow

(* A result opens a breaker with nothing let through, or leaves it open. *)
LEMMA OpenSettle == ASSUME TypeInv, OpenInv, NEW r \in Request, Settle(r) PROVE OpenInv'
<1> DEFINE c == cb[rcb[r]]
<1>1. cb \in [Breaker -> Fields] /\ asking' = asking
  BY SettleMoves DEF TypeInv, BreakersOK
<1>2. pc[r] \notin {"idle", "out"} => /\ rcb[r] \in Breaker /\ c \in Fields
                                      /\ c.state \in State /\ c.passes \in Nat
  BY <1>1, FieldTypes DEF TypeInv, CallersOK
<1>3. OpenInv' <=>
      \A b \in Breaker : cb'[b].state = "open" =>
        cb'[b].passes <= 1 /\ (b = dcb /\ dpc \in PastOpen => cb'[b].passes = 0)
  BY <1>1 DEF OpenInv, asking
<1> USE <1>1, <1>2, <1>3 DEF OpenInv
<1>a. CASE EndUnrecorded(r)
  BY <1>a DEF EndUnrecorded
<1>b. CASE \E b \in Breaker, outcome \in {"success", "failure"} : End(r, b, outcome)
  <2>1. \A b \in Breaker : cb'[b] = cb[b] \/ cb'[b] = New
    BY <1>b, ObtainTyped DEF End
  <2> QED BY <2>1 DEF New
<1>c. CASE LoadInSuccess(r)
  BY <1>c DEF LoadInSuccess, Lock, Fields
<1>d. CASE LoadInFailure(r)
  BY <1>d DEF LoadInFailure, Lock, Fields
<1>e. CASE ProbeSucceeds(r)
  BY <1>e DEF ProbeSucceeds, Unlock, Fields
<1>f. CASE ClosedSucceeds(r)
  BY <1>f DEF ClosedSucceeds, Unlock, Fields
<1>g. CASE LateSuccess(r)
  BY <1>g DEF LateSuccess, Unlock, Fields
<1>h. CASE ProbeFails(r)
  BY <1>h DEF ProbeFails, Unlock, Fields, Tripped
<1>i. CASE CountFailure(r)
  BY <1>i DEF CountFailure, Unlock, Fields, Tripped
<1> QED BY <1>a, <1>b, <1>c, <1>d, <1>e, <1>f, <1>g, <1>h, <1>i DEF Settle

(* The steps of time, of Ask and of Cleanup, for all three invariants: they  *)
(* leave what the invariants are about as it is, or make the breaker new.    *)
LEMMA OthersMove ==
  ASSUME TypeInv, Tick \/ AskStep \/ Cleanup \/ UNCHANGED bvars
  PROVE  /\ \A b \in Breaker :
              \/ cb'[b] = New /\ ~Held(b)
              \/ /\ cb'[b].state = cb[b].state /\ cb'[b].passes = cb[b].passes
                 /\ cb'[b].failureCount = cb[b].failureCount /\ cb'[b].streak = cb[b].streak
                 /\ cb'[b].successCount = cb[b].successCount /\ cb'[b].mu = cb[b].mu
                 /\ cb'[b].halfOpenProbes = cb[b].halfOpenProbes
         /\ pc' = pc /\ rcb' = rcb
         /\ dpc' = "load" \/ (dpc' = dpc /\ dcb' = dcb)
<1>1. CASE Tick
  BY <1>1 DEF Tick, TypeInv, BreakersOK, Fields, asking, requests
<1>2. CASE AskStep
  BY <1>2, ObtainTyped DEF AskStep, Ask, requests
<1>3. CASE Cleanup
  BY <1>3 DEF Cleanup, CleanupCheck, CleanupDelete, TypeInv, BreakersOK, asking, requests
<1>4. CASE UNCHANGED bvars
  BY <1>4 DEF bvars, asking, requests
<1> QED BY <1>1, <1>2, <1>3, <1>4

(* OpenRespected: an open breaker lets nothing through until it half-opens,  *)
(* but the one request that Allow was admitting when a result opened it      *)
(* under Allow's hands.                                                      *)
THEOREM BreakerOpenRespected == BreakerSpec => []OpenRespected
<1>1. BreakerInit => OpenInv
  BY DEF BreakerInit, OpenInv, New
<1>2. TypeInv /\ OpenInv /\ [BreakerNext]_bvars => OpenInv'
  <2> SUFFICES ASSUME TypeInv, OpenInv, [BreakerNext]_bvars PROVE OpenInv'
    OBVIOUS
  <2>1. CASE Tick \/ AskStep \/ Cleanup \/ UNCHANGED bvars
    BY <2>1, OthersMove DEF OpenInv, PastOpen, New
  <2> QED BY <2>1, OpenAllow, OpenSettle DEF BreakerNext
<1>3. OpenInv => OpenRespected
  BY DEF OpenInv, OpenRespected
<1> QED BY <1>1, <1>2, <1>3, BreakerTyped, PTL DEF BreakerSpec

-----------------------------------------------------------------------------
(* A half-open breaker. *)

(* What one period may let through by its s-th success. *)
Budget(s) == 1 + MaxProbes * (s + 1)

Left(c) == IF c.halfOpenProbes > 0 THEN c.halfOpenProbes ELSE 0

(* What was let through and what may still be, and: Allow half-opened the    *)
(* breaker and has not admitted its request yet.                             *)
ProbeInv ==
  \A b \in Breaker : cb[b].state = "half-open" =>
    /\ cb[b].passes + Left(cb[b]) <= Budget(cb[b].successCount)
    /\ b = dcb /\ dpc \in {"reset", "refill"} => cb[b].passes = 0

(* A success adds MaxProbes to what may pass. *)
LEMMA BudgetGrows ==
  ASSUME NEW s \in 0..(SuccessThreshold - 1)
  PROVE  /\ Budget(s) \in Nat
         /\ Budget(s + 1) = Budget(s) + MaxProbes
         /\ 1 + MaxProbes <= Budget(s)
         /\ Budget(s) <= 1 + MaxProbes * SuccessThreshold
<1>1. MaxProbes \in Nat /\ SuccessThreshold \in Nat /\ s \in Nat /\ s + 1 <= SuccessThreshold
  BY BreakerAssumption
<1>2. MaxProbes * (s + 2) = MaxProbes * (s + 1) + MaxProbes
  BY <1>1
<1>3. PICK t \in Nat : SuccessThreshold = (s + 1) + t
  <2>1. SuccessThreshold - (s + 1) \in Nat
    BY <1>1
  <2> QED BY <1>1, <2>1
<1>4. MaxProbes * SuccessThreshold = MaxProbes * (s + 1) + MaxProbes * t
  BY <1>1, <1>3
<1>5. MaxProbes * t \in Nat /\ MaxProbes * (s + 1) = MaxProbes * s + MaxProbes /\ MaxProbes * s \in Nat
  BY <1>1
<1>6. Budget(s) = 1 + MaxProbes * (s + 1) /\ Budget(s + 1) = 1 + MaxProbes * (s + 2)
  BY <1>1 DEF Budget
<1> HIDE DEF Budget
<1> QED BY <1>1, <1>2, <1>4, <1>5, <1>6

(* Allow spends one of the budget, or starts a half-open period. *)
LEMMA ProbeAllow == ASSUME TypeInv, ProbeInv, Allow PROVE ProbeInv'
<1> DEFINE c == cb[dcb]
<1>1. dcb \in Breaker /\ dcb # None /\ cb \in [Breaker -> Fields] /\ c \in Fields
  BY AllowKeepsMutex, BreakerAssumption DEF TypeInv, BreakersOK
<1>2. /\ c.state \in State /\ c.passes \in Nat /\ c.halfOpenProbes \in -1..MaxProbes
      /\ c.successCount \in 0..(SuccessThreshold - 1) /\ MaxProbes \in Nat
  BY <1>1, FieldTypes, BreakerAssumption
<1>3. ProbeInv' <=>
      \A b \in Breaker : cb'[b].state = "half-open" =>
        /\ cb'[b].passes + Left(cb'[b]) <= Budget(cb'[b].successCount)
        /\ b = dcb' /\ dpc' \in {"reset", "refill"} => cb'[b].passes = 0
  BY DEF ProbeInv, Left, Budget
<1>4. /\ Budget(c.successCount) \in Nat /\ Budget(0) \in Nat
      /\ 1 + MaxProbes <= Budget(c.successCount) /\ 1 + MaxProbes <= Budget(0)
  BY <1>2, BudgetGrows, BreakerAssumption
<1> USE <1>1, <1>2, <1>3, <1>4 DEF ProbeInv
<1>a. CASE LoadOther
  BY <1>a DEF LoadOther, Goto, At
<1>b. CASE TimedOut \/ StillOpen \/ ReopenFails \/ Stuck \/ NotStuck
  BY <1>b DEF TimedOut, StillOpen, ReopenFails, Stuck, NotStuck, Goto, At, AtLocked, Refuse
<1>c. CASE Swap
  <2>1. CASE c.state = "open"
    <3>1. cb' = [cb EXCEPT ![dcb] = [c EXCEPT !.state = "half-open", !.passes = 0, !.streak = 0]] /\ dcb' = dcb
      BY <1>c, <2>1 DEF Swap, Goto
    <3>2. /\ cb'[dcb].passes = 0 /\ cb'[dcb].halfOpenProbes = c.halfOpenProbes
          /\ cb'[dcb].successCount = c.successCount
          /\ \A b \in Breaker \ {dcb} : cb'[b] = cb[b]
      BY <3>1 DEF Fields
    <3> QED BY <3>1, <3>2 DEF Left
  <2>2. CASE c.state # "open"
    BY <1>c, <2>2 DEF Swap, Refuse
  <2> QED BY <2>1, <2>2
<1>d. CASE ResetCounts
  BY <1>d DEF ResetCounts, Goto, AtLocked, Fields, Left
<1>e. CASE Reopen
  BY <1>e DEF Reopen, Goto, At, Fields
<1>f. CASE StampFailure
  BY <1>f DEF StampFailure, Refuse, Fields, Left
<1>g. CASE NoProbeLeft
  BY <1>g DEF NoProbeLeft, Refuse, Fields, Left
<1>h. CASE \E r \in Request : LoadClosed(r)
  BY <1>h DEF LoadClosed, Grant
<1>i. CASE \E r \in Request : RefillProbes(r)
  BY <1>i DEF RefillProbes, Grant, Fields, At, OnePass, Left
<1>j. CASE \E r \in Request : TakeProbe(r)
  BY <1>j DEF TakeProbe, Grant, Fields, At, OnePass, Left
<1> QED BY <1>a, <1>b, <1>c, <1>d, <1>e, <1>f, <1>g, <1>h, <1>i, <1>j DEF Allow

(* A result adds to the budget, or ends the period. *)
LEMMA ProbeSettle == ASSUME TypeInv, ProbeInv, NEW r \in Request, Settle(r) PROVE ProbeInv'
<1> DEFINE c == cb[rcb[r]]
<1>1. cb \in [Breaker -> Fields] /\ asking' = asking /\ MaxProbes \in Nat
  BY SettleMoves, BreakerAssumption DEF TypeInv, BreakersOK
<1>2. pc[r] \notin {"idle", "out"} =>
        /\ rcb[r] \in Breaker /\ c \in Fields
        /\ c.state \in State /\ c.passes \in Nat /\ c.halfOpenProbes \in -1..MaxProbes
        /\ c.successCount \in 0..(SuccessThreshold - 1)
        /\ Budget(c.successCount) \in Nat /\ Budget(0) \in Nat
        /\ Budget(c.successCount + 1) = Budget(c.successCount) + MaxProbes
        /\ 1 + MaxProbes <= Budget(c.successCount) /\ 1 + MaxProbes <= Budget(0)
  BY <1>1, FieldTypes, BudgetGrows, BreakerAssumption DEF TypeInv, CallersOK
<1>3. ProbeInv' <=>
      \A b \in Breaker : cb'[b].state = "half-open" =>
        /\ cb'[b].passes + Left(cb'[b]) <= Budget(cb'[b].successCount)
        /\ b = dcb /\ dpc \in {"reset", "refill"} => cb'[b].passes = 0
  BY <1>1 DEF ProbeInv, asking, Left, Budget
<1> USE <1>1, <1>2, <1>3 DEF ProbeInv
<1>a. CASE EndUnrecorded(r)
  BY <1>a DEF EndUnrecorded
<1>b. CASE \E b \in Breaker, outcome \in {"success", "failure"} : End(r, b, outcome)
  <2>1. \A b \in Breaker : cb'[b] = cb[b] \/ cb'[b] = New
    BY <1>b, ObtainTyped DEF End
  <2> QED BY <2>1 DEF New
<1>c. CASE LoadInSuccess(r)
  BY <1>c DEF LoadInSuccess, Lock, Fields, Left
<1>d. CASE LoadInFailure(r)
  BY <1>d DEF LoadInFailure, Lock, Fields, Left
<1>e. CASE ProbeSucceeds(r)
  <2>1. rcb[r] \in Breaker /\ c \in Fields
    BY <1>e DEF ProbeSucceeds, Unlock
  <2>2. CASE c.successCount + 1 >= SuccessThreshold
    <3>1. cb' = [cb EXCEPT ![rcb[r]] = [c EXCEPT !.state = "closed", !.failureCount = 0, !.successCount = 0,
                                                 !.halfOpenProbes = MaxProbes, !.passes = 0, !.streak = 0,
                                                 !.mu = None]]
      BY <1>e, <2>2 DEF ProbeSucceeds
    <3> QED BY <2>1, <3>1 DEF Fields
  <2>3. CASE ~(c.successCount + 1 >= SuccessThreshold)
    <3>1. cb' = [cb EXCEPT ![rcb[r]] = [c EXCEPT !.successCount = c.successCount + 1,
                                                 !.halfOpenProbes = MaxProbes, !.streak = 0, !.mu = None]]
      BY <1>e, <2>3 DEF ProbeSucceeds
    <3>2. /\ cb'[rcb[r]].state = c.state /\ cb'[rcb[r]].passes = c.passes
          /\ cb'[rcb[r]].halfOpenProbes = MaxProbes /\ cb'[rcb[r]].successCount = c.successCount + 1
          /\ \A b \in Breaker \ {rcb[r]} : cb'[b] = cb[b]
      BY <2>1, <3>1 DEF Fields
    <3>3. c.state = "half-open" => c.passes + MaxProbes <= Budget(c.successCount + 1)
      BY <1>e, <2>1 DEF ProbeSucceeds, Unlock, Left
    <3> QED BY <2>1, <3>2, <3>3 DEF Left
  <2> QED BY <2>2, <2>3
<1>f. CASE ClosedSucceeds(r)
  BY <1>f DEF ClosedSucceeds, Unlock, Fields, Left
<1>g. CASE LateSuccess(r)
  BY <1>g DEF LateSuccess, Unlock, Fields, Left
<1>h. CASE ProbeFails(r)
  BY <1>h DEF ProbeFails, Unlock, Fields, Tripped
<1>i. CASE CountFailure(r)
  BY <1>i DEF CountFailure, Unlock, Fields, Tripped, Left
<1> QED BY <1>a, <1>b, <1>c, <1>d, <1>e, <1>f, <1>g, <1>h, <1>i DEF Settle

(* ProbeBound: in one half-open period Allow lets through the request that   *)
(* half-opened the breaker and MaxProbes for each success that does not      *)
(* close it, however late the results of earlier requests come.              *)
THEOREM BreakerProbeBound == BreakerSpec => []ProbeBound
<1>1. BreakerInit => ProbeInv
  BY DEF BreakerInit, ProbeInv, New
<1>2. TypeInv /\ ProbeInv /\ [BreakerNext]_bvars => ProbeInv'
  <2> SUFFICES ASSUME TypeInv, ProbeInv, [BreakerNext]_bvars PROVE ProbeInv'
    OBVIOUS
  <2>1. CASE Tick \/ AskStep \/ Cleanup \/ UNCHANGED bvars
    BY <2>1, OthersMove DEF ProbeInv, New, Left
  <2> QED BY <2>1, ProbeAllow, ProbeSettle DEF BreakerNext
<1>3. TypeInv /\ ProbeInv => ProbeBound
  <2> SUFFICES ASSUME TypeInv, ProbeInv, NEW b \in Breaker, cb[b].state = "half-open"
               PROVE  cb[b].passes <= 1 + MaxProbes * SuccessThreshold
    BY DEF ProbeBound
  <2>1. /\ cb[b].successCount \in 0..(SuccessThreshold - 1) /\ cb[b].passes \in Nat
        /\ cb[b].halfOpenProbes \in -1..MaxProbes
    BY FieldTypes
  <2>2. /\ Budget(cb[b].successCount) <= 1 + MaxProbes * SuccessThreshold
        /\ Budget(cb[b].successCount) \in Nat
    BY <2>1, BudgetGrows
  <2>3. cb[b].passes + Left(cb[b]) <= Budget(cb[b].successCount) /\ Left(cb[b]) \in Nat
    BY <2>1, BreakerAssumption DEF ProbeInv, Left
  <2>4. MaxProbes * SuccessThreshold \in Nat
    BY BreakerAssumption
  <2> QED BY <2>1, <2>2, <2>3, <2>4
<1> QED BY <1>1, <1>2, <1>3, BreakerTyped, PTL DEF BreakerSpec

-----------------------------------------------------------------------------
(* A closed breaker. *)

(* A result has counted a failure on b and not compared it yet. *)
Counting(b) == cb[b].mu \in Request /\ pc[cb[b].mu] = "counted"

(* Who has the mutex of b is at a result for b. *)
OwnerInv == \A b \in Breaker : cb[b].mu \in Request => rcb[cb[b].mu] = b /\ pc[cb[b].mu] \in Locked

TripOf(b) ==
  cb[b].state = "closed" =>
    /\ cb[b].failureCount < FailureThreshold \/ Counting(b)
    /\ cb[b].streak <= cb[b].failureCount + (FailureThreshold - 1)
    /\ b = dcb /\ dpc = "reset" => cb[b].streak <= cb[b].failureCount

TripInv == OwnerInv /\ \A b \in Breaker : TripOf(b)

(* A result takes its mutex or gives it back. *)
LEMMA SettleMutex ==
  ASSUME TypeInv, OwnerInv, NEW r \in Request, Settle(r)
  PROVE  \A b \in Breaker :
           \/ cb'[b].mu = None
           \/ cb'[b].mu = cb[b].mu /\ cb[b].mu # r
           \/ b = rcb[r] /\ cb'[b].mu = r /\ pc'[r] \in Locked /\ rcb'[r] = b
<1>1. cb \in [Breaker -> Fields] /\ pc \in [Request -> RequestPC] /\ rcb \in [Request -> Breaker \cup {None}]
  BY DEF TypeInv, BreakersOK, CallersOK
<1>2. pc[r] \notin Locked => \A b \in Breaker : cb[b].mu # r
  BY DEF OwnerInv
<1>3. \A b \in Breaker : b # rcb[r] => cb[b].mu # r
  BY DEF OwnerInv
<1>4. pc[r] \notin {"idle", "out"} => rcb[r] \in Breaker
  BY DEF TypeInv, CallersOK
<1> USE <1>1, <1>2, <1>3, <1>4
<1>a. CASE EndUnrecorded(r)
  BY <1>a DEF EndUnrecorded, Locked
<1>b. CASE \E b \in Breaker, outcome \in {"success", "failure"} : End(r, b, outcome)
  <2>1. \A b \in Breaker : cb'[b] = cb[b] \/ cb'[b] = New
    BY <1>b, ObtainTyped DEF End
  <2>2. pc[r] = "out"
    BY <1>b DEF End
  <2> QED BY <2>1, <2>2 DEF New, Locked
<1>c. CASE LoadInSuccess(r)
  BY <1>c DEF LoadInSuccess, Lock, Fields, Locked, State
<1>d. CASE LoadInFailure(r)
  BY <1>d DEF LoadInFailure, Lock, Fields, Locked
<1>e. CASE ProbeSucceeds(r)
  BY <1>e DEF ProbeSucceeds, Unlock, Fields
<1>f. CASE ClosedSucceeds(r)
  BY <1>f DEF ClosedSucceeds, Unlock, Fields
<1>g. CASE LateSuccess(r)
  BY <1>g DEF LateSuccess, Unlock, Fields
<1>h. CASE ProbeFails(r)
  BY <1>h DEF ProbeFails, Unlock, Fields, Tripped
<1>i. CASE CountFailure(r)
  BY <1>i DEF CountFailure, Unlock, Fields, Tripped
<1> QED BY <1>a, <1>b, <1>c, <1>d, <1>e, <1>f, <1>g, <1>h, <1>i DEF Settle

(* The owner of a mutex is within a result for that breaker. *)
LEMMA OwnerNext == TypeInv /\ OwnerInv /\ [BreakerNext]_bvars => OwnerInv'
<1> SUFFICES ASSUME TypeInv, OwnerInv, [BreakerNext]_bvars PROVE OwnerInv'
  OBVIOUS
<1>1. \A b \in Breaker : cb[b].mu \in Request \cup {None}
  BY FieldTypes
<1>2. CASE Tick \/ AskStep \/ Cleanup \/ UNCHANGED bvars
  BY <1>1, <1>2, OthersMove, BreakerAssumption DEF OwnerInv, New
<1>3. CASE Allow
  BY <1>1, <1>3, AllowKeepsMutex DEF OwnerInv, Locked, TypeInv, CallersOK
<1>4. ASSUME NEW r \in Request, Settle(r) PROVE OwnerInv'
  BY <1>1, <1>4, SettleMutex, SettleMoves, BreakerAssumption DEF OwnerInv
<1> QED BY <1>2, <1>3, <1>4 DEF BreakerNext

(* Allow counts no failure; its reset wipes the count once. *)
LEMMA TripAllow ==
  ASSUME TypeInv, TripInv, Allow, NEW b \in Breaker
  PROVE  TripOf(b)'
<1> DEFINE c == cb[dcb]
<1>1. dcb \in Breaker /\ dcb # None /\ cb \in [Breaker -> Fields] /\ c \in Fields
  BY AllowKeepsMutex, BreakerAssumption DEF TypeInv, BreakersOK
<1>2. /\ c.state \in State /\ c.failureCount \in Nat /\ c.streak \in Nat /\ c.mu \in Request \cup {None}
      /\ FailureThreshold \in Nat \ {0} /\ None \notin Request
  BY <1>1, FieldTypes, BreakerAssumption
<1>3. Counting(b) => Counting(b)'
  <2>1. pc \in [Request -> RequestPC] /\ (cb[b].mu \in Request => cb'[b].mu \in Request)
    BY AllowKeepsMutex DEF TypeInv, CallersOK
  <2> QED BY <2>1, AllowKeepsMutex DEF Counting
<1>4. /\ TripOf(b) /\ TripOf(dcb)
      /\ c.mu = None => ~Counting(dcb)
  BY <1>1, <1>2 DEF TripInv, Counting
<1>5. TripOf(b)' <=>
      (cb'[b].state = "closed" =>
        /\ cb'[b].failureCount < FailureThreshold \/ Counting(b)'
        /\ cb'[b].streak <= cb'[b].failureCount + (FailureThreshold - 1)
        /\ b = dcb' /\ dpc' = "reset" => cb'[b].streak <= cb'[b].failureCount)
  BY DEF TripOf
<1> HIDE DEF c
<1> USE <1>1, <1>2, <1>3, <1>4, <1>5 DEF TripOf
<1> USE DEF c
<1>a. CASE LoadOther
  BY <1>a DEF LoadOther, Goto, At
<1>b. CASE TimedOut \/ StillOpen \/ ReopenFails \/ Stuck \/ NotStuck
  BY <1>b DEF TimedOut, StillOpen, ReopenFails, Stuck, NotStuck, Goto, At, AtLocked, Refuse
<1>c. CASE Swap
  <2>1. CASE c.state = "open"
    BY <1>c, <2>1 DEF Swap, Goto, Fields
  <2>2. CASE c.state # "open"
    BY <1>c, <2>2 DEF Swap, Refuse
  <2> QED BY <2>1, <2>2
<1>d. CASE ResetCounts
  BY <1>d DEF ResetCounts, Goto, AtLocked, Fields
<1>e. CASE Reopen
  BY <1>e DEF Reopen, Goto, At, Fields
<1>f. CASE StampFailure
  BY <1>f DEF StampFailure, Refuse, Fields
<1>g. CASE NoProbeLeft
  BY <1>g DEF NoProbeLeft, Refuse, Fields
<1>h. CASE \E r \in Request : LoadClosed(r)
  BY <1>h DEF LoadClosed, Grant
<1>i. CASE \E r \in Request : RefillProbes(r)
  BY <1>i DEF RefillProbes, Grant, Fields
<1>j. CASE \E r \in Request : TakeProbe(r)
  BY <1>j DEF TakeProbe, Grant, Fields
<1> QED BY <1>a, <1>b, <1>c, <1>d, <1>e, <1>f, <1>g, <1>h, <1>i, <1>j DEF Allow

(* A failure that reaches the threshold opens the breaker. *)
LEMMA TripSettle ==
  ASSUME TypeInv, TripInv, NEW r \in Request, Settle(r), NEW b \in Breaker
  PROVE  TripOf(b)'
<1> DEFINE c == cb[rcb[r]]
<1>1. /\ cb \in [Breaker -> Fields] /\ asking' = asking
      /\ FailureThreshold \in Nat \ {0} /\ None \notin Request
      /\ pc \in [Request -> RequestPC]
  BY SettleMoves, BreakerAssumption DEF TypeInv, BreakersOK, CallersOK
<1>2. pc[r] \notin {"idle", "out"} =>
        /\ rcb[r] \in Breaker /\ c \in Fields
        /\ c.state \in State /\ c.failureCount \in Nat /\ c.streak \in Nat
        /\ TripOf(rcb[r])
  BY <1>1, FieldTypes DEF TypeInv, CallersOK, TripInv
<1>3. b # rcb[r] /\ cb'[b].mu = cb[b].mu => (Counting(b) => Counting(b)')
  BY SettleMoves DEF Counting, TripInv, OwnerInv
<1>4. pc[r] # "counted" /\ pc[r] \in Locked => c.mu = r /\ ~Counting(rcb[r])
  BY DEF TypeInv, LockInv, Counting
<1>5. TripOf(b)' <=>
      (cb'[b].state = "closed" =>
        /\ cb'[b].failureCount < FailureThreshold \/ Counting(b)'
        /\ cb'[b].streak <= cb'[b].failureCount + (FailureThreshold - 1)
        /\ b = dcb /\ dpc = "reset" => cb'[b].streak <= cb'[b].failureCount)
  BY <1>1 DEF TripOf, asking
<1>6. TripOf(b)
  BY DEF TripInv
<1> USE <1>1, <1>2, <1>3, <1>4, <1>5, <1>6 DEF TripOf
<1>a. CASE EndUnrecorded(r)
  <2>1. Counting(b) => Counting(b)'
    BY <1>a, <1>1 DEF EndUnrecorded, Counting
  <2> QED BY <1>a, <2>1 DEF EndUnrecorded
<1>b. CASE \E d \in Breaker, outcome \in {"success", "failure"} : End(r, d, outcome)
  <2>1. cb'[b] = cb[b] \/ cb'[b] = New
    BY <1>b, ObtainTyped DEF End
  <2>2. cb'[b] = cb[b] => (Counting(b) => Counting(b)')
    BY <1>b, <1>1 DEF End, Counting
  <2> QED BY <2>1, <2>2 DEF New
<1>c. CASE LoadInSuccess(r)
  BY <1>c DEF LoadInSuccess, Lock, Fields, Counting
<1>d. CASE LoadInFailure(r)
  BY <1>d DEF LoadInFailure, Lock, Fields, Counting
<1>e. CASE ProbeSucceeds(r)
  BY <1>e DEF ProbeSucceeds, Unlock, Fields, Locked
<1>f. CASE ClosedSucceeds(r)
  BY <1>f DEF ClosedSucceeds, Unlock, Fields
<1>g. CASE LateSuccess(r)
  BY <1>g DEF LateSuccess, Unlock, Fields, Locked
<1>h. CASE ProbeFails(r)
  BY <1>h DEF ProbeFails, Unlock, Fields, Tripped
<1>i. CASE CountFailure(r)
  BY <1>i DEF CountFailure, Unlock, Fields, Tripped, OverThreshold
<1> QED BY <1>a, <1>b, <1>c, <1>d, <1>e, <1>f, <1>g, <1>h, <1>i DEF Settle

(* TripsInTime: however Allow's late reset of the counts falls among them,   *)
(* a closed breaker has not seen twice a threshold of failures in a row.     *)
THEOREM BreakerTripsInTime == BreakerSpec => []TripsInTime
<1>1. BreakerInit => TripInv
  BY BreakerAssumption DEF BreakerInit, TripInv, OwnerInv, TripOf, New
<1>2. TypeInv /\ TripInv /\ [BreakerNext]_bvars => TripInv'
  <2> SUFFICES ASSUME TypeInv, TripInv, [BreakerNext]_bvars, NEW b \in Breaker PROVE TripOf(b)'
    BY OwnerNext DEF TripInv
  <2>1. CASE Tick \/ AskStep \/ Cleanup \/ UNCHANGED bvars
    <3>1. cb'[b].mu = cb[b].mu => (Counting(b) => Counting(b)')
      BY <2>1, OthersMove DEF Counting
    <3>2. CASE cb'[b] = New
      BY <3>2, BreakerAssumption, <2>1, OthersMove DEF TripOf, New
    <3>3. CASE cb'[b] # New
      BY <2>1, <3>1, <3>3, OthersMove DEF TripInv, TripOf
    <3> QED BY <3>2, <3>3
  <2> QED BY <2>1, TripAllow, TripSettle DEF BreakerNext
<1>3. TypeInv /\ TripInv => TripsInTime
  <2> SUFFICES ASSUME TypeInv, TripInv, NEW b \in Breaker, cb[b].state = "closed", cb[b].mu = None
               PROVE  cb[b].streak <= 2 * (FailureThreshold - 1)
    BY DEF TripsInTime
  <2>1. cb[b].failureCount \in Nat /\ cb[b].streak \in Nat /\ FailureThreshold \in Nat \ {0}
    BY FieldTypes, BreakerAssumption
  <2>2. /\ cb[b].failureCount < FailureThreshold
        /\ cb[b].streak <= cb[b].failureCount + (FailureThreshold - 1)
    BY BreakerAssumption DEF TripInv, TripOf, Counting
  <2> QED BY <2>1, <2>2
<1> QED BY <1>1, <1>2, <1>3, BreakerTyped, PTL DEF BreakerSpec

=============================================================================
