---------------------------- MODULE CircuitBreaker ----------------------------
(***************************************************************************)
(* internal/resilience: the circuit breakers of one host, at the grain of  *)
(* their atomic operations, with their three clients in the crawler: the   *)
(* dispatch loop, the only caller of Allow, the goroutines of the pages it *)
(* lets through, which record how they ended or do not, and the periodic   *)
(* Cleanup, which deletes idle breakers from the map.                      *)
(*                                                                         *)
(* A breaker that was deleted lives on for the calls that hold it.  Time   *)
(* is the age of the two time stamps, in ticks.                            *)
(***************************************************************************)
EXTENDS Naturals, Integers

CONSTANTS
  Breaker,            \* CircuitBreaker objects; bound: how many exist at once
  Request,            \* pages and assets being crawled at once
  FailureThreshold,   \* cfg.FailureThreshold
  SuccessThreshold,   \* cfg.SuccessThreshold
  MaxProbes,          \* cfg.HalfOpenMaxProbes
  Timeout,            \* cfg.Timeout, in ticks
  None                \* no breaker, no request

ASSUME BreakerAssumption ==
  /\ None \notin Breaker \cup Request
  /\ FailureThreshold \in Nat \ {0} /\ SuccessThreshold \in Nat \ {0}
  /\ MaxProbes \in Nat \ {0} /\ Timeout \in Nat

VARIABLES
  entry,      \* the breaker of the host in hcb.breakers, or None
  cb,         \* the fields of each CircuitBreaker
  dpc, dcb,   \* where the dispatcher is in Allow, and on which breaker
  answer,     \* history: what the last Allow returned
  pc, rcb,    \* where each request is, and on which breaker
  sweeping    \* Cleanup found the breaker idle and is about to delete it

asking == <<dpc, dcb, answer>>
requests == <<pc, rcb>>
bvars == <<entry, cb, asking, requests, sweeping>>

Old == Timeout + 1   \* any age beyond the timeout, and that of a zero time

State == {"closed", "half-open", "open"}

(* A CircuitBreaker as NewCircuitBreaker makes it, and two history fields:   *)
(* the requests let through since it opened or half-opened, and the failures *)
(* since the last success it recorded, or since it half-opened.              *)
New == [state |-> "closed", failureCount |-> 0, successCount |-> 0, halfOpenProbes |-> MaxProbes,
        failureAge |-> Old, halfAge |-> Old, mu |-> None, passes |-> 0, streak |-> 0]

BreakerInit ==
  /\ entry = None
  /\ cb = [b \in Breaker |-> New]
  /\ dpc = "idle" /\ dcb = None /\ answer = "none"
  /\ pc = [r \in Request |-> "idle"] /\ rcb = [r \in Request |-> None]
  /\ sweeping = FALSE

Older(age) == IF age < Old THEN age + 1 ELSE Old

Tick ==
  /\ cb' = [b \in Breaker |-> [cb[b] EXCEPT !.failureAge = Older(@), !.halfAge = Older(@)]]
  /\ UNCHANGED <<entry, asking, requests, sweeping>>

Held(b) == b = dcb \/ \E r \in Request : b = rcb[r]

(* getOrCreate: the breaker in the map, or a new one, which is b. *)
Obtain(b) ==
  \/ b = entry /\ UNCHANGED <<entry, cb>>
  \/ /\ entry = None /\ ~Held(b)
     /\ entry' = b
     /\ cb' = [cb EXCEPT ![b] = New]

-----------------------------------------------------------------------------
(* Allow, called by the dispatch loop with an item in its hand.  The steps   *)
(* in which it has the mutex are those that wait for it.                     *)

Ask(b) ==
  /\ dpc = "idle" /\ \E r \in Request : pc[r] = "idle"
  /\ Obtain(b)
  /\ dpc' = "load" /\ dcb' = b
  /\ UNCHANGED <<answer, requests, sweeping>>

At(l) == dpc = l
AtLocked(l) == dpc = l /\ cb[dcb].mu = None

Goto(l) == dpc' = l /\ UNCHANGED <<entry, dcb, answer, requests, sweeping>>

(* Allow returns true and the request starts. *)
Grant(r) == /\ pc[r] = "idle" /\ pc' = [pc EXCEPT ![r] = "out"]
            /\ dpc' = "idle" /\ dcb' = None /\ answer' = "yes"
            /\ UNCHANGED <<entry, rcb, sweeping>>

Refuse == /\ dpc' = "idle" /\ dcb' = None /\ answer' = "no"
          /\ UNCHANGED <<entry, requests, sweeping>>

(* One more request let through, unless it is closed by now. *)
OnePass(c) == IF c.state = "closed" THEN 0 ELSE c.passes + 1

LoadClosed(r) == At("load") /\ cb[dcb].state = "closed" /\ Grant(r) /\ UNCHANGED cb

LoadOther == At("load") /\ cb[dcb].state # "closed" /\ Goto(cb[dcb].state) /\ UNCHANGED cb

StillOpen == AtLocked("open") /\ cb[dcb].failureAge <= Timeout /\ Refuse /\ UNCHANGED cb

(* The timeout runs from the last failure, whichever state recorded it. *)
TimedOut == AtLocked("open") /\ cb[dcb].failureAge > Timeout /\ Goto("swap") /\ UNCHANGED cb

(* Fault: the state is compared and not swapped. *)
Swap_Compare ==
  /\ At("swap")
  /\ UNCHANGED cb
  /\ IF cb[dcb].state = "open" THEN Goto("reset") ELSE Refuse

(* The CompareAndSwap.  With one caller of Allow it does not fail. *)
Swap ==
  /\ At("swap")
  /\ IF cb[dcb].state = "open"
       THEN /\ cb' = [cb EXCEPT ![dcb] = [@ EXCEPT !.state = "half-open", !.passes = 0, !.streak = 0]]
            /\ Goto("reset")
       ELSE Refuse /\ UNCHANGED cb

ResetCounts ==
  /\ AtLocked("reset")
  /\ cb' = [cb EXCEPT ![dcb] = [@ EXCEPT !.failureCount = 0, !.successCount = 0, !.halfAge = 0]]
  /\ Goto("refill")

RefillProbes(r) ==
  /\ At("refill")
  /\ cb' = [cb EXCEPT ![dcb] = [@ EXCEPT !.halfOpenProbes = MaxProbes, !.passes = OnePass(cb[dcb])]]
  /\ Grant(r)

(* Fault: a half-open breaker waits for its probes for ever. *)
Stuck_Never == FALSE /\ Goto("reopen") /\ UNCHANGED cb

(* No probe has settled within the timeout. *)
Stuck == AtLocked("half-open") /\ cb[dcb].halfAge > Timeout /\ Goto("reopen") /\ UNCHANGED cb

NotStuck == AtLocked("half-open") /\ cb[dcb].halfAge <= Timeout /\ Goto("take") /\ UNCHANGED cb

Reopen ==
  /\ At("reopen") /\ cb[dcb].state = "half-open"
  /\ cb' = [cb EXCEPT ![dcb] = [@ EXCEPT !.state = "open", !.passes = 0]]
  /\ Goto("stamp")

ReopenFails == At("reopen") /\ cb[dcb].state # "half-open" /\ Refuse /\ UNCHANGED cb

StampFailure ==
  /\ AtLocked("stamp")
  /\ cb' = [cb EXCEPT ![dcb].failureAge = 0]
  /\ Refuse

(* Fault: the probe is not counted. *)
TakeProbe_Uncounted(r) ==
  /\ At("take") /\ cb[dcb].halfOpenProbes > 0
  /\ cb' = [cb EXCEPT ![dcb].passes = OnePass(cb[dcb])]
  /\ Grant(r)

TakeProbe(r) ==
  /\ At("take") /\ cb[dcb].halfOpenProbes > 0
  /\ cb' = [cb EXCEPT ![dcb] = [@ EXCEPT !.halfOpenProbes = cb[dcb].halfOpenProbes - 1,
                                            !.passes = OnePass(cb[dcb])]]
  /\ Grant(r)

(* Refused requests are counted down too; anything below zero is as good. *)
NoProbeLeft ==
  /\ At("take") /\ cb[dcb].halfOpenProbes <= 0
  /\ cb' = [cb EXCEPT ![dcb].halfOpenProbes = -1]
  /\ Refuse

-----------------------------------------------------------------------------
(* A request ends.  Assets, cancelled retries and pages without a browser    *)
(* record nothing on the breaker that let them through.                      *)

EndUnrecorded(r) ==
  /\ pc[r] = "out" /\ pc' = [pc EXCEPT ![r] = "idle"]
  /\ UNCHANGED <<entry, cb, asking, rcb, sweeping>>

End(r, b, outcome) ==
  /\ pc[r] = "out" /\ pc' = [pc EXCEPT ![r] = outcome]
  /\ Obtain(b)
  /\ rcb' = [rcb EXCEPT ![r] = b]
  /\ UNCHANGED <<asking, sweeping>>

(* Success and Failure are two steps each under the mutex: the state is read, *)
(* and what follows from it is stored.  Allow changes the state in between,   *)
(* for it does not take the mutex to do so.                                   *)
Lock(r, l, next) ==
  /\ pc[r] = l /\ cb[rcb[r]].mu = None
  /\ pc' = [pc EXCEPT ![r] = next]
  /\ UNCHANGED <<entry, asking, rcb, sweeping>>

Unlock(r, l) ==
  /\ pc[r] = l
  /\ pc' = [pc EXCEPT ![r] = "idle"] /\ rcb' = [rcb EXCEPT ![r] = None]
  /\ UNCHANGED <<entry, asking, sweeping>>

LoadInSuccess(r) ==
  /\ Lock(r, "success", CASE cb[rcb[r]].state = "half-open" -> "probed"
                          [] cb[rcb[r]].state = "closed" -> "clear"
                          [] cb[rcb[r]].state = "open" -> "late")
  /\ cb' = [cb EXCEPT ![rcb[r]].mu = r]

ProbeSucceeds(r) ==
  /\ Unlock(r, "probed")
  /\ LET successes == cb[rcb[r]].successCount + 1
     IN  cb' = [cb EXCEPT ![rcb[r]] =
           IF successes >= SuccessThreshold
             THEN [@ EXCEPT !.state = "closed", !.failureCount = 0, !.successCount = 0,
                            !.halfOpenProbes = MaxProbes, !.passes = 0, !.streak = 0, !.mu = None]
             ELSE [@ EXCEPT !.successCount = successes, !.halfOpenProbes = MaxProbes, !.streak = 0,
                            !.mu = None]]

ClosedSucceeds(r) ==
  /\ Unlock(r, "clear")
  /\ cb' = [cb EXCEPT ![rcb[r]] = [@ EXCEPT !.failureCount = 0, !.streak = 0, !.mu = None]]

LateSuccess(r) ==
  /\ Unlock(r, "late")
  /\ cb' = [cb EXCEPT ![rcb[r]].mu = None]

LoadInFailure(r) ==
  /\ Lock(r, "failure", IF cb[rcb[r]].state = "half-open" THEN "flunked" ELSE "counted")
  /\ LET c == cb[rcb[r]]
     IN  cb' = [cb EXCEPT ![rcb[r]] = [c EXCEPT !.mu = r, !.failureCount = @ + 1, !.failureAge = 0,
                                                !.streak = @ + 1]]

(* The state is stored, whatever it is by now. *)
Tripped(c) == [c EXCEPT !.state = "open", !.passes = IF c.state = "open" THEN @ ELSE 0]

ProbeFails(r) ==
  /\ Unlock(r, "flunked")
  /\ cb' = [cb EXCEPT ![rcb[r]] = [Tripped(@) EXCEPT !.successCount = 0, !.mu = None]]

(* Fault: the threshold is one too high. *)
OverThreshold_OffByOne(c) == c.failureCount > FailureThreshold

OverThreshold(c) == c.failureCount >= FailureThreshold

CountFailure(r) ==
  /\ Unlock(r, "counted")
  /\ cb' = [cb EXCEPT ![rcb[r]] = [IF OverThreshold(@) THEN Tripped(@) ELSE @ EXCEPT !.mu = None]]

-----------------------------------------------------------------------------
(* Cleanup collects the idle breakers, and deletes them afterwards, whatever *)
(* happened to them meanwhile.  (A breaker nobody holds is gone.)            *)

CleanupCheck ==
  /\ ~sweeping /\ entry # None
  /\ cb[entry].mu = None /\ cb[entry].state = "closed" /\ cb[entry].failureCount = 0
  /\ sweeping' = TRUE
  /\ UNCHANGED <<entry, cb, asking, requests>>

CleanupDelete ==
  /\ sweeping /\ sweeping' = FALSE
  /\ entry' = None
  /\ cb' = IF entry = None \/ Held(entry) THEN cb ELSE [cb EXCEPT ![entry] = New]
  /\ UNCHANGED <<asking, requests>>

-----------------------------------------------------------------------------
AskStep == \E b \in Breaker : Ask(b)

Allow ==
  \/ LoadOther \/ StillOpen \/ TimedOut \/ Swap \/ ResetCounts
  \/ Stuck \/ NotStuck \/ Reopen \/ ReopenFails \/ StampFailure \/ NoProbeLeft
  \/ \E r \in Request : LoadClosed(r) \/ RefillProbes(r) \/ TakeProbe(r)

Settle(r) ==
  \/ EndUnrecorded(r)
  \/ \E b \in Breaker, outcome \in {"success", "failure"} : End(r, b, outcome)
  \/ LoadInSuccess(r) \/ ProbeSucceeds(r) \/ ClosedSucceeds(r) \/ LateSuccess(r)
  \/ LoadInFailure(r) \/ ProbeFails(r) \/ CountFailure(r)

Cleanup == CleanupCheck \/ CleanupDelete

BreakerNext == Tick \/ AskStep \/ Allow \/ (\E r \in Request : Settle(r)) \/ Cleanup

BreakerSpec == BreakerInit /\ [][BreakerNext]_bvars

(* The dispatcher has URLs of the host; crawls are under timeouts; time passes. *)
BreakerFairSpec ==
  /\ BreakerSpec
  /\ WF_bvars(Tick) /\ WF_bvars(AskStep) /\ WF_bvars(Allow)
  /\ \A r \in Request : WF_bvars(Settle(r))

-----------------------------------------------------------------------------
(* An open breaker lets nothing through until it half-opens, but the one     *)
(* request that Allow was admitting when it opened.                          *)
OpenRespected == \A b \in Breaker : cb[b].state = "open" => cb[b].passes <= 1

(* In a half-open period Allow lets through the request that half-opened it, *)
(* and MaxProbes for each of the successes that do not close it yet, however *)
(* late results of earlier requests and Allow's unlocked steps interleave.   *)
ProbeBound ==
  \A b \in Breaker : cb[b].state = "half-open" => cb[b].passes <= 1 + MaxProbes * SuccessThreshold

(* A closed breaker trips in time: Allow may wipe the failures of a breaker  *)
(* that was half-opened and closed again before it came to reset the counts, *)
(* once: less than a threshold of them before, and less than one after.      *)
TripsInTime ==
  \A b \in Breaker : cb[b].state = "closed" /\ cb[b].mu = None => cb[b].streak <= 2 * (FailureThreshold - 1)

(* The host is asked again, for ever: neither probes that are never settled, *)
(* as assets never settle theirs, nor late failures, nor a lost race keep    *)
(* Allow from letting a request through some day.                            *)
Recovers == []<>(answer = "yes")
=============================================================================
