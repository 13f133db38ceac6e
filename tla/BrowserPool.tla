------------------------------ MODULE BrowserPool ------------------------------
(***************************************************************************)
(* internal/browserpool: the browsers that the pages of a crawl share.     *)
(* Acquire hands out the context of one without taking it away; the ticker *)
(* of browser_launch.go runs HealthCheck, which replaces dead browsers and *)
(* launches without the mutex; Acquire itself restarts dead ones with it.  *)
(* A browser may crash at any time, and a launch may fail.                 *)
(***************************************************************************)
EXTENDS Naturals, Sequences, FiniteSets, SequencesExt

CONSTANTS
  Browser,       \* BrowserInstance objects; bound: how many exist at once
  PoolSize,      \* p.size
  NoBrowser      \* no browser

ASSUME PoolAssumption == IsFiniteSet(Browser) /\ NoBrowser \notin Browser

VARIABLES
  instances,     \* p.instances: the browser of each slot
  live,          \* browsers that run: their context is not done
  healthy,       \* browsers with healthy set
  poolClosed,    \* p.closed: p.instances is nil, the array it was is still read
  closing,       \* browsers Close has still to shut down
  hpc,           \* HealthCheck: "idle", "next", "launch", "store"
  toReplace,     \* slots it has still to replace
  fresh,         \* the browser it has launched, or NoBrowser
  raced          \* history: browsers Acquire put in a slot HealthCheck was replacing

bvars == <<instances, live, healthy, poolClosed, closing, hpc, toReplace, fresh, raced>>

Slots == IF poolClosed THEN {} ELSE DOMAIN instances
Dead(i) == instances[i] \notin live
Current == CHOOSE i \in toReplace : \A j \in toReplace : i <= j
Held == ToSet(instances) \cup {fresh}
Unused == Browser \ (live \cup Held)

PoolInit ==
  /\ instances = <<>> /\ live = {} /\ healthy = {} /\ poolClosed = FALSE /\ closing = {}
  /\ hpc = "idle" /\ toReplace = {} /\ fresh = NoBrowser /\ raced = {}

(* launchInstance starts a browser, waits up to 30 s for its first page and *)
(* asks it for its process; a failure leaves nothing behind.                *)
Launch(b) == b \in Unused /\ live' = live \cup {b}

(* shutdown, once per browser: kill its process group, cancel its contexts. *)
Shutdown(bs) == live' = live \ bs

(* Start launches them one by one, and shuts all of them down if one fails. *)
StartPool ==
  /\ instances = <<>> /\ ~poolClosed
  /\ \E bs \in SUBSET Unused :
       /\ Cardinality(bs) = PoolSize
       /\ instances' = SetToSeq(bs) /\ live' = bs /\ healthy' = bs
  /\ UNCHANGED <<poolClosed, closing, hpc, toReplace, fresh, raced>>

CrashBrowser(b) ==
  /\ b \in live /\ live' = live \ {b}
  /\ UNCHANGED <<instances, healthy, poolClosed, closing, hpc, toReplace, fresh, raced>>

-----------------------------------------------------------------------------
(* selectInstance: any healthy browser may be the least recently used. *)
Candidates == {i \in Slots : instances[i] \in healthy}

(* Acquire has no healthy browser, or marks the one it found dead; either way *)
(* tryRestartInstance goes through the unhealthy slots, then through the dead *)
(* ones, until a launch succeeds (failed launches are skipped).               *)
TryRestart(found) ==
  \/ /\ healthy' = healthy \ {instances[j] : j \in found}
     /\ UNCHANGED <<instances, live, raced>>
  \/ \E i \in {j \in Slots : Dead(j)}, b \in Browser :
       /\ Launch(b) /\ instances' = [instances EXCEPT ![i] = b]
       /\ healthy' = (healthy \ {instances[j] : j \in found \cup {i}}) \cup {b}
       /\ raced' = IF i \in toReplace THEN raced \cup {b} ELSE raced

(* A browser found alive is handed out, which changes nothing here. *)
Acquire ==
  /\ Slots # {}
  /\ \/ Candidates = {} /\ TryRestart({})
     \/ \E i \in Candidates : Dead(i) /\ TryRestart({i})
     \/ \E i \in Candidates : ~Dead(i) /\ UNCHANGED <<instances, live, healthy, raced>>
  /\ UNCHANGED <<poolClosed, closing, hpc, toReplace, fresh>>

-----------------------------------------------------------------------------
(* HealthCheck: the dead browsers are marked under the mutex ... *)
HealthCheck ==
  /\ hpc = "idle"
  /\ toReplace' = {i \in Slots : Dead(i)} /\ toReplace' # {} /\ hpc' = "next"
  /\ healthy' = healthy \ {instances[i] : i \in toReplace'}
  /\ UNCHANGED <<instances, live, poolClosed, closing, fresh, raced>>

(* ... then, without it, the browser that is in the slot by now is shut down ... *)
HealthShutdown ==
  /\ hpc = "next" /\ toReplace # {} /\ hpc' = "launch"
  /\ Shutdown({instances[Current]})
  /\ UNCHANGED <<instances, healthy, poolClosed, closing, toReplace, fresh, raced>>

(* ... and another launched, which takes some time and may fail ... *)
HealthLaunch ==
  /\ hpc = "launch"
  /\ \/ /\ \E b \in Browser : Launch(b) /\ fresh' = b /\ healthy' = healthy \cup {b}
        /\ hpc' = "store" /\ UNCHANGED toReplace
     \/ /\ hpc' = "next" /\ toReplace' = toReplace \ {Current}
        /\ UNCHANGED <<live, healthy, fresh>>
  /\ UNCHANGED <<instances, poolClosed, closing, raced>>

(* Fault: it is not looked at whether the pool was closed meanwhile. *)
HealthStore_AfterClose ==
  /\ hpc = "store" /\ hpc' = "next" /\ toReplace' = toReplace \ {Current} /\ fresh' = NoBrowser
  /\ instances' = [instances EXCEPT ![Current] = fresh]
  /\ UNCHANGED <<live, healthy, poolClosed, closing, raced>>

(* ... and put in the slot, whatever Acquire put there meanwhile; if the pool *)
(* was closed it is shut down.                                                *)
HealthStore ==
  /\ hpc = "store" /\ hpc' = "next" /\ toReplace' = toReplace \ {Current} /\ fresh' = NoBrowser
  /\ IF Current \notin Slots THEN Shutdown({fresh}) /\ UNCHANGED instances
     ELSE instances' = [instances EXCEPT ![Current] = fresh] /\ UNCHANGED live
  /\ UNCHANGED <<healthy, poolClosed, closing, raced>>

HealthDone ==
  /\ hpc = "next" /\ toReplace = {} /\ hpc' = "idle"
  /\ UNCHANGED <<instances, live, healthy, poolClosed, closing, toReplace, fresh, raced>>

-----------------------------------------------------------------------------
ClosePool ==
  /\ ~poolClosed /\ poolClosed' = TRUE /\ closing' = ToSet(instances)
  /\ UNCHANGED <<instances, live, healthy, hpc, toReplace, fresh, raced>>

CloseOne(b) ==
  /\ b \in closing /\ closing' = closing \ {b} /\ Shutdown({b})
  /\ UNCHANGED <<instances, healthy, poolClosed, hpc, toReplace, fresh, raced>>

PoolNext ==
  \/ StartPool \/ Acquire \/ ClosePool
  \/ HealthCheck \/ HealthShutdown \/ HealthLaunch \/ HealthStore \/ HealthDone
  \/ \E b \in Browser : CrashBrowser(b) \/ CloseOne(b)

-----------------------------------------------------------------------------
(* A browser that runs is in a slot, about to be put there, or about to be   *)
(* shut down, also when Close comes in the middle of the health check's      *)
(* launch: no Chrome is left behind, other than one that Acquire started in  *)
(* a slot the health check was replacing at that time.                        *)
NoOrphanBrowser ==
  live \subseteq {instances[i] : i \in Slots} \cup {fresh} \cup closing \cup raced
=============================================================================
