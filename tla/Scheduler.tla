------------------------------- MODULE Scheduler -------------------------------
(***************************************************************************)
(* internal/scheduler: jobs with a cron expression, each run by a          *)
(* goroutine that a Start makes for it, and Stop.  Time is in ticks of a   *)
(* calendar whose hours, days and months are as short as the constants say.*)
(* A tick passes only when no goroutine has anything to do but its job: a  *)
(* goroutine that can go on does so at once.                               *)
(***************************************************************************)
EXTENDS Integers, FiniteSets

CONSTANTS
  Job,           \* jobs that may be added
  Cron,          \* expressions they may have
  MaxStarts,     \* bound: calls of Start
  MaxTick,       \* bound: the last tick
  Ticks, Minutes, Hours, Days, Months, Weekdays   \* ticks of a minute, minutes of an hour, ...

ASSUME CalendarAssumption ==
  /\ {Ticks, Minutes, Hours, Days, Months, Weekdays} \subseteq Nat \ {0}
  /\ MaxStarts \in Nat /\ MaxTick \in Nat /\ \A c \in Cron : c.every \in Int

VARIABLES
  jobs,          \* s.jobs: the jobs added
  cronOf,        \* their expressions
  starts,        \* calls of Start so far; s.cancel is that of the last
  cancelled,     \* starts whose context is cancelled
  tick,          \* the time
  jobAt,           \* where the goroutine of a job and a start is
  dueAt,           \* the tick its timer is set to
  timers,        \* s.timers: goroutines with a timer registered
  stoppedTimers, \* goroutines whose timer Stop has stopped
  lastRun,       \* history: the minute a goroutine last started its job in
  afterCancel    \* history: jobs a goroutine has started with its context cancelled, up to 2

schedVars == <<jobs, cronOf, starts, cancelled, tick, jobAt, dueAt, timers, stoppedTimers, lastRun, afterCancel>>

Runner == Job \X (1..MaxStarts)
Never == -1

-----------------------------------------------------------------------------
(* matchField: the pattern is a list of parts, numbers and ranges or steps;  *)
(* matchCron: of day and weekday one is enough when neither is "*".          *)
AnyValue == {[kind |-> "any", lo |-> 0, hi |-> 0]}

matchField(pattern, value, min) ==
  \E p \in pattern :
    \/ p.kind = "any"
    \/ p.kind = "range" /\ p.lo <= value /\ value <= p.hi
    \/ p.kind = "step" /\ p.hi > 0 /\ (value - min) % p.hi = 0

DayNumber(m) == m \div (Minutes * Hours)

matchCron(c, m) ==
  LET dom == matchField(c.day, 1 + (DayNumber(m) % Days), 1)
      dow == matchField(c.weekday, DayNumber(m) % Weekdays, 0)
  IN /\ matchField(c.minute, m % Minutes, 0)
     /\ matchField(c.hour, (m \div Minutes) % Hours, 0)
     /\ matchField(c.month, 1 + ((DayNumber(m) \div Days) % Months), 1)
     /\ IF AnyValue \in {c.day, c.weekday} THEN dom /\ dow ELSE dom \/ dow

(* A year ahead is looked through; where nothing matches, a day passes.      *)
Year == Minutes * Hours * Days * Months
MinuteOf(t) == t \div Ticks

(* Fault: the search begins with the minute that is. *)
Ahead_WithThis(t) == MinuteOf(t)..MinuteOf(t) + Year - 1

Ahead(t) == MinuteOf(t) + 1..MinuteOf(t) + Year

(* parseCron's two kinds: fields, and "@every d" with d ticks in every, of   *)
(* which it takes any number.                                                *)
nextRun(c, t) ==
  LET matching == {m \in Ahead(t) : matchCron(c, m)}
  IN IF c.kind = "every" THEN t + c.every
     ELSE IF matching = {} THEN t + Ticks * Minutes * Hours
     ELSE Ticks * (CHOOSE m \in matching : \A k \in matching : m <= k)

(* A next run in the past is sought again from a minute ahead; one that is   *)
(* there still is run at once.                                               *)
TimerOf(c, t) ==
  LET next == IF nextRun(c, t) < t THEN nextRun(c, t + Ticks) ELSE nextRun(c, t)
  IN IF next < t THEN t ELSE next

-----------------------------------------------------------------------------
SchedulerInit ==
  /\ jobs = {} /\ cronOf \in [Job -> Cron] /\ starts = 0 /\ cancelled = {} /\ tick = 0
  /\ jobAt = [r \in Runner |-> "none"] /\ dueAt = [r \in Runner |-> Never]
  /\ timers = {} /\ stoppedTimers = {}
  /\ lastRun = [r \in Runner |-> Never] /\ afterCancel = [r \in Runner |-> 0]

(* A job added later waits for the next Start. *)
Add(j) ==
  /\ j \notin jobs /\ jobs' = jobs \cup {j}
  /\ UNCHANGED <<cronOf, starts, cancelled, tick, jobAt, dueAt, timers, stoppedTimers, lastRun, afterCancel>>

Start ==
  /\ starts < MaxStarts /\ starts' = starts + 1
  /\ jobAt' = [r \in Runner |-> IF r[2] = starts' /\ r[1] \in jobs THEN "plan" ELSE jobAt[r]]
  /\ UNCHANGED <<jobs, cronOf, cancelled, tick, dueAt, timers, stoppedTimers, lastRun, afterCancel>>

(* runJob: the timer is made and registered ...                              *)
Plan(r) ==
  /\ jobAt[r] = "plan" /\ jobAt' = [jobAt EXCEPT ![r] = "wait"]
  /\ dueAt' = [dueAt EXCEPT ![r] = TimerOf(cronOf[r[1]], tick)]
  /\ timers' = timers \cup {r} /\ stoppedTimers' = stoppedTimers \ {r}
  /\ UNCHANGED <<jobs, cronOf, starts, cancelled, tick, lastRun, afterCancel>>

(* ... and waited for; when the context is done as well, either is taken ... *)
Fire(r) ==
  /\ jobAt[r] = "wait" /\ r \notin stoppedTimers /\ dueAt[r] <= tick
  /\ jobAt' = [jobAt EXCEPT ![r] = "run"] /\ timers' = timers \ {r}
  /\ lastRun' = [lastRun EXCEPT ![r] = MinuteOf(tick)] /\ dueAt' = [dueAt EXCEPT ![r] = Never]
  /\ afterCancel' = [afterCancel EXCEPT ![r] = IF r[2] \in cancelled /\ @ < 2 THEN @ + 1 ELSE @]
  /\ UNCHANGED <<jobs, cronOf, starts, cancelled, tick, stoppedTimers>>

(* ... before the next is planned, when the job has returned.                *)
JobReturns(r) ==
  /\ jobAt[r] = "run" /\ jobAt' = [jobAt EXCEPT ![r] = "plan"]
  /\ UNCHANGED <<jobs, cronOf, starts, cancelled, tick, dueAt, timers, stoppedTimers, lastRun, afterCancel>>

Leave(r) ==
  /\ jobAt[r] = "wait" /\ r[2] \in cancelled
  /\ jobAt' = [jobAt EXCEPT ![r] = "over"] /\ timers' = timers \ {r}
  /\ dueAt' = [dueAt EXCEPT ![r] = Never]
  /\ UNCHANGED <<jobs, cronOf, starts, cancelled, tick, stoppedTimers, lastRun, afterCancel>>

(* Stop: only the last Start has a cancel function ...                       *)
StopCancels ==
  /\ starts > 0 /\ starts \notin cancelled /\ cancelled' = cancelled \cup {starts}
  /\ UNCHANGED <<jobs, cronOf, starts, tick, jobAt, dueAt, timers, stoppedTimers, lastRun, afterCancel>>

(* ... while the timers stopped are those of all.                            *)
StopTimers ==
  /\ starts \in cancelled /\ timers # {}
  /\ stoppedTimers' = stoppedTimers \cup timers /\ timers' = {}
  /\ UNCHANGED <<jobs, cronOf, starts, cancelled, tick, jobAt, dueAt, lastRun, afterCancel>>

Ready(r) ==
  \/ jobAt[r] = "plan"
  \/ jobAt[r] = "wait" /\ (r[2] \in cancelled \/ (dueAt[r] <= tick /\ r \notin stoppedTimers))

TickPasses ==
  /\ tick < MaxTick /\ tick' = tick + 1 /\ \A r \in Runner : ~Ready(r)
  /\ UNCHANGED <<jobs, cronOf, starts, cancelled, jobAt, dueAt, timers, stoppedTimers, lastRun, afterCancel>>

SchedulerNext ==
  \/ Start \/ StopCancels \/ StopTimers \/ TickPasses
  \/ \E j \in Job : Add(j)
  \/ \E r \in Runner : Plan(r) \/ Fire(r) \/ JobReturns(r) \/ Leave(r)

-----------------------------------------------------------------------------
(* A job waits for a minute its expression names, lets none pass that it     *)
(* names while it waits, and is not started twice in one - unless it names   *)
(* none in the year after the last run, when a day is waited for.  A         *)
(* goroutine whose context is cancelled starts its job at most once more,    *)
(* unless its interval leaves it no time to wait: then its timer and the end *)
(* of its context are always ready together, and nothing bounds the jobs     *)
(* that the select starts before it takes the other.                         *)
NoWait(c) == c.kind = "every" /\ (c.every = 0 \/ c.every + Ticks <= 0)

WaitsRightly(r) ==
  LET c == cronOf[r[1]]   planned == MinuteOf(dueAt[r])
  IN /\ dueAt[r] = Ticks * planned /\ matchCron(c, planned)
     /\ \A m \in MinuteOf(tick) + 1..planned - 1 : ~matchCron(c, m)
     /\ lastRun[r] # planned

WaitsADay(r) == \A m \in Ahead(dueAt[r] - Ticks * Minutes * Hours) : ~matchCron(cronOf[r[1]], m)

JobsKeepTime ==
  \A r \in Runner :
    /\ afterCancel[r] <= 1 \/ NoWait(cronOf[r[1]])
    /\ jobAt[r] = "wait" /\ r \notin stoppedTimers /\ cronOf[r[1]].kind = "fields" =>
         WaitsRightly(r) \/ WaitsADay(r)
=============================================================================
