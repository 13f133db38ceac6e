------------------------------ MODULE RateLimiter ------------------------------
(***************************************************************************)
(* internal/ratelimit for one host (hosts share only the map and its       *)
(* mutex): the limiter its callers wait on, made on first use by a read,   *)
(* then a write, of the map; set to the caller's delay at each use; slowed *)
(* down and sped up by the latency observed; dropped when long idle.       *)
(* rate.Limiter is golang.org/x/time's: Wait reserves a token, which may   *)
(* leave less than none, and sleeps for as long as the rate of that moment *)
(* takes to make up for it.                                                *)
(***************************************************************************)
EXTENDS Naturals, Integers, FiniteSets

CONSTANTS
  Caller,        \* goroutines that ask; the crawler's is its main loop
  Limiter,       \* rate.Limiter objects; bound: how many are made
  Burst,         \* rl.burstSize
  BaseDelay, MinDelay, MaxDelay,   \* delays in ticks; baseDelay is the callers'
  MaxIdle,       \* idle ticks after which the cleanup drops a limiter (10 minutes)
  Token,         \* parts of a token: a multiple of every delay
  NoLimiter      \* no limiter

Least(a, b) == IF a < b THEN a ELSE b
Greatest(a, b) == IF a < b THEN b ELSE a

(* The delays there are; New makes a burst of less than one a burst of one.  *)
(* Where the callers' delay is 0 there is no limit, and no model.            *)
LongestDelay == Greatest(BaseDelay, MaxDelay)
ShortestDelay == Least(BaseDelay, Least(MinDelay, MaxDelay))

ASSUME LimiterAssumption ==
  /\ IsFiniteSet(Caller) /\ NoLimiter \notin Limiter
  /\ {Burst, BaseDelay, MinDelay, MaxDelay, Token} \subseteq Nat \ {0} /\ MaxIdle \in Nat
  /\ \A d \in 1..LongestDelay : (Token \div d) * d = Token

VARIABLES
  current,       \* rl.limiters[host]
  made,          \* limiters that exist
  tokens, delay, \* of each limiter, tokens in parts
  latency,       \* hl.lastLatency against the delay: "none", "low", "near", "high"
  idle,          \* ticks since hl.lastSeen of the current limiter
  lpc, lim,      \* a caller: "idle", "touch", "create", "ask", "wait"; and its limiter
  wake,          \* ticks until the caller's timer
  crawlDone,     \* the callers' context is done
  allowance,     \* history: the tokens of one bucket that all callers draw from
  turn,          \* history: ticks until that bucket would have let the caller go
  quota,         \* history: what the fastest rate and the burst leave for calls
  split          \* history: the cleanup dropped a limiter in debt, or one a caller had read

histVars == <<allowance, turn, quota, split>>
rvars == <<current, made, tokens, delay, latency, idle, lpc, lim, wake, crawlDone, histVars>>

Full == Burst * Token
RateOf(d) == Token \div d
FullQuota == Full + Token * Cardinality(Caller)

(* The ticks a rate needs to make up for a debt. *)
TicksFor(left, rate) == IF left >= 0 THEN 0 ELSE (rate - 1 - left) \div rate

LimiterInit ==
  /\ current = NoLimiter /\ made = {} /\ tokens = [l \in Limiter |-> 0]
  /\ delay = [l \in Limiter |-> BaseDelay] /\ latency = "none" /\ idle = 0
  /\ lpc = [c \in Caller |-> "idle"] /\ lim = [c \in Caller |-> NoLimiter]
  /\ wake = [c \in Caller |-> 0] /\ turn = [c \in Caller |-> 0] /\ crawlDone = FALSE
  /\ allowance = Full /\ quota = FullQuota /\ split = FALSE

AskOf(c, l) == lpc' = [lpc EXCEPT ![c] = "ask"] /\ lim' = [lim EXCEPT ![c] = l]

(* get reads the map ... *)
GetRead(c) ==
  /\ lpc[c] = "idle" /\ lim' = [lim EXCEPT ![c] = current]
  /\ lpc' = [lpc EXCEPT ![c] = IF current = NoLimiter THEN "create" ELSE "touch"]
  /\ UNCHANGED <<current, made, tokens, delay, latency, idle, wake, crawlDone, histVars>>

(* ... and when the host was there sets its limiter to the base delay.       *)
GetKnown(c) ==
  /\ lpc[c] = "touch" /\ AskOf(c, lim[c])
  /\ delay' = [delay EXCEPT ![lim[c]] = BaseDelay]
  /\ idle' = IF lim[c] = current THEN 0 ELSE idle
  /\ UNCHANGED <<current, made, tokens, latency, wake, crawlDone, histVars>>

NewLimiter(c) ==
  \E l \in Limiter \ made :
    /\ current' = l /\ made' = made \cup {l} /\ AskOf(c, l)
    /\ tokens' = [tokens EXCEPT ![l] = Full] /\ delay' = [delay EXCEPT ![l] = BaseDelay]
    /\ latency' = "none" /\ idle' = 0

(* Fault: the map is not read again under the write lock. *)
GetCreate_Unchecked(c) ==
  /\ lpc[c] = "create" /\ NewLimiter(c)
  /\ UNCHANGED <<wake, crawlDone, histVars>>

(* ... or when it had not, under the write lock: somebody may have been      *)
(* faster, whose limiter is then used as it is.                              *)
GetCreate(c) ==
  /\ lpc[c] = "create"
  /\ IF current # NoLimiter
       THEN AskOf(c, current) /\ UNCHANGED <<current, made, tokens, delay, latency, idle>>
       ELSE NewLimiter(c)
  /\ UNCHANGED <<wake, crawlDone, histVars>>

(* limiter.Wait reserves a token and sleeps.  Allow, which takes one that is *)
(* there, is the case in which it need not sleep.                            *)
TakeToken(c) ==
  LET l == lim[c]
      rate == RateOf(delay[l]) IN
  /\ lpc[c] = "ask" /\ ~crawlDone /\ lpc' = [lpc EXCEPT ![c] = "wait"]
  /\ tokens' = [tokens EXCEPT ![l] = @ - Token] /\ allowance' = allowance - Token
  /\ wake' = [wake EXCEPT ![c] = TicksFor(tokens[l] - Token, rate)]
  /\ turn' = [turn EXCEPT ![c] = TicksFor(allowance - Token, rate)]
  /\ UNCHANGED <<current, made, delay, latency, idle, lim, crawlDone, quota, split>>

IsServed(c) ==
  /\ lpc' = [lpc EXCEPT ![c] = "idle"] /\ lim' = [lim EXCEPT ![c] = NoLimiter]
  /\ wake' = [wake EXCEPT ![c] = 0] /\ turn' = [turn EXCEPT ![c] = 0]
  /\ UNCHANGED <<current, made, tokens, delay, latency, idle, crawlDone, allowance, split>>

(* The caller's time has come; it calls the host. *)
Go(c) == lpc[c] = "wait" /\ wake[c] = 0 /\ quota' = quota - Token /\ IsServed(c)

(* Wait fails when the context is done, and gives back the token, which      *)
(* nobody reserves any more: the context is the crawl's.  Allow says no when *)
(* there is no token.                                                        *)
GiveUp(c) ==
  /\ \/ lpc[c] \in {"ask", "wait"} /\ crawlDone
     \/ lpc[c] = "ask" /\ tokens[lim[c]] < Token
  /\ UNCHANGED quota /\ IsServed(c)

EndOfCrawl ==
  /\ crawlDone' = TRUE
  /\ UNCHANGED <<current, made, tokens, delay, latency, idle, lpc, lim, wake, histVars>>

(* ObserveLatency: the running average is compared with the delay; the first *)
(* observation is only remembered.                                           *)
ObserveLatency ==
  /\ current # NoLimiter /\ idle' = 0
  /\ latency' \in {"low", "near", "high"}
  /\ delay' = [delay EXCEPT ![current] =
       IF latency = "none" \/ latency' = "near" THEN @
       ELSE IF latency' = "high" THEN Least(2 * @, MaxDelay)
       ELSE IF @ > MinDelay THEN Greatest(@ \div 2, MinDelay) ELSE @]
  /\ UNCHANGED <<current, made, tokens, lpc, lim, wake, crawlDone, histVars>>

DropIdle ==
  /\ current # NoLimiter /\ idle > MaxIdle /\ current' = NoLimiter /\ idle' = 0
  /\ split' = (split \/ tokens[current] # Full \/ \E c \in Caller : lim[c] = current)
  /\ UNCHANGED <<made, tokens, delay, latency, lpc, lim, wake, crawlDone, allowance, turn, quota>>

(* Time passes, for whatever a caller is at; its timer may be late.          *)
LimiterTick ==
  /\ tokens' = [l \in Limiter |-> IF l \in made THEN Least(Full, tokens[l] + RateOf(delay[l])) ELSE 0]
  /\ wake' = [c \in Caller |-> Greatest(0, wake[c] - 1)]
  /\ turn' = [c \in Caller |-> Greatest(0, turn[c] - 1)]
  /\ allowance' = IF current = NoLimiter THEN Full
                  ELSE Least(Full, allowance + RateOf(delay[current]))
  /\ quota' = Least(FullQuota, quota + RateOf(ShortestDelay))
  /\ idle' = IF current = NoLimiter THEN 0 ELSE Least(idle + 1, MaxIdle + 1)
  /\ UNCHANGED <<current, made, delay, latency, lpc, lim, crawlDone, split>>

LimiterNext ==
  \/ ObserveLatency \/ DropIdle \/ LimiterTick \/ EndOfCrawl
  \/ \E c \in Caller : GetRead(c) \/ GetKnown(c) \/ GetCreate(c) \/ TakeToken(c) \/ Go(c) \/ GiveUp(c)

-----------------------------------------------------------------------------
(* No caller goes before one bucket for the host, from which all callers     *)
(* draw, would have let it go, however they meet in creating the limiter;    *)
(* and however the rate changes while they sleep, all of them together never *)
(* make more calls than the burst, one for each caller, and those the        *)
(* fastest rate gives.  A cleanup may break this when it drops a limiter     *)
(* still in debt, or between a caller's reading it and its use.              *)
RateRespected ==
  split \/ (quota >= 0 /\ \A c \in Caller : lpc[c] = "wait" => wake[c] >= turn[c])
=============================================================================
