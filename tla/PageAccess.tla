------------------------------- MODULE PageAccess -------------------------------
(***************************************************************************)
(* What a page does before it is captured: it authenticates its tab with   *)
(* an OAuth token all pages share (internal/auth/oauth.go), and has a      *)
(* challenge solved (internal/captcha, crawler/captcha.go) by a service    *)
(* that is paid for each task.                                             *)
(***************************************************************************)
EXTENDS Naturals, FiniteSets

CONSTANTS
  Visitor,       \* goroutines of pages
  Refresh,       \* refresh tokens the server issues; bound
  Lifetime,      \* ticks a token lives; it counts as expired in its last
  RetryCount,    \* cfg.CAPTCHAConfig.RetryCount: attempts of a page, and repeats of a submission
  ParsesFound,   \* detectCaptchaElements parses what its script says of a challenge; FALSE is the
                 \* code (the script's "found" is a Boolean, the Go map holds strings), TRUE its intent
  NoToken, NoRefresh, Nobody

Tokens == [refresh : Refresh \cup {NoRefresh}, left : Nat]

ASSUME AccessAssumption ==
  /\ NoToken \notin Tokens
  /\ Nobody \notin Visitor /\ NoRefresh \notin Refresh
  /\ Lifetime \in Nat /\ RetryCount \in Nat /\ ParsesFound \in BOOLEAN

VARIABLES
  way,           \* what the crawl is configured with: "oauth" or "captcha"
  vpc,           \* where a page is
  token,         \* am.token: its refresh token and the ticks left, or NoToken
  tokenMu,       \* who holds am.tokenMu
  readRefresh,   \* the refresh token a page is about to present
  issued, spent, \* at the server: refresh tokens issued, and those it has exchanged for another
  unheard,       \* history: of the spent ones, those whose exchange was answered to nobody
  replayed,      \* history: a spent one has been presented whose exchange was answered
  attempt, submitted,   \* solveCaptcha's attempts, submitTask's within one
  tasks,         \* tasks the service has accepted for a page, whether or not it was heard to
  solvedBy       \* pages with a token injected

tokenVars == <<token, tokenMu, readRefresh, issued, spent, unheard, replayed>>
solveVars == <<attempt, submitted, tasks, solvedBy>>
accessVars == <<way, vpc, tokenVars, solveVars>>

AccessInit ==
  /\ way \in {"oauth", "captcha"} /\ vpc = [p \in Visitor |-> "start"]
  /\ token = NoToken /\ tokenMu = Nobody /\ readRefresh = [p \in Visitor |-> NoRefresh]
  /\ issued = {} /\ spent = {} /\ unheard = {} /\ replayed = FALSE
  /\ attempt = [p \in Visitor |-> 0] /\ submitted = [p \in Visitor |-> 0]
  /\ tasks = [p \in Visitor |-> 0] /\ solvedBy = {}

Moves(p, from, to) == vpc[p] = from /\ vpc' = [vpc EXCEPT ![p] = to]

-----------------------------------------------------------------------------
IsValid == token # NoToken /\ token.left > 1

(* Fault: the flow reads under a shared lock. *)
LockToken_Shared(p) ==
  /\ Moves(p, "start", "token") /\ UNCHANGED <<tokenVars, solveVars>>

LockToken(p) ==
  /\ tokenMu = Nobody /\ tokenMu' = p /\ Moves(p, "start", "token")
  /\ UNCHANGED <<token, readRefresh, issued, spent, unheard, replayed, solveVars>>

CheckToken(p) ==
  /\ \/ IsValid /\ Moves(p, "token", "inject") /\ tokenMu' = Nobody /\ UNCHANGED readRefresh
     \/ ~IsValid /\ token # NoToken /\ token.refresh # NoRefresh /\ Moves(p, "token", "refresh")
        /\ readRefresh' = [readRefresh EXCEPT ![p] = token.refresh] /\ UNCHANGED tokenMu
     \/ ~IsValid /\ (IF token = NoToken THEN TRUE ELSE token.refresh = NoRefresh)
        /\ Moves(p, "token", "exchange") /\ UNCHANGED <<readRefresh, tokenMu>>
  /\ UNCHANGED <<token, issued, spent, unheard, replayed, solveVars>>

Store(r) == token' = [refresh |-> r, left |-> Lifetime] /\ tokenMu' = Nobody

(* The server answers with a new refresh token, and the old one is spent, or *)
(* with none, and the old one is kept; or the refresh fails, and a full      *)
(* exchange is tried: the server refused, or it spent the token and its      *)
(* answer was lost or cannot be used.                                        *)
Issue(r) == issued' = issued \cup ({r} \ {NoRefresh})

RefreshToken(p) ==
  LET presented == readRefresh[p] IN
  /\ replayed' = (replayed \/ presented \in spent \ unheard)
  /\ \/ /\ \E r \in Refresh \ issued : Issue(r) /\ Store(r)
        /\ spent' = spent \cup {presented} /\ unheard' = unheard \ {presented}
        /\ Moves(p, "refresh", "inject")
     \/ Store(presented) /\ Moves(p, "refresh", "inject") /\ UNCHANGED <<issued, spent, unheard>>
     \/ /\ \/ UNCHANGED <<issued, spent, unheard>>
           \/ /\ \E r \in Refresh \ issued : Issue(r)
              /\ spent' = spent \cup {presented} /\ unheard' = unheard \cup {presented}
        /\ Moves(p, "refresh", "exchange") /\ UNCHANGED <<token, tokenMu>>
  /\ UNCHANGED <<readRefresh, solveVars>>

(* The client's credentials are exchanged for a token, with a refresh token  *)
(* or without; where no usable answer comes, one may have been issued.       *)
ExchangeToken(p) ==
  /\ \E r \in (Refresh \ issued) \cup {NoRefresh} :
       /\ Issue(r)
       /\ \/ Store(r) /\ Moves(p, "exchange", "inject")
          \/ Moves(p, "exchange", "failed") /\ tokenMu' = Nobody /\ UNCHANGED token
  /\ UNCHANGED <<readRefresh, spent, unheard, replayed, solveVars>>

(* The headers are set from whatever the token is now; another page follows. *)
InjectToken(p) ==
  /\ Moves(p, "inject", "start") /\ UNCHANGED <<tokenVars, solveVars>>

TokenAges ==
  /\ token # NoToken /\ token.left > 0 /\ token' = [token EXCEPT !.left = @ - 1]
  /\ UNCHANGED <<vpc, tokenMu, readRefresh, issued, spent, unheard, replayed, solveVars>>

OAuthFlow ==
  /\ way = "oauth"
  /\ TokenAges \/ \E p \in Visitor : LockToken(p) \/ CheckToken(p) \/ RefreshToken(p)
                                       \/ ExchangeToken(p) \/ InjectToken(p)

-----------------------------------------------------------------------------
(* What detectCaptchaElements can report of a page: a challenge with a site  *)
(* key, only if the script's answer can be parsed; or none.                  *)
DetectsFoundChallenge == {FALSE} \cup {ParsesFound}

(* solveCaptcha: as often as the configuration says, while there is a        *)
(* challenge with a site key on the page.                                    *)
DetectCaptcha(p) ==
  /\ \E found \in DetectsFoundChallenge :
       IF found /\ attempt[p] < RetryCount THEN Moves(p, "start", "submit") ELSE Moves(p, "start", "done")
  /\ submitted' = [submitted EXCEPT ![p] = 0]
  /\ UNCHANGED <<attempt, tasks, solvedBy, tokenVars>>

NextAttempt(p, from) == Moves(p, from, "start") /\ attempt' = [attempt EXCEPT ![p] = @ + 1]

(* The service accepts the task, and answers with its id ...                 *)
SubmitTask(p) ==
  /\ Moves(p, "submit", "poll") /\ tasks' = [tasks EXCEPT ![p] = @ + 1]
  /\ UNCHANGED <<attempt, submitted, solvedBy, tokenVars>>

(* ... or no id is heard of, whether the service refused the task or has     *)
(* accepted it.  The submission is repeated, and when there are no repeats   *)
(* left, or the tab's context has ended, it was an attempt.                  *)
SubmissionFails(p) ==
  /\ \E accepted \in {0, 1} : tasks' = [tasks EXCEPT ![p] = @ + accepted]
  /\ \/ /\ vpc[p] = "submit" /\ submitted[p] < RetryCount
        /\ submitted' = [submitted EXCEPT ![p] = @ + 1] /\ UNCHANGED <<vpc, attempt>>
     \/ NextAttempt(p, "submit") /\ UNCHANGED submitted
  /\ UNCHANGED <<solvedBy, tokenVars>>

(* What a poll of a task ends with, once the service no longer says it is    *)
(* not ready: a token, or an error (a failed request, a status that is not   *)
(* known, a task finished without a token, the solver's timeout).            *)
PollAnswers == {"token", "error"}

(* A token is injected; after an error there is a new attempt.               *)
Poll(p) ==
  /\ \E answer \in PollAnswers :
       IF answer = "error" THEN NextAttempt(p, "poll") /\ UNCHANGED solvedBy
       ELSE Moves(p, "poll", "done") /\ solvedBy' = solvedBy \cup {p} /\ UNCHANGED attempt
  /\ UNCHANGED <<submitted, tasks, tokenVars>>

SolveFlow ==
  /\ way = "captcha"
  /\ \E p \in Visitor : DetectCaptcha(p) \/ SubmissionFails(p) \/ SubmitTask(p) \/ Poll(p)

AccessNext == (OAuthFlow \/ SolveFlow) /\ UNCHANGED way

AccessSpec == AccessInit /\ [][AccessNext]_accessVars

-----------------------------------------------------------------------------
(* What is spent is spent as often as it must be, however pages and retries  *)
(* meet: a refresh token of which it was heard that the server has exchanged *)
(* it for another is not presented again, and a page costs no more tasks     *)
(* than it has attempts of RetryCount + 1 submissions each, those counted    *)
(* that the service accepted without being heard.                            *)
SpentOnce ==
  /\ ~replayed
  /\ \A p \in Visitor : tasks[p] <= RetryCount * (RetryCount + 1)
=============================================================================
