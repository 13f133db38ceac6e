------------------------------ MODULE PageProofs ------------------------------
(***************************************************************************)
(* Theorems about a page's way through the crawler, for any pages.         *)
(* PageAccess: whatever the tokens and the number of retries, no refresh   *)
(* token is presented after the server was heard to have exchanged it, and *)
(* a page's tasks are bounded.  PageCapture: however many pages share      *)
(* however many interceptors, what a page has loaded is handled.           *)
(* AssetDownloader: however many workers there are, no request is lost.    *)
(* BoundedStructures: what is kept is what was pushed or used last.        *)
(* AssetStore: whoever saves the same body meanwhile, what was fetched is  *)
(* on disk under the path its URL is mapped to.                            *)
(***************************************************************************)
EXTENDS PageAccess, PageCapture, AssetDownloader, BoundedStructures, AssetStore,
        FiniteSetTheorems, SequenceTheorems, TLAPS

-----------------------------------------------------------------------------
(* Access. *)

Flowing == {"token", "refresh", "exchange"}   \* within oauthFlow, under tokenMu

AccessPC == Flowing \cup
  {"start", "inject", "failed", "submit", "poll", "done"}

-----------------------------------------------------------------------------
(* The token's side.  Who is within the flow has the mutex, so that the      *)
(* refresh token a page read is still the one stored; the one stored is one  *)
(* the server issued, and was not heard to have exchanged.                   *)
MutexHeld == \A p \in Visitor : vpc[p] \in Flowing => tokenMu = p

ReadIsStored ==
  \A p \in Visitor : vpc[p] = "refresh" =>
    token # NoToken /\ readRefresh[p] = token.refresh /\ token.refresh # NoRefresh

StoredIsGood ==
  token # NoToken =>
    token \in Tokens /\ token.refresh \notin spent \ unheard /\ token.refresh \in issued \cup {NoRefresh}

TokenInv ==
  /\ vpc \in [Visitor -> AccessPC] /\ readRefresh \in [Visitor -> Refresh \cup {NoRefresh}]
  /\ issued \subseteq Refresh /\ spent \subseteq issued /\ ~replayed
  /\ MutexHeld /\ ReadIsStored /\ StoredIsGood

(* The solver's side: an attempt that has ended has cost RetryCount + 1      *)
(* tasks at most, one that has not, as many as it has been submitted.        *)
Owed(p) ==
  IF vpc[p] = "submit" THEN submitted[p]
  ELSE IF vpc[p] = "poll" \/ p \in solvedBy THEN RetryCount + 1 ELSE 0

TaskOf(p) ==
  /\ submitted[p] <= RetryCount
  /\ attempt[p] < RetryCount \/ (attempt[p] = RetryCount /\ vpc[p] \notin {"submit", "poll"} /\ p \notin solvedBy)
  /\ tasks[p] <= attempt[p] * (RetryCount + 1) + Owed(p)

TaskTypes ==
  /\ vpc \in [Visitor -> AccessPC] /\ attempt \in [Visitor -> Nat] /\ submitted \in [Visitor -> Nat]
  /\ tasks \in [Visitor -> Nat] /\ solvedBy \subseteq Visitor /\ \A p \in solvedBy : vpc[p] = "done"

TaskInv == TaskTypes /\ \A p \in Visitor : TaskOf(p)

LEMMA Multiple == \A a, n \in Nat : a * n \in Nat /\ (a + 1) * n = a * n + n
OBVIOUS

LEMMA Monotone ==
  ASSUME NEW a \in Nat, NEW b \in Nat, NEW n \in Nat, a < b PROVE a * n + n <= b * n
<1>1. PICK d \in Nat : b = (a + 1) + d
  <2> WITNESS b - (a + 1) \in Nat
  <2> QED OBVIOUS
<1>2. b * n = (a + 1) * n + d * n /\ d * n \in Nat /\ (a + 1) * n \in Nat
  BY <1>1
<1>3. (a + 1) * n = a * n + n
  BY Multiple
<1> QED BY <1>2, <1>3

-----------------------------------------------------------------------------
LEMMA AccessStart == AccessInit => TokenInv /\ TaskInv
<1> SUFFICES ASSUME AccessInit PROVE TokenInv /\ TaskInv
  OBVIOUS
<1>1. vpc = [p \in Visitor |-> "start"] /\ vpc \in [Visitor -> AccessPC]
  BY DEF AccessInit, AccessPC
<1>2. MutexHeld /\ ReadIsStored /\ StoredIsGood
  BY <1>1 DEF AccessInit, MutexHeld, ReadIsStored, StoredIsGood, Flowing
<1>3. TokenInv
  BY <1>1, <1>2 DEF AccessInit, TokenInv
<1>4. TaskTypes
  BY <1>1 DEF AccessInit, TaskTypes
<1>5. \A p \in Visitor : TaskOf(p)
  BY <1>1, AccessAssumption DEF AccessInit, TaskOf, Owed
<1>6. TaskInv
  BY <1>4, <1>5 DEF TaskInv
<1> QED BY <1>3, <1>6

LEMMA MovesOne ==
  ASSUME vpc \in [Visitor -> AccessPC], NEW p \in Visitor, NEW from, NEW to \in AccessPC,
         Moves(p, from, to)
  PROVE  /\ vpc[p] = from /\ vpc' \in [Visitor -> AccessPC] /\ vpc'[p] = to
         /\ \A q \in Visitor \ {p} : vpc'[q] = vpc[q]
BY DEF Moves

-----------------------------------------------------------------------------
(* What leaves the token alone and brings nobody into the flow.              *)
LEMMA TokenIdle ==
  ASSUME TokenInv, UNCHANGED tokenVars, vpc' \in [Visitor -> AccessPC],
         \A p \in Visitor : vpc'[p] \in Flowing => vpc'[p] = vpc[p]
  PROVE  TokenInv'
BY DEF TokenInv, tokenVars, MutexHeld, ReadIsStored, StoredIsGood, Flowing

(* The holder of the mutex leaves the flow, having stored nothing or a token *)
(* that has not been spent.                                                  *)
LEMMA FlowEnds ==
  ASSUME TokenInv, NEW p \in Visitor, tokenMu = p, NEW to \in AccessPC \ Flowing,
         Moves(p, vpc[p], to), UNCHANGED readRefresh,
         issued' \subseteq Refresh, spent' \subseteq issued', ~replayed', StoredIsGood'
  PROVE  TokenInv'
<1>1. vpc' \in [Visitor -> AccessPC] /\ \A q \in Visitor : vpc'[q] \notin Flowing
  <2>1. \A q \in Visitor \ {p} : vpc[q] \notin Flowing
    BY DEF TokenInv, MutexHeld
  <2> QED BY <2>1, MovesOne DEF TokenInv
<1>2. MutexHeld' /\ ReadIsStored'
  BY <1>1 DEF MutexHeld, ReadIsStored, Flowing
<1> QED BY <1>1, <1>2 DEF TokenInv

LEMMA OAuthKeepsToken == ASSUME TokenInv, OAuthFlow PROVE TokenInv'
<1> USE AccessAssumption
<1>0. vpc \in [Visitor -> AccessPC]
  BY DEF TokenInv
<1>1. ASSUME TokenAges PROVE TokenInv'
  <2>1. token \in Tokens /\ token.left > 0 /\ token' = [token EXCEPT !.left = @ - 1]
    BY <1>1 DEF TokenAges, TokenInv, StoredIsGood
  <2>2. token' \in Tokens /\ token'.refresh = token.refresh
    BY <2>1 DEF Tokens
  <2>3. UNCHANGED <<vpc, tokenMu, readRefresh, issued, spent, unheard, replayed>> /\ token # NoToken
    BY <1>1 DEF TokenAges
  <2>4. StoredIsGood'
    BY <2>2, <2>3 DEF TokenInv, StoredIsGood
  <2>5. MutexHeld'
    BY <2>3 DEF TokenInv, MutexHeld
  <2>6. ASSUME NEW q \in Visitor, vpc[q] = "refresh"
        PROVE  token' # NoToken /\ readRefresh[q] = token'.refresh /\ token'.refresh # NoRefresh
    <3>1. readRefresh[q] = token.refresh /\ token.refresh # NoRefresh
      BY <2>6 DEF TokenInv, ReadIsStored
    <3> QED BY <3>1, <2>1, <2>2 DEF AccessAssumption
  <2> QED BY <2>3, <2>4, <2>5, <2>6 DEF TokenInv, ReadIsStored
<1>2. ASSUME NEW p \in Visitor, LockToken(p) PROVE TokenInv'
  <2>1. /\ vpc' \in [Visitor -> AccessPC] /\ vpc'[p] = "token" /\ tokenMu = Nobody /\ tokenMu' = p
        /\ \A q \in Visitor \ {p} : vpc'[q] = vpc[q]
    BY <1>0, <1>2, MovesOne DEF LockToken, AccessPC, Flowing
  <2>2. UNCHANGED <<token, readRefresh, issued, spent, unheard, replayed>>
    BY <1>2 DEF LockToken
  <2>3. \A q \in Visitor : vpc[q] \notin Flowing
    BY <2>1 DEF TokenInv, MutexHeld
  <2> QED BY <2>1, <2>2, <2>3 DEF TokenInv, MutexHeld, ReadIsStored, StoredIsGood, Flowing
<1>3. ASSUME NEW p \in Visitor, CheckToken(p) PROVE TokenInv'
  <2>1. vpc[p] = "token" /\ tokenMu = p /\ UNCHANGED <<token, issued, spent, unheard, replayed>>
    BY <1>3 DEF CheckToken, Moves, TokenInv, MutexHeld, Flowing
  <2>2. \A q \in Visitor \ {p} : vpc[q] \notin Flowing
    BY <2>1 DEF TokenInv, MutexHeld
  <2>3. StoredIsGood'
    BY <2>1 DEF TokenInv, StoredIsGood
  <2>4. CASE Moves(p, "token", "inject") /\ tokenMu' = Nobody /\ UNCHANGED readRefresh
    BY <2>1, <2>3, <2>4, FlowEnds DEF AccessPC, Flowing, TokenInv
  <2>5. CASE /\ token # NoToken /\ token.refresh # NoRefresh /\ Moves(p, "token", "refresh")
             /\ readRefresh' = [readRefresh EXCEPT ![p] = token.refresh] /\ UNCHANGED tokenMu
    <3>1. /\ vpc' \in [Visitor -> AccessPC] /\ vpc'[p] = "refresh"
          /\ \A q \in Visitor \ {p} : vpc'[q] = vpc[q]
      BY <1>0, <2>5, MovesOne DEF AccessPC, Flowing
    <3>2. token.refresh \in Refresh \cup {NoRefresh}
      BY <2>5 DEF TokenInv, StoredIsGood, Tokens
    <3>3. readRefresh' \in [Visitor -> Refresh \cup {NoRefresh}] /\ readRefresh'[p] = token.refresh
      BY <2>5, <3>2 DEF TokenInv
    <3>4. MutexHeld'
      BY <2>1, <2>2, <2>5, <3>1 DEF MutexHeld
    <3>5. ReadIsStored'
      BY <2>1, <2>2, <2>5, <3>1, <3>3 DEF ReadIsStored, Flowing
    <3> QED BY <2>1, <2>3, <3>1, <3>3, <3>4, <3>5 DEF TokenInv
  <2>6. CASE Moves(p, "token", "exchange") /\ UNCHANGED <<readRefresh, tokenMu>>
    <3>1. /\ vpc' \in [Visitor -> AccessPC] /\ vpc'[p] = "exchange"
          /\ \A q \in Visitor \ {p} : vpc'[q] = vpc[q]
      BY <1>0, <2>6, MovesOne DEF AccessPC, Flowing
    <3>2. MutexHeld' /\ ReadIsStored'
      BY <2>1, <2>2, <2>6, <3>1 DEF MutexHeld, ReadIsStored, Flowing
    <3> QED BY <2>1, <2>3, <2>6, <3>1, <3>2 DEF TokenInv
  <2> QED BY <1>3, <2>4, <2>5, <2>6 DEF CheckToken
<1>4. ASSUME NEW p \in Visitor, RefreshToken(p) PROVE TokenInv'
  <2>1. vpc[p] = "refresh" /\ UNCHANGED readRefresh
    BY <1>4 DEF RefreshToken, Moves
  <2>2. tokenMu = p /\ token # NoToken /\ readRefresh[p] = token.refresh /\ token.refresh # NoRefresh
    BY <2>1 DEF TokenInv, MutexHeld, ReadIsStored, Flowing
  <2>3. token.refresh \in issued /\ token.refresh \notin spent \ unheard /\ token.refresh \in Refresh
    BY <2>2 DEF TokenInv, StoredIsGood
  <2>4. ~replayed'
    BY <1>4, <2>2, <2>3 DEF RefreshToken, TokenInv
  <2>5. CASE /\ \E r \in Refresh \ issued : Issue(r) /\ Store(r)
             /\ spent' = spent \cup {readRefresh[p]} /\ unheard' = unheard \ {readRefresh[p]}
             /\ Moves(p, "refresh", "inject")
    <3>1. PICK r \in Refresh \ issued : issued' = issued \cup {r} /\ Store(r)
      BY <2>5 DEF Issue
    <3>2. issued' \subseteq Refresh /\ spent' \subseteq issued' /\ r \in issued' /\ r \notin spent'
      BY <2>2, <2>3, <2>5, <3>1 DEF TokenInv
    <3>3. StoredIsGood'
      BY <3>1, <3>2 DEF Store, StoredIsGood, Tokens
    <3> QED BY <2>1, <2>2, <2>4, <2>5, <3>2, <3>3, FlowEnds DEF AccessPC, Flowing
  <2>6. CASE Store(readRefresh[p]) /\ Moves(p, "refresh", "inject") /\ UNCHANGED <<issued, spent, unheard>>
    <3>1. StoredIsGood'
      BY <2>2, <2>3, <2>6 DEF Store, StoredIsGood, Tokens
    <3> QED BY <2>1, <2>2, <2>4, <2>6, <3>1, FlowEnds DEF TokenInv, AccessPC, Flowing
  <2>7. CASE /\ \/ UNCHANGED <<issued, spent, unheard>>
                \/ /\ \E r \in Refresh \ issued : Issue(r)
                   /\ spent' = spent \cup {readRefresh[p]} /\ unheard' = unheard \cup {readRefresh[p]}
             /\ Moves(p, "refresh", "exchange") /\ UNCHANGED <<token, tokenMu>>
    <3>1. /\ vpc' \in [Visitor -> AccessPC] /\ vpc'[p] = "exchange"
          /\ \A q \in Visitor \ {p} : vpc'[q] = vpc[q]
      BY <1>0, <2>7, MovesOne DEF AccessPC, Flowing
    <3>2. issued' \subseteq Refresh /\ spent' \subseteq issued' /\ issued \subseteq issued'
          /\ token.refresh \notin spent' \ unheard'
      BY <2>2, <2>3, <2>7 DEF TokenInv, Issue
    <3>3. MutexHeld' /\ ReadIsStored' /\ StoredIsGood'
      BY <2>1, <2>2, <2>7, <3>1, <3>2 DEF TokenInv, MutexHeld, ReadIsStored, StoredIsGood, Flowing
    <3> QED BY <2>1, <2>4, <3>1, <3>2, <3>3 DEF TokenInv
  <2> QED BY <1>4, <2>5, <2>6, <2>7 DEF RefreshToken
<1>5. ASSUME NEW p \in Visitor, ExchangeToken(p) PROVE TokenInv'
  <2>1. vpc[p] = "exchange" /\ tokenMu = p /\ UNCHANGED <<readRefresh, spent, unheard, replayed>>
    BY <1>5 DEF ExchangeToken, Moves, TokenInv, MutexHeld, Flowing
  <2>2. PICK r \in (Refresh \ issued) \cup {NoRefresh} :
          /\ issued' = issued \cup ({r} \ {NoRefresh})
          /\ \/ Store(r) /\ Moves(p, "exchange", "inject")
             \/ Moves(p, "exchange", "failed") /\ tokenMu' = Nobody /\ UNCHANGED token
    BY <1>5 DEF ExchangeToken, Issue
  <2>3. issued' \subseteq Refresh /\ spent' \subseteq issued' /\ r \in issued' \cup {NoRefresh}
        /\ r \notin spent' /\ issued \subseteq issued'
    BY <2>1, <2>2 DEF TokenInv
  <2>4. CASE Store(r) /\ Moves(p, "exchange", "inject")
    <3>1. StoredIsGood'
      BY <2>3, <2>4 DEF Store, StoredIsGood, Tokens
    <3> QED BY <2>1, <2>3, <2>4, <3>1, FlowEnds DEF TokenInv, AccessPC, Flowing
  <2>5. CASE Moves(p, "exchange", "failed") /\ tokenMu' = Nobody /\ UNCHANGED token
    <3>1. StoredIsGood'
      BY <2>1, <2>3, <2>5 DEF TokenInv, StoredIsGood
    <3> QED BY <2>1, <2>3, <2>5, <3>1, FlowEnds DEF TokenInv, AccessPC, Flowing
  <2> QED BY <2>2, <2>4, <2>5
<1>6. ASSUME NEW p \in Visitor, InjectToken(p) PROVE TokenInv'
  <2>1. vpc' \in [Visitor -> AccessPC] /\ \A q \in Visitor : vpc'[q] \in Flowing => vpc'[q] = vpc[q]
    BY <1>0, <1>6, MovesOne DEF InjectToken, AccessPC, Flowing
  <2> QED BY <1>6, <2>1, TokenIdle DEF InjectToken, tokenVars
<1> QED BY <1>1, <1>2, <1>3, <1>4, <1>5, <1>6 DEF OAuthFlow

(* The challenge moves no page into the flow ...                             *)
LEMMA SolveKeepsToken == ASSUME TokenInv, SolveFlow PROVE TokenInv'
<1>1. UNCHANGED tokenVars
  BY DEF SolveFlow, DetectCaptcha, SubmissionFails, SubmitTask, Poll, tokenVars
<1>2. vpc' = vpc \/ \E p \in Visitor, to \in AccessPC \ Flowing : vpc' = [vpc EXCEPT ![p] = to]
  BY DEF SolveFlow, DetectCaptcha, SubmissionFails, SubmitTask, Poll, NextAttempt, Moves,
         AccessPC, Flowing
<1>3. vpc' \in [Visitor -> AccessPC] /\ \A p \in Visitor : vpc'[p] \in Flowing => vpc'[p] = vpc[p]
  BY <1>2 DEF TokenInv
<1> QED BY <1>1, <1>3, TokenIdle

-----------------------------------------------------------------------------
(* ... and the token's flow owes the service what it owed.                   *)
LEMMA OAuthKeepsTasks == ASSUME TaskInv, OAuthFlow PROVE TaskInv'
<1>1. UNCHANGED <<attempt, submitted, tasks, solvedBy>>
  BY DEF OAuthFlow, TokenAges, LockToken, CheckToken, RefreshToken, ExchangeToken, InjectToken, solveVars
<1>2. CASE vpc' = vpc
  BY <1>1, <1>2 DEF TaskInv, TaskTypes, TaskOf, Owed
<1>3. ASSUME NEW p \in Visitor, NEW to \in AccessPC \ {"submit", "poll", "done"},
             vpc[p] \notin {"submit", "done", "poll"}, vpc' = [vpc EXCEPT ![p] = to]
      PROVE  TaskInv'
  <2>1. p \notin solvedBy
    BY <1>3 DEF TaskInv, TaskTypes
  <2>2. TaskTypes'
    BY <1>1, <1>3, <2>1 DEF TaskInv, TaskTypes
  <2>3. ASSUME NEW q \in Visitor PROVE TaskOf(q)'
    <3>1. Owed(q)' = Owed(q) /\ (vpc'[q] \in {"submit", "poll"} => vpc[q] = vpc'[q])
      BY <1>1, <1>3, <2>1 DEF TaskInv, TaskTypes, Owed
    <3>2. TaskOf(q)
      BY DEF TaskInv
    <3> QED BY <1>1, <3>1, <3>2 DEF TaskOf
  <2> QED BY <2>2, <2>3 DEF TaskInv
<1>4. \/ vpc' = vpc
      \/ \E p \in Visitor, to \in AccessPC \ {"submit", "poll", "done"} :
           vpc[p] \notin {"submit", "done", "poll"} /\ vpc' = [vpc EXCEPT ![p] = to]
  BY DEF OAuthFlow, TokenAges, LockToken, CheckToken, RefreshToken, ExchangeToken, InjectToken,
         Moves, AccessPC, Flowing
<1> QED BY <1>2, <1>3, <1>4

(* A step of the solver's moves one page, that has not been solved; the      *)
(* others are left as they are.                                              *)
LEMMA TaskStep ==
  ASSUME TaskInv, NEW p \in Visitor, p \notin solvedBy, NEW to \in {"start", "submit", "poll", "done"},
         vpc' = [vpc EXCEPT ![p] = to], NEW a \in Nat, attempt' = [attempt EXCEPT ![p] = a],
         NEW s \in Nat, submitted' = [submitted EXCEPT ![p] = s],
         NEW t \in Nat, tasks' = [tasks EXCEPT ![p] = t],
         solvedBy' = solvedBy \/ (to = "done" /\ solvedBy' = solvedBy \cup {p}),
         TaskOf(p)'
  PROVE  TaskInv'
<1>1. TaskTypes'
  BY DEF TaskInv, TaskTypes, AccessPC
<1>2. ASSUME NEW q \in Visitor \ {p} PROVE TaskOf(q)'
  <2>1. /\ vpc'[q] = vpc[q] /\ attempt'[q] = attempt[q] /\ submitted'[q] = submitted[q]
        /\ tasks'[q] = tasks[q] /\ (q \in solvedBy' <=> q \in solvedBy)
    BY DEF TaskInv, TaskTypes
  <2>2. Owed(q)' = Owed(q)
    BY <2>1 DEF Owed
  <2>3. TaskOf(q)
    BY DEF TaskInv
  <2> QED BY <2>1, <2>2, <2>3 DEF TaskOf
<1> QED BY <1>1, <1>2 DEF TaskInv

LEMMA SolveKeepsTasks == ASSUME TaskInv, SolveFlow PROVE TaskInv'
<1>0. /\ vpc \in [Visitor -> AccessPC] /\ attempt \in [Visitor -> Nat] /\ submitted \in [Visitor -> Nat]
      /\ tasks \in [Visitor -> Nat] /\ RetryCount \in Nat
  BY AccessAssumption DEF TaskInv, TaskTypes
<1> DEFINE n == RetryCount + 1
<1>n. n \in Nat /\ \A p \in Visitor : attempt[p] * n \in Nat
  BY <1>0, Multiple
<1>a. ASSUME NEW p \in Visitor
      PROVE  /\ vpc[p] # "done" => p \notin solvedBy
             /\ vpc[p] = "submit" => /\ attempt[p] < RetryCount /\ submitted[p] <= RetryCount
                                     /\ tasks[p] <= attempt[p] * n + submitted[p]
             /\ vpc[p] = "poll" => attempt[p] < RetryCount /\ tasks[p] <= attempt[p] * n + n
             /\ vpc[p] = "start" => attempt[p] <= RetryCount /\ tasks[p] <= attempt[p] * n
  <2>1. TaskOf(p) /\ (p \in solvedBy => vpc[p] = "done")
    BY DEF TaskInv, TaskTypes
  <2>2. tasks[p] <= attempt[p] * n + Owed(p)
    BY <2>1 DEF TaskOf
  <2> HIDE DEF n
  <2>3. vpc[p] = "submit" => tasks[p] <= attempt[p] * n + submitted[p]
    BY <2>2 DEF Owed
  <2>4. vpc[p] = "poll" => tasks[p] <= attempt[p] * n + n
    BY <2>2 DEF Owed, n
  <2>5. vpc[p] = "start" => tasks[p] <= attempt[p] * n
    <3>1. vpc[p] = "start" => Owed(p) = 0
      BY <2>1 DEF Owed
    <3> QED BY <1>0, <1>n, <2>2, <3>1
  <2> QED BY <1>0, <2>1, <2>3, <2>4, <2>5 DEF TaskOf
<1>1. ASSUME NEW p \in Visitor, DetectCaptcha(p) PROVE TaskInv'
  <2>1. PICK to \in {"submit", "done"} :
          vpc[p] = "start" /\ vpc' = [vpc EXCEPT ![p] = to] /\ (to = "submit" => attempt[p] < RetryCount)
    BY <1>1 DEF DetectCaptcha, Moves
  <2>2. submitted' = [submitted EXCEPT ![p] = 0] /\ UNCHANGED <<attempt, tasks, solvedBy>>
    BY <1>1 DEF DetectCaptcha
  <2>3. p \notin solvedBy /\ attempt[p] <= RetryCount /\ tasks[p] <= attempt[p] * n
    BY <1>a, <2>1
  <2>4. Owed(p)' = 0 /\ vpc'[p] = to /\ submitted'[p] = 0
    BY <1>0, <2>1, <2>2, <2>3 DEF Owed
  <2>5. tasks'[p] <= attempt'[p] * n + Owed(p)'
    <3> HIDE DEF n
    <3> QED BY <1>0, <1>n, <2>2, <2>3, <2>4
  <2>6. TaskOf(p)'
    BY <1>0, <2>1, <2>2, <2>3, <2>4, <2>5 DEF TaskOf
  <2>7. attempt' = [attempt EXCEPT ![p] = attempt[p]] /\ tasks' = [tasks EXCEPT ![p] = tasks[p]]
    BY <1>0, <2>2
  <2> QED BY <1>0, <2>1, <2>2, <2>3, <2>6, <2>7, TaskStep
<1>2. ASSUME NEW p \in Visitor, NEW from \in {"submit", "poll"}, NextAttempt(p, from),
             NEW t \in Nat, tasks' = [tasks EXCEPT ![p] = t], t <= attempt[p] * n + n,
             UNCHANGED <<submitted, solvedBy>>
      PROVE  TaskInv'
  <2>1. /\ vpc[p] = from /\ vpc' = [vpc EXCEPT ![p] = "start"]
        /\ attempt' = [attempt EXCEPT ![p] = attempt[p] + 1]
    BY <1>2 DEF NextAttempt, Moves
  <2>2. p \notin solvedBy /\ attempt[p] < RetryCount /\ submitted[p] <= RetryCount
    BY <1>a, <2>1 DEF TaskInv, TaskOf
  <2>3. Owed(p)' = 0 /\ vpc'[p] = "start" /\ attempt'[p] = attempt[p] + 1 /\ tasks'[p] = t
    BY <1>0, <1>2, <2>1, <2>2 DEF Owed
  <2>4. tasks'[p] <= attempt'[p] * n + Owed(p)'
    <3>1. (attempt[p] + 1) * n = attempt[p] * n + n
      BY <1>0, <1>n, Multiple
    <3> HIDE DEF n
    <3> QED BY <1>0, <1>n, <1>2, <2>3, <3>1
  <2>5. TaskOf(p)'
    BY <1>0, <1>2, <2>2, <2>3, <2>4 DEF TaskOf
  <2>6. submitted' = [submitted EXCEPT ![p] = submitted[p]]
    BY <1>0, <1>2
  <2>7. attempt[p] + 1 \in Nat /\ submitted[p] \in Nat
    BY <1>0
  <2> HIDE DEF n
  <2> QED BY <1>2, <2>1, <2>2, <2>5, <2>6, <2>7, TaskStep
<1>3. ASSUME NEW p \in Visitor, SubmissionFails(p) PROVE TaskInv'
  <2>1. PICK accepted \in {0, 1} : tasks' = [tasks EXCEPT ![p] = tasks[p] + accepted]
    BY <1>3 DEF SubmissionFails
  <2>2. vpc[p] = "submit" /\ solvedBy' = solvedBy
    BY <1>3 DEF SubmissionFails, NextAttempt, Moves
  <2>3. /\ p \notin solvedBy /\ attempt[p] < RetryCount /\ submitted[p] <= RetryCount
        /\ tasks[p] <= attempt[p] * n + submitted[p]
    BY <1>a, <2>2
  <2>4. CASE /\ submitted[p] < RetryCount
             /\ submitted' = [submitted EXCEPT ![p] = @ + 1] /\ UNCHANGED <<vpc, attempt>>
    <3>1. /\ vpc'[p] = "submit" /\ attempt'[p] = attempt[p] /\ submitted'[p] = submitted[p] + 1
          /\ tasks'[p] = tasks[p] + accepted /\ Owed(p)' = submitted[p] + 1
      BY <1>0, <2>1, <2>2, <2>4 DEF Owed
    <3>2. tasks'[p] <= attempt'[p] * n + Owed(p)'
      <4> HIDE DEF n
      <4> QED BY <1>0, <1>n, <2>3, <3>1
    <3>3. TaskOf(p)'
      BY <1>0, <2>2, <2>3, <2>4, <3>1, <3>2 DEF TaskOf
    <3>4. /\ vpc' = [vpc EXCEPT ![p] = "submit"] /\ attempt' = [attempt EXCEPT ![p] = attempt[p]]
          /\ submitted' = [submitted EXCEPT ![p] = submitted[p] + 1]
      BY <1>0, <2>2, <2>4
    <3>5. attempt[p] \in Nat /\ submitted[p] + 1 \in Nat /\ tasks[p] + accepted \in Nat
      BY <1>0
    <3> HIDE DEF n
    <3> QED BY <2>1, <2>2, <2>3, <3>3, <3>4, <3>5, TaskStep
  <2>5. CASE NextAttempt(p, "submit") /\ UNCHANGED submitted
    <3>1. tasks[p] + accepted <= attempt[p] * n + n
      <4>1. submitted[p] + 1 <= n
        BY <1>0, <2>3
      <4> HIDE DEF n
      <4> QED BY <1>0, <1>n, <2>3, <4>1
    <3>2. tasks[p] + accepted \in Nat
      BY <1>0
    <3> HIDE DEF n
    <3> QED BY <1>2, <2>1, <2>2, <2>5, <3>1, <3>2
  <2> QED BY <1>3, <2>4, <2>5 DEF SubmissionFails
<1>4. ASSUME NEW p \in Visitor, SubmitTask(p) PROVE TaskInv'
  <2>1. /\ vpc[p] = "submit" /\ vpc' = [vpc EXCEPT ![p] = "poll"]
        /\ tasks' = [tasks EXCEPT ![p] = tasks[p] + 1] /\ UNCHANGED <<attempt, submitted, solvedBy>>
    BY <1>4 DEF SubmitTask, Moves
  <2>2. /\ p \notin solvedBy /\ attempt[p] < RetryCount /\ submitted[p] <= RetryCount
        /\ tasks[p] <= attempt[p] * n + submitted[p]
    BY <1>a, <2>1
  <2>3. Owed(p)' = n /\ vpc'[p] = "poll" /\ tasks'[p] = tasks[p] + 1
    BY <1>0, <2>1 DEF Owed
  <2>4. tasks'[p] <= attempt'[p] * n + Owed(p)'
    <3>1. submitted[p] + 1 <= n
      BY <1>0, <2>2
    <3> HIDE DEF n
    <3> QED BY <1>0, <1>n, <2>1, <2>2, <2>3, <3>1
  <2>5. TaskOf(p)'
    BY <1>0, <2>1, <2>2, <2>3, <2>4 DEF TaskOf
  <2>6. attempt' = [attempt EXCEPT ![p] = attempt[p]] /\ submitted' = [submitted EXCEPT ![p] = submitted[p]]
    BY <1>0, <2>1
  <2>7. attempt[p] \in Nat /\ submitted[p] \in Nat /\ tasks[p] + 1 \in Nat
    BY <1>0
  <2> HIDE DEF n
  <2> QED BY <2>1, <2>2, <2>5, <2>6, <2>7, TaskStep
<1>5. ASSUME NEW p \in Visitor, Poll(p) PROVE TaskInv'
  <2>1. vpc[p] = "poll" /\ UNCHANGED <<submitted, tasks>>
    BY <1>5 DEF Poll, NextAttempt, Moves
  <2>2. p \notin solvedBy /\ attempt[p] < RetryCount /\ tasks[p] <= attempt[p] * n + n
    BY <1>a, <2>1
  <2>3. tasks' = [tasks EXCEPT ![p] = tasks[p]]
    BY <1>0, <2>1
  <2>4. CASE NextAttempt(p, "poll") /\ UNCHANGED solvedBy
    BY <1>0, <1>2, <2>1, <2>2, <2>3, <2>4
  <2>5. CASE Moves(p, "poll", "done") /\ solvedBy' = solvedBy \cup {p} /\ UNCHANGED attempt
    <3>1. vpc' = [vpc EXCEPT ![p] = "done"] /\ p \in solvedBy'
      BY <2>5 DEF Moves
    <3>2. Owed(p)' = n /\ vpc'[p] = "done"
      BY <1>0, <3>1 DEF Owed
    <3>3. TaskOf(p) /\ tasks'[p] <= attempt'[p] * n + Owed(p)'
      BY <2>1, <2>2, <2>5, <3>2 DEF TaskInv
    <3>4. TaskOf(p)'
      BY <1>0, <2>1, <2>2, <2>5, <3>2, <3>3 DEF TaskOf
    <3>5. attempt' = [attempt EXCEPT ![p] = attempt[p]] /\ submitted' = [submitted EXCEPT ![p] = submitted[p]]
      BY <1>0, <2>1, <2>5
    <3> QED BY <1>0, <2>2, <2>3, <2>5, <3>1, <3>4, <3>5, TaskStep
  <2> QED BY <1>5, <2>4, <2>5 DEF Poll
<1> QED BY <1>1, <1>3, <1>4, <1>5 DEF SolveFlow

-----------------------------------------------------------------------------
(* oauthFlow refreshes under tokenMu, so that no page presents the refresh   *)
(* token another has exchanged; and solveCaptcha's attempts and              *)
(* createTaskAndPoll's submissions bound what a page can cost, whichever of  *)
(* their answers are lost.                                                   *)
THEOREM AccessSpentOnce == AccessSpec => []SpentOnce
<1>1. TokenInv /\ TaskInv /\ [AccessNext]_accessVars => TokenInv' /\ TaskInv'
  <2> SUFFICES ASSUME TokenInv, TaskInv, [AccessNext]_accessVars PROVE TokenInv' /\ TaskInv'
    OBVIOUS
  <2>1. CASE OAuthFlow
    BY <2>1, OAuthKeepsToken, OAuthKeepsTasks
  <2>2. CASE SolveFlow
    BY <2>2, SolveKeepsToken, SolveKeepsTasks
  <2>3. CASE UNCHANGED accessVars
    BY <2>3 DEF accessVars, tokenVars, solveVars, TokenInv, MutexHeld, ReadIsStored, StoredIsGood,
                TaskInv, TaskTypes, TaskOf, Owed
  <2> QED BY <2>1, <2>2, <2>3 DEF AccessNext
<1>2. ASSUME TokenInv, TaskInv PROVE SpentOnce
  <2> DEFINE n == RetryCount + 1
  <2>1. ~replayed /\ RetryCount \in Nat /\ n \in Nat
    <3>1. ~replayed
      BY <1>2 DEF TokenInv
    <3>2. RetryCount \in Nat
      BY AccessAssumption
    <3> QED BY <3>1, <3>2
  <2>2. ASSUME NEW p \in Visitor PROVE tasks[p] <= RetryCount * n
    <3>1. /\ attempt[p] \in Nat /\ tasks[p] \in Nat /\ submitted[p] \in Nat /\ submitted[p] <= RetryCount
          /\ tasks[p] <= attempt[p] * n + Owed(p)
          /\ attempt[p] < RetryCount \/ (attempt[p] = RetryCount /\ Owed(p) = 0)
      <4>1. TaskTypes /\ TaskOf(p)
        BY <1>2 DEF TaskInv
      <4>2. attempt[p] = RetryCount /\ vpc[p] \notin {"submit", "poll"} /\ p \notin solvedBy => Owed(p) = 0
        BY DEF Owed
      <4>3. tasks[p] <= attempt[p] * n + Owed(p)
        BY <4>1 DEF TaskOf
      <4>4. attempt[p] \in Nat /\ tasks[p] \in Nat /\ submitted[p] \in Nat
        BY <4>1 DEF TaskTypes
      <4> HIDE DEF n
      <4> QED BY <4>1, <4>2, <4>3, <4>4 DEF TaskOf
    <3>2. Owed(p) \in Nat /\ Owed(p) <= n
      BY <2>1, <3>1 DEF Owed
    <3>3. attempt[p] * n \in Nat /\ RetryCount * n \in Nat
      BY <2>1, <3>1, Multiple
    <3>4. attempt[p] < RetryCount => attempt[p] * n + n <= RetryCount * n
      BY <2>1, <3>1, Monotone
    <3> HIDE DEF n
    <3>5. CASE attempt[p] < RetryCount
      BY <2>1, <3>1, <3>2, <3>3, <3>4, <3>5
    <3>6. CASE attempt[p] = RetryCount /\ Owed(p) = 0
      BY <2>1, <3>1, <3>3, <3>6
    <3> QED BY <3>1, <3>5, <3>6
  <2> QED BY <2>1, <2>2 DEF SpentOnce
<1> QED BY <1>1, <1>2, AccessStart, PTL DEF AccessSpec

-----------------------------------------------------------------------------
(* Capture. *)

CaptureSpec == CaptureInit /\ [][CaptureNext]_cvars

PagePC == {"idle", "acquire", "load", "routes", "aggregate", "capture", "wait", "take", "bodies",
           "missing", "links", "close", "release", "tab", "done"}

CaptureTypes ==
  /\ ppc \in [Page -> PagePC] /\ intercept \in [Page -> Interceptor \cup {NoInterceptor}]
  /\ seen \in [Interceptor -> SUBSET Resource] /\ resources \in [Interceptor -> SUBSET Resource]
  /\ pendingBodies \in [Interceptor -> SUBSET Event] /\ fetching \in [Interceptor -> SUBSET Event]
  /\ remaining \in [Interceptor -> SUBSET Event]
  /\ got \in [Page -> SUBSET Resource] /\ due \in [Page -> SUBSET Resource]

(* The pool gives an interceptor to one page at a time; the handlers of a    *)
(* tab that is still open report to the one its page had.                    *)
OwnInterceptor ==
  \A p \in Page :
    /\ Listening(p) => intercept[p] \in Interceptor
    /\ Holding(p) => \A q \in Page : Holding(q) /\ intercept[q] = intercept[p] => q = p

(* From the pending ones' being taken to the release, what is due is seen,   *)
(* so that no event makes it pending, and no late body is one of them.       *)
DueOf(p) ==
  /\ ppc[p] \in {"bodies", "missing", "links", "close"} =>
       /\ due[p] \subseteq seen[intercept[p]]
       /\ \A e \in pendingBodies[intercept[p]] \cup fetching[intercept[p]] : e[2] \notin due[p]
  /\ ppc[p] = "missing" => due[p] \cap resources[intercept[p]] \subseteq got[p]
  /\ ppc[p] \in {"links", "close"} => due[p] \cap Fetchable \subseteq got[p]

CaptureInv == CaptureTypes /\ OwnInterceptor /\ \A p \in Page : DueOf(p)

(* A step of a page that leaves the interceptors to themselves.              *)
LEMMA PageGoes ==
  ASSUME CaptureInv, NEW p \in Page, NEW to \in PagePC \ {"bodies", "missing", "links", "tab"},
         ppc' = [ppc EXCEPT ![p] = to], UNCHANGED <<ivars, gvars>>,
         Holding(p) \/ to = "done", to = "close" => ppc[p] = "links"
  PROVE  CaptureInv'
<1>1. CaptureTypes'
  BY DEF CaptureInv, CaptureTypes, ivars, gvars
<1>2. OwnInterceptor'
  BY DEF CaptureInv, CaptureTypes, OwnInterceptor, Listening, TabOpen, Holding, ivars
<1>3. \A q \in Page : DueOf(q)'
  BY DEF CaptureInv, CaptureTypes, DueOf, ivars, gvars
<1> QED BY <1>1, <1>2, <1>3 DEF CaptureInv

(* The handlers and the goroutines they start, for the tab of any page.      *)
LEMMA EventsKeepDue ==
  ASSUME CaptureInv, NEW e \in Event,
         onResponse(e) \/ onLoadingFinished(e) \/ \E i \in Interceptor : fetchAndProcess(i, e)
  PROVE  CaptureInv'
<1>1. /\ ppc' = ppc /\ intercept' = intercept /\ got' = got /\ remaining' = remaining
      /\ e[1] \in Page /\ e[2] \in Resource
  BY DEF onResponse, onLoadingFinished, fetchAndProcess, gvars, Event
<1>2. OwnInterceptor'
  BY <1>1 DEF CaptureInv, OwnInterceptor, Listening, TabOpen, Holding
<1>0. \A p \in Page : ppc[p] \in {"bodies", "missing", "links", "close"} => intercept[p] \in Interceptor
  BY DEF CaptureInv, CaptureTypes, OwnInterceptor, Listening, TabOpen
<1>3. CASE onResponse(e)
  <2>1. intercept[e[1]] \in Interceptor
    BY <1>1, <1>3 DEF onResponse, CaptureInv, OwnInterceptor
  <2>2. CASE e[2] \in seen[intercept[e[1]]]
    BY <1>1, <1>2, <1>3, <2>2 DEF onResponse, CaptureInv, CaptureTypes, DueOf
  <2>3. ASSUME NEW out \in Evicted(intercept[e[1]]),
               /\ seen' = [seen EXCEPT ![intercept[e[1]]] = (@ \ out) \cup {e[2]}]
               /\ due' = [p \in Page |-> IF intercept[p] = intercept[e[1]] THEN due[p] \ out ELSE due[p]]
               /\ pendingBodies' = [pendingBodies EXCEPT ![intercept[e[1]]] = @ \cup {e}],
               e[2] \notin seen[intercept[e[1]]]
        PROVE  CaptureInv'
    <3>1. CaptureTypes'
      BY <1>1, <1>3, <2>1, <2>3 DEF onResponse, CaptureInv, CaptureTypes
    <3>2. ASSUME NEW p \in Page PROVE DueOf(p)'
      BY <1>0, <1>1, <1>3, <2>1, <2>3 DEF onResponse, CaptureInv, CaptureTypes, DueOf
    <3> QED BY <1>2, <3>1, <3>2 DEF CaptureInv
  <2> QED BY <1>3, <2>2, <2>3 DEF onResponse
<1>4. CASE onLoadingFinished(e)
  <2>1. intercept[e[1]] \in Interceptor
    BY <1>1, <1>4 DEF onLoadingFinished, CaptureInv, OwnInterceptor
  <2>2. CaptureTypes'
    BY <1>1, <1>4, <2>1 DEF onLoadingFinished, CaptureInv, CaptureTypes, gvars
  <2>3. \A p \in Page : DueOf(p)'
    BY <1>0, <1>1, <1>4, <2>1 DEF onLoadingFinished, CaptureInv, CaptureTypes, DueOf, gvars
  <2> QED BY <1>2, <2>2, <2>3 DEF CaptureInv
<1>5. ASSUME NEW i \in Interceptor, fetchAndProcess(i, e) PROVE CaptureInv'
  <2>1. CaptureTypes'
    BY <1>1, <1>5 DEF fetchAndProcess, Fetched, CaptureInv, CaptureTypes, gvars
  <2>2. \A p \in Page : DueOf(p)'
    BY <1>0, <1>1, <1>5 DEF fetchAndProcess, Fetched, CaptureInv, CaptureTypes, DueOf, gvars
  <2> QED BY <1>2, <2>1, <2>2 DEF CaptureInv
<1> QED BY <1>3, <1>4, <1>5

(* The pool: what Reset empties is nobody's or the page's own.               *)
LEMMA PoolKeepsDue ==
  ASSUME CaptureInv, NEW p \in Page, AcquireInterceptor(p) \/ ReleaseInterceptor(p)
  PROVE  CaptureInv'
<1>0. \A q \in Page : ppc[q] \in {"bodies", "missing", "links", "close"} =>
         intercept[q] \in Interceptor /\ Holding(q)
  BY DEF CaptureInv, CaptureTypes, OwnInterceptor, Listening, TabOpen, Holding
<1>1. CASE AcquireInterceptor(p)
  <2>1. PICK i \in Interceptor : /\ \A q \in Page : Holding(q) => intercept[q] # i
                                 /\ intercept' = [intercept EXCEPT ![p] = i] /\ Reset(i)
    BY <1>1 DEF AcquireInterceptor
  <2>2. ppc[p] = "acquire" /\ ppc' = [ppc EXCEPT ![p] = "load"] /\ got' = got /\ due' = due
    BY <1>1 DEF AcquireInterceptor, Goto, gvars
  <2>3. CaptureTypes'
    BY <2>1, <2>2 DEF CaptureInv, CaptureTypes, Reset, PagePC
  <2>4. OwnInterceptor'
    BY <2>1, <2>2 DEF CaptureInv, CaptureTypes, OwnInterceptor, Listening, TabOpen, Holding
  <2>5. \A q \in Page : DueOf(q)'
    BY <1>0, <2>1, <2>2 DEF CaptureInv, CaptureTypes, DueOf, Reset
  <2> QED BY <2>3, <2>4, <2>5 DEF CaptureInv
<1>2. CASE ReleaseInterceptor(p)
  <2>1. /\ ppc[p] = "release" /\ ppc' = [ppc EXCEPT ![p] = "tab"] /\ got' = got /\ due' = due
        /\ intercept' = intercept /\ Reset(intercept[p]) /\ Holding(p) /\ intercept[p] \in Interceptor
    BY <1>2 DEF ReleaseInterceptor, Goto, gvars, Holding, CaptureInv, OwnInterceptor, Listening, TabOpen
  <2>2. CaptureTypes'
    BY <2>1 DEF CaptureInv, CaptureTypes, Reset, PagePC
  <2>3. OwnInterceptor'
    BY <2>1 DEF CaptureInv, CaptureTypes, OwnInterceptor, Listening, TabOpen, Holding
  <2>4. \A q \in Page : DueOf(q)'
    BY <1>0, <2>1 DEF CaptureInv, CaptureTypes, OwnInterceptor, DueOf, Reset
  <2> QED BY <2>2, <2>3, <2>4 DEF CaptureInv
<1> QED BY <1>1, <1>2

(* FetchBodies and what is made of its result.                               *)
LEMMA BodiesKeepDue ==
  ASSUME CaptureInv, NEW p \in Page,
         \/ TakePending(p) \/ SaveResources(p) \/ SaveMissing(p) \/ QueueLinks(p)
         \/ \E e \in Event : FetchRemaining(p, e)
  PROVE  CaptureInv'
<1>0. \A q \in Page : ppc[q] \in {"take", "bodies", "missing", "links", "close"} =>
         /\ intercept[q] \in Interceptor /\ Holding(q)
         /\ \A r \in Page : Holding(r) /\ intercept[r] = intercept[q] => r = q
  BY DEF CaptureInv, CaptureTypes, OwnInterceptor, Listening, TabOpen, Holding
<1>i. intercept' = intercept /\ seen' = seen /\ fetching' = fetching
  BY DEF TakePending, SaveResources, SaveMissing, QueueLinks, FetchRemaining, ivars
<1>1. CASE TakePending(p)
  <2>1. CaptureTypes'
    BY <1>0, <1>1 DEF CaptureInv, CaptureTypes, TakePending, Goto, PagePC
  <2>2. OwnInterceptor'
    BY <1>1 DEF CaptureInv, CaptureTypes, TakePending, Goto, OwnInterceptor, Listening, TabOpen, Holding
  <2>3. \A q \in Page : DueOf(q)'
    BY <1>0, <1>1 DEF CaptureInv, CaptureTypes, TakePending, Goto, DueOf, URLs
  <2> QED BY <2>1, <2>2, <2>3 DEF CaptureInv
<1>2. CASE SaveResources(p)
  <2>1. CaptureTypes'
    BY <1>0, <1>2 DEF CaptureInv, CaptureTypes, SaveResources, Goto, PagePC, ivars
  <2>2. OwnInterceptor'
    BY <1>2 DEF CaptureInv, CaptureTypes, SaveResources, Goto, OwnInterceptor, Listening, TabOpen, Holding, ivars
  <2>3. \A q \in Page : DueOf(q)'
    BY <1>0, <1>2 DEF CaptureInv, CaptureTypes, SaveResources, Goto, DueOf, ivars
  <2> QED BY <2>1, <2>2, <2>3 DEF CaptureInv
<1>3. CASE SaveMissing(p)
  <2>1. CaptureTypes'
    BY <1>0, <1>3 DEF CaptureInv, CaptureTypes, SaveMissing, GetMissingResources, Goto, PagePC, ivars
  <2>2. OwnInterceptor'
    BY <1>3 DEF CaptureInv, CaptureTypes, SaveMissing, Goto, OwnInterceptor, Listening, TabOpen, Holding, ivars
  <2>3. \A q \in Page : DueOf(q)'
    BY <1>0, <1>3 DEF CaptureInv, CaptureTypes, SaveMissing, GetMissingResources, Goto, DueOf, ivars
  <2> QED BY <2>1, <2>2, <2>3 DEF CaptureInv
<1>4. CASE QueueLinks(p)
  BY <1>4, PageGoes DEF QueueLinks, Goto, PagePC, Holding
<1>5. ASSUME NEW e \in Event, FetchRemaining(p, e) PROVE CaptureInv'
  <2>1. CaptureTypes'
    BY <1>0, <1>5 DEF CaptureInv, CaptureTypes, FetchRemaining, Fetched, Event, gvars
  <2>2. OwnInterceptor'
    BY <1>5 DEF CaptureInv, OwnInterceptor, FetchRemaining, Listening, TabOpen, Holding
  <2>3. \A q \in Page : DueOf(q)'
    BY <1>0, <1>5 DEF CaptureInv, CaptureTypes, FetchRemaining, Fetched, DueOf, gvars
  <2> QED BY <2>1, <2>2, <2>3 DEF CaptureInv
<1> QED BY <1>1, <1>2, <1>3, <1>4, <1>5

(* The other steps of a page. *)
LEMMA PageKeepsDue ==
  ASSUME CaptureInv, NEW p \in Page,
         \/ AcquireTimesOut(p) \/ NavigateFails(p) \/ ClickCancelled(p) \/ DiscoverRoutes(p)
         \/ ExtractData(p) \/ writeSiteAggregate(p) \/ CaptureFails(p) \/ SaveHTML(p) \/ WaitFetches(p)
         \/ CloseInterceptor(p) \/ CloseTab(p)
  PROVE  CaptureInv'
<1>1. CASE AcquireTimesOut(p)
  BY <1>1, PageGoes DEF AcquireTimesOut, Return, Goto, PagePC, Holding
<1>2. CASE NavigateFails(p) \/ ClickCancelled(p) \/ CaptureFails(p)
  BY <1>2, PageGoes DEF NavigateFails, ClickCancelled, CaptureFails, Return, Goto, PagePC, Holding
<1>3. CASE DiscoverRoutes(p) \/ writeSiteAggregate(p) \/ SaveHTML(p) \/ WaitFetches(p)
  BY <1>3, PageGoes DEF DiscoverRoutes, writeSiteAggregate, SaveHTML, WaitFetches, Goto, PagePC, Holding
<1>4. CASE ExtractData(p)
  BY <1>4, PageGoes DEF ExtractData, Goto, PagePC, Holding
<1>5. CASE CloseInterceptor(p) \/ CloseTab(p)
  BY <1>5, PageGoes DEF CloseInterceptor, CloseTab, Goto, PagePC, Holding
<1> QED BY <1>1, <1>2, <1>3, <1>4, <1>5

(* SeenIsHandled: bodies that arrive late, also those of a page that had the *)
(* interceptor before, are none that this page counts on (network/           *)
(* interceptor.go: FetchBodies, fetchAndProcess; crawler/capture.go).        *)
THEOREM CaptureSeenIsHandled == CaptureSpec => []SeenIsHandled
<1>1. CaptureInit => CaptureInv
  BY DEF CaptureInit, CaptureInv, CaptureTypes, PagePC, OwnInterceptor, Listening, TabOpen, Holding, DueOf
<1>2. CaptureInv /\ [CaptureNext]_cvars => CaptureInv'
  <2> SUFFICES ASSUME CaptureInv, [CaptureNext]_cvars PROVE CaptureInv'
    OBVIOUS
  <2>1. CASE UNCHANGED <<ppc, ivars, gvars>>
    BY <2>1 DEF CaptureInv, CaptureTypes, OwnInterceptor, Listening, TabOpen, Holding, DueOf, ivars, gvars
  <2>2. ASSUME NEW p \in Page, OpenTab(p) PROVE CaptureInv'
    BY <2>2 DEF OpenTab, Goto, PagePC, CaptureInv, CaptureTypes, OwnInterceptor, Listening, TabOpen, Holding,
       DueOf, ivars, gvars
  <2>3. EndCrawl \/ UNCHANGED cvars \/ (\E p \in Page, r \in Route : VisitRoute(p, r)) =>
          UNCHANGED <<ppc, ivars, gvars>>
    BY DEF EndCrawl, VisitRoute, cvars
  <2> QED BY <2>1, <2>2, <2>3, EventsKeepDue, PoolKeepsDue, BodiesKeepDue, PageKeepsDue DEF CaptureNext
<1>3. CaptureInv => SeenIsHandled
  BY DEF CaptureInv, DueOf, SeenIsHandled
<1> QED BY <1>1, <1>2, <1>3, PTL DEF CaptureSpec

-----------------------------------------------------------------------------
(* Downloads. *)

DownloaderSpec == DownloaderInit /\ [][DownloaderNext]_xvars

DownloaderTypes ==
  /\ xpc \in {"idle", "submit", "collect", "stop", "ok", "failed", "panic"}
  /\ toSubmit \subseteq Request /\ queueChan \in Seq(Request) /\ resultChan \in Seq(Request)
  /\ wpc \in [Downloader -> {"none", "idle", "work", "send"}]
  /\ has \in [Downloader -> Request \cup {NoRequest}]
  /\ \A w \in Downloader : has[w] # NoRequest <=> wpc[w] \in {"work", "send"}
  /\ xpc \in {"idle", "ok", "failed"} => \A w \in Downloader : wpc[w] = "none"
  /\ answers \subseteq Request /\ completed \in Nat

(* A request is in one place at a time, also while Stop has the workers drop *)
(* theirs.                                                                   *)
InOnePlace ==
  /\ IsInjective(queueChan) /\ IsInjective(resultChan)
  /\ ToSet(queueChan) \cap ToSet(resultChan) = {}
  /\ toSubmit \cap (ToSet(queueChan) \cup ToSet(resultChan) \cup answers) = {}
  /\ answers \cap (ToSet(queueChan) \cup ToSet(resultChan)) = {}
  /\ \A w \in Downloader :
       /\ has[w] \notin toSubmit \cup answers \cup ToSet(queueChan) \cup ToSet(resultChan)
       /\ \A v \in Downloader : has[v] = has[w] /\ has[w] # NoRequest => v = w

(* The first Execute: the channels are open until its Stop.                  *)
FirstExecute ==
  open =>
    /\ InOnePlace /\ completed = Cardinality(answers)
    /\ xpc \in {"idle", "submit", "collect"} => ~stopDone
    /\ xpc \notin {"ok", "failed"}
    /\ xpc = "idle" => /\ queueChan = <<>> /\ resultChan = <<>> /\ answers = {}
                       /\ \A w \in Downloader : has[w] = NoRequest
    /\ xpc = "stop" /\ ~withError => answers = Request

DownloaderInv == DownloaderTypes /\ FirstExecute /\ NoRequestLost

(* A channel takes what it has not. *)
LEMMA ChannelTakes ==
  ASSUME NEW s \in Seq(Request), NEW r \in Request
  PROVE  /\ Append(s, r) \in Seq(Request) /\ ToSet(Append(s, r)) = ToSet(s) \cup {r}
         /\ IsInjective(s) /\ r \notin ToSet(s) => IsInjective(Append(s, r))
<1>1. /\ DOMAIN s = 1..Len(s) /\ Len(s) \in Nat /\ Append(s, r) \in Seq(Request)
      /\ DOMAIN Append(s, r) = 1..(Len(s) + 1)
      /\ Append(s, r)[Len(s) + 1] = r /\ \A i \in 1..Len(s) : Append(s, r)[i] = s[i]
  OBVIOUS
<1>2. ToSet(Append(s, r)) = ToSet(s) \cup {r}
  BY <1>1 DEF ToSet
<1>3. IsInjective(s) /\ r \notin ToSet(s) => IsInjective(Append(s, r))
  BY <1>1 DEF ToSet, IsInjective
<1> QED BY <1>1, <1>2, <1>3

(* A channel gives its first. *)
LEMMA ChannelGives ==
  ASSUME NEW s \in Seq(Request), s # <<>>
  PROVE  /\ Head(s) \in Request /\ Tail(s) \in Seq(Request) /\ ToSet(s) = ToSet(Tail(s)) \cup {Head(s)}
         /\ IsInjective(s) => IsInjective(Tail(s)) /\ Head(s) \notin ToSet(Tail(s))
<1>1. /\ DOMAIN s = 1..Len(s) /\ Len(s) \in Nat \ {0} /\ Tail(s) \in Seq(Request)
      /\ DOMAIN Tail(s) = 1..(Len(s) - 1) /\ \A i \in 1..(Len(s) - 1) : Tail(s)[i] = s[i + 1]
      /\ Head(s) = s[1] /\ s[1] \in Request
  OBVIOUS
<1>2. ASSUME NEW x PROVE x \in ToSet(s) <=> x \in ToSet(Tail(s)) \cup {Head(s)}
  <2>1. ASSUME NEW i \in 1..Len(s), i # 1 PROVE i - 1 \in 1..(Len(s) - 1) /\ Tail(s)[i - 1] = s[i]
    BY <1>1, <2>1
  <2>2. \A i \in 1..(Len(s) - 1) : i + 1 \in 1..Len(s) /\ 1 \in 1..Len(s)
    BY <1>1
  <2>3. x \in ToSet(s) => x \in ToSet(Tail(s)) \cup {Head(s)}
    <3> SUFFICES ASSUME NEW i \in 1..Len(s), x = s[i], i # 1 PROVE x \in ToSet(Tail(s))
      BY <1>1 DEF ToSet
    <3> QED BY <1>1, <2>1 DEF ToSet
  <2>4. x \in ToSet(Tail(s)) \cup {Head(s)} => x \in ToSet(s)
    BY <1>1, <2>2 DEF ToSet
  <2> QED BY <2>3, <2>4
<1>3. IsInjective(s) => IsInjective(Tail(s)) /\ Head(s) \notin ToSet(Tail(s))
  BY <1>1 DEF ToSet, IsInjective
<1> QED BY <1>1, <1>2, <1>3

(* Step by step. *)
LEMMA DownloaderStep == DownloaderInv /\ [DownloaderNext]_xvars => DownloaderInv'
<1> SUFFICES ASSUME DownloaderInv, [DownloaderNext]_xvars PROVE DownloaderInv'
  OBVIOUS
<1>t. DownloaderTypes /\ FirstExecute /\ NoRequestLost
  BY DEF DownloaderInv
<1>s. NoRequest \notin toSubmit \cup answers \cup ToSet(queueChan) \cup ToSet(resultChan)
  BY <1>t, DownloaderAssumption DEF DownloaderTypes, ToSet
<1>1. CASE UNCHANGED xvars
  BY <1>1, <1>t DEF xvars, DownloaderInv, DownloaderTypes, FirstExecute, InOnePlace, NoRequestLost
<1>2. CASE StartWorkers
  <2>1. \A w \in Downloader : has[w] = NoRequest
    BY <1>2, <1>t DEF StartWorkers, ExecuteGoes, DownloaderTypes
  <2>2. DownloaderTypes'
    BY <1>2, <1>t, <2>1 DEF StartWorkers, ExecuteGoes, DownloaderTypes
  <2>3. FirstExecute'
    <3> SUFFICES ASSUME open PROVE FirstExecute'
      BY <1>2 DEF StartWorkers, FirstExecute
    <3>1. /\ xpc = "idle" /\ queueChan = <<>> /\ resultChan = <<>> /\ answers = {} /\ ~stopDone
          /\ IsInjective(<<>>) /\ ToSet(<<>>) = {}
      BY <1>2, <1>t DEF StartWorkers, ExecuteGoes, FirstExecute, IsInjective, ToSet
    <3>2. InOnePlace'
      BY <1>2, <2>1, <3>1, DownloaderAssumption DEF StartWorkers, InOnePlace
    <3> QED BY <1>2, <2>1, <3>1, <3>2, FS_EmptySet DEF StartWorkers, ExecuteGoes, FirstExecute
  <2>4. NoRequestLost'
    BY <1>2 DEF StartWorkers, ExecuteGoes, NoRequestLost
  <2> QED BY <2>2, <2>3, <2>4 DEF DownloaderInv
<1>3. CASE AllSubmitted
  BY <1>3, <1>t DEF AllSubmitted, ExecuteGoes, DownloaderInv, DownloaderTypes, FirstExecute, InOnePlace, NoRequestLost
<1>4. CASE CollectOne
  <2> DEFINE r == Head(resultChan)
  <2>1. /\ r \in Request /\ Tail(resultChan) \in Seq(Request)
        /\ ToSet(resultChan) = ToSet(Tail(resultChan)) \cup {r}
        /\ IsInjective(resultChan) => IsInjective(Tail(resultChan)) /\ r \notin ToSet(Tail(resultChan))
    BY <1>4, <1>t, ChannelGives DEF CollectOne, DownloaderTypes
  <2>2. /\ xpc = "collect" /\ resultChan' = Tail(resultChan) /\ answers' = answers \cup {r}
        /\ completed' = completed + 1
        /\ UNCHANGED <<xpc, toSubmit, queueChan, open, stopDone, wpc, has, withError>>
    BY <1>4 DEF CollectOne
  <2> HIDE DEF r
  <2>3. DownloaderTypes'
    BY <1>t, <2>1, <2>2 DEF DownloaderTypes
  <2>4. ASSUME open PROVE InOnePlace' /\ completed' = Cardinality(answers')
    <3>1. InOnePlace /\ completed = Cardinality(answers)
      BY <1>t, <2>4 DEF FirstExecute
    <3>2. InOnePlace'
      BY <2>1, <2>2, <3>1 DEF InOnePlace
    <3>3. r \notin answers /\ IsFiniteSet(answers)
      BY <1>t, <2>1, <3>1, DownloaderAssumption, FS_Subset DEF InOnePlace, DownloaderTypes
    <3> QED BY <2>2, <3>1, <3>2, <3>3, FS_AddElement
  <2>5. FirstExecute'
    BY <1>t, <2>2, <2>4 DEF FirstExecute
  <2>6. NoRequestLost'
    BY <1>t, <2>1, <2>2 DEF NoRequestLost
  <2> QED BY <2>3, <2>5, <2>6 DEF DownloaderInv
<1>5. CASE Finish
  <2>1. ASSUME open, withError' = FALSE PROVE answers = Request
    <3>1. completed = Cardinality(Request)
      BY <1>5, <2>1 DEF Finish
    <3>2. answers \subseteq Request /\ Cardinality(answers) = Cardinality(Request)
      BY <1>t, <2>1, <3>1 DEF DownloaderTypes, FirstExecute
    <3> QED BY <3>2, DownloaderAssumption, FS_Subset
  <2>2. DownloaderTypes'
    BY <1>5, <1>t DEF Finish, ExecuteGoes, DownloaderTypes
  <2>3. FirstExecute'
    BY <1>5, <1>t, <2>1 DEF Finish, ExecuteGoes, FirstExecute, InOnePlace
  <2>4. NoRequestLost'
    BY <1>5 DEF Finish, ExecuteGoes, NoRequestLost
  <2> QED BY <2>2, <2>3, <2>4 DEF DownloaderInv
<1>6. CASE StopDownloader
  BY <1>6, <1>t DEF StopDownloader, ExecuteGoes, DownloaderInv, DownloaderTypes, FirstExecute, NoRequestLost
<1>7. ASSUME NEW r \in Request, SubmitOne(r) PROVE DownloaderInv'
  <2>1. /\ Append(queueChan, r) \in Seq(Request) /\ ToSet(Append(queueChan, r)) = ToSet(queueChan) \cup {r}
        /\ IsInjective(queueChan) /\ r \notin ToSet(queueChan) => IsInjective(Append(queueChan, r))
    BY <1>t, ChannelTakes DEF DownloaderTypes
  <2>2. /\ xpc = "submit" /\ r \in toSubmit
        /\ UNCHANGED <<resultChan, open, stopDone, wpc, has, answers, completed, withError>>
    BY <1>7 DEF SubmitOne
  <2>3. CASE open /\ queueChan' = Append(queueChan, r) /\ toSubmit' = toSubmit \ {r} /\ xpc' = xpc
    <3>1. DownloaderTypes'
      BY <1>t, <2>1, <2>2, <2>3 DEF DownloaderTypes
    <3>2. InOnePlace'
      BY <1>t, <2>1, <2>2, <2>3, DownloaderAssumption DEF FirstExecute, InOnePlace
    <3>3. FirstExecute'
      BY <1>t, <2>2, <2>3, <3>2 DEF FirstExecute
    <3>4. NoRequestLost'
      BY <1>t, <2>1, <2>2, <2>3 DEF NoRequestLost
    <3> QED BY <3>1, <3>3, <3>4 DEF DownloaderInv
  <2>4. CASE ~open /\ xpc' = "panic" /\ UNCHANGED <<queueChan, toSubmit>>
    BY <1>t, <2>2, <2>4 DEF DownloaderInv, DownloaderTypes, FirstExecute, NoRequestLost
  <2> QED BY <1>7, <2>3, <2>4 DEF SubmitOne
<1>8. ASSUME NEW w \in Downloader, Receive(w) PROVE DownloaderInv'
  <2> DEFINE r == Head(queueChan)
  <2>1. /\ r \in Request /\ Tail(queueChan) \in Seq(Request) /\ r # NoRequest
        /\ ToSet(queueChan) = ToSet(Tail(queueChan)) \cup {r}
        /\ IsInjective(queueChan) => IsInjective(Tail(queueChan)) /\ r \notin ToSet(Tail(queueChan))
    BY <1>8, <1>t, ChannelGives, DownloaderAssumption DEF Receive, DownloaderTypes
  <2>2. /\ wpc[w] = "idle" /\ wpc' = [wpc EXCEPT ![w] = "work"] /\ queueChan' = Tail(queueChan)
        /\ has' = [has EXCEPT ![w] = r]
        /\ UNCHANGED <<xpc, toSubmit, resultChan, open, stopDone, answers, completed, withError>>
    BY <1>8 DEF Receive, WorkerGoes
  <2> HIDE DEF r
  <2>3. has[w] = NoRequest /\ has \in [Downloader -> Request \cup {NoRequest}]
    BY <1>t, <2>2 DEF DownloaderTypes
  <2>4. DownloaderTypes'
    BY <1>t, <2>1, <2>2 DEF DownloaderTypes
  <2>5. InOnePlace => InOnePlace'
    BY <2>1, <2>2, <2>3 DEF InOnePlace
  <2>6. FirstExecute'
    BY <1>t, <2>1, <2>2, <2>3, <2>5, ChannelGives DEF FirstExecute, DownloaderTypes
  <2>7. NoRequestLost'
    BY <1>t, <2>1, <2>2, <2>3, DownloaderAssumption DEF NoRequestLost
  <2> QED BY <2>4, <2>6, <2>7 DEF DownloaderInv
<1>9. ASSUME NEW w \in Downloader, DownloadAsset(w) PROVE DownloaderInv'
  BY <1>9, <1>t DEF DownloadAsset, WorkerGoes, DownloaderInv, DownloaderTypes, FirstExecute, InOnePlace, NoRequestLost
<1>10. ASSUME NEW w \in Downloader, SendResult(w) PROVE DownloaderInv'
  <2> DEFINE r == has[w]
  <2>1. /\ wpc[w] = "send" /\ wpc' = [wpc EXCEPT ![w] = "idle"] /\ resultChan' = Append(resultChan, r)
        /\ has' = [has EXCEPT ![w] = NoRequest]
        /\ UNCHANGED <<xpc, toSubmit, queueChan, open, stopDone, answers, completed, withError>>
    BY <1>10 DEF SendResult, WorkerGoes
  <2>2. r \in Request /\ r # NoRequest /\ has \in [Downloader -> Request \cup {NoRequest}]
    BY <1>t, <2>1 DEF DownloaderTypes
  <2>3. /\ Append(resultChan, r) \in Seq(Request) /\ ToSet(Append(resultChan, r)) = ToSet(resultChan) \cup {r}
        /\ IsInjective(resultChan) /\ r \notin ToSet(resultChan) => IsInjective(Append(resultChan, r))
    BY <1>t, <2>2, ChannelTakes DEF DownloaderTypes
  <2>4. DownloaderTypes'
    BY <1>t, <2>1, <2>3 DEF DownloaderTypes
  <2>5. InOnePlace => InOnePlace'
    BY <1>s, <2>1, <2>2, <2>3 DEF InOnePlace
  <2>6. FirstExecute'
    BY <1>t, <2>1, <2>2, <2>5 DEF FirstExecute
  <2>7. NoRequestLost'
    BY <1>t, <2>1, <2>2, <2>3 DEF NoRequestLost
  <2> QED BY <2>4, <2>6, <2>7 DEF DownloaderInv
<1>11. ASSUME NEW w \in Downloader, WorkerStops(w) PROVE DownloaderInv'
  <2>1. /\ (stopDone \/ ~open) /\ wpc[w] \in {"idle", "send"} /\ wpc' = [wpc EXCEPT ![w] = "none"]
        /\ has' = [has EXCEPT ![w] = NoRequest]
        /\ UNCHANGED <<xpc, toSubmit, queueChan, resultChan, open, stopDone, answers, completed, withError>>
    BY <1>11 DEF WorkerStops, WorkerGoes
  <2>2. DownloaderTypes'
    BY <1>t, <2>1 DEF DownloaderTypes
  <2>3. InOnePlace => InOnePlace'
    <3>1. \A v \in Downloader : has'[v] = IF v = w THEN NoRequest ELSE has[v]
      BY <1>t, <2>1 DEF DownloaderTypes
    <3> QED BY <1>s, <2>1, <3>1 DEF InOnePlace
  <2>4. FirstExecute'
    BY <1>t, <2>1, <2>3 DEF FirstExecute
  <2>5. NoRequestLost'
    BY <1>t, <2>1 DEF NoRequestLost, FirstExecute
  <2> QED BY <2>2, <2>4, <2>5 DEF DownloaderInv
<1> QED BY <1>1, <1>2, <1>3, <1>4, <1>5, <1>6, <1>7, <1>8, <1>9, <1>10, <1>11 DEF DownloaderNext

(* NoRequestLost: the workers' send blocks, so that Execute collects a       *)
(* result for each request, and each once (crawler/asset_downloader.go:      *)
(* Execute, worker).                                                         *)
THEOREM DownloaderLosesNothing == DownloaderSpec => []NoRequestLost
<1>1. DownloaderInit => DownloaderInv
  <2> SUFFICES ASSUME DownloaderInit PROVE DownloaderInv
    OBVIOUS
  <2>1. DownloaderTypes
    BY DEF DownloaderInit, DownloaderTypes
  <2>2. IsInjective(<<>>) /\ ToSet(<<>>) = {}
    BY DEF IsInjective, ToSet
  <2>3. InOnePlace
    BY <2>2 DEF DownloaderInit, InOnePlace
  <2>4. FirstExecute
    BY <2>3, FS_EmptySet DEF DownloaderInit, FirstExecute
  <2> QED BY <2>1, <2>4 DEF DownloaderInit, DownloaderInv, NoRequestLost
<1>2. DownloaderInv => NoRequestLost
  BY DEF DownloaderInv
<1> QED BY <1>1, <1>2, DownloaderStep, PTL DEF DownloaderSpec

-----------------------------------------------------------------------------
(* The bounded structures. *)

RingSpec == RingInit /\ [][RingNext]_ringVars
ListSpec == ListInit /\ [][ListNext]_lruVars

(* A place of the ring. *)
Round(i) == i % RingSize

(* Within two rounds of the ring. *)
LEMMA Rounds ==
  ASSUME NEW i \in Nat, i < 2 * RingSize
  PROVE  Round(i) = IF i < RingSize THEN i ELSE i - RingSize
<1> DEFINE N == RingSize
           r == i % N
           q == i \div N
<1>1. N \in Nat /\ N > 0
  BY StructureAssumption
<1> HIDE DEF N
<1>2. r \in Nat /\ r < N /\ q \in Int /\ i = (N * q) + r
  BY <1>1
<1>3. Round(i) = r /\ i < 2 * N
  BY DEF Round, N
<1> HIDE DEF r, q
<1>4. CASE q = 0
  BY <1>1, <1>2, <1>3, <1>4 DEF N
<1>5. CASE q = 1
  BY <1>1, <1>2, <1>3, <1>5 DEF N
<1>6. CASE q >= 2
  <2>1. N * q >= N * 2
    BY <1>1, <1>2, <1>6
  <2> QED BY <1>1, <1>2, <1>3, <2>1
<1>7. CASE q <= -1
  <2>1. N * q <= N * (-1)
    BY <1>1, <1>2, <1>7
  <2> QED BY <1>1, <1>2, <2>1
<1> QED BY <1>2, <1>4, <1>5, <1>6, <1>7

(* Where the i-th entry that is held is. *)
Held(i) == Round(ringHead + i - 1)

(* What is held are the last pushed, from the head on; the tail comes after  *)
(* them.                                                                     *)
RingInv ==
  /\ DOMAIN ring = 0..RingSize - 1 /\ ringLen \in 0..RingSize
  /\ ringHead \in 0..RingSize - 1 /\ ringTail = Round(ringHead + ringLen)
  /\ lastPushed \in Seq(RingItem) /\ Len(lastPushed) = ringLen
  /\ \A i \in 1..ringLen : ring[Held(i)] = lastPushed[i]

(* The empty ring. *)
LEMMA RingStart == RingInit => RingInv
<1> SUFFICES ASSUME RingInit PROVE RingInv
  OBVIOUS
<1>1. RingSize \in Nat /\ 0 \in 0..RingSize - 1 /\ 0 < 2 * RingSize
  BY StructureAssumption
<1>2. Round(0) = 0
  BY <1>1, Rounds
<1> QED BY <1>1, <1>2 DEF RingInit, RingInv

(* A push writes where the tail is, which in a full ring is the head.        *)
LEMMA PushKeeps ==
  ASSUME RingInv, NEW x \in RingItem, PushFull(x) \/ PushSpace(x)
  PROVE  RingInv'
<1>1. /\ RingSize \in Nat /\ RingSize > 0 /\ ringLen \in Nat /\ ringLen <= RingSize
      /\ ringHead \in Nat /\ ringHead < RingSize
      /\ DOMAIN ring = 0..RingSize - 1 /\ lastPushed \in Seq(RingItem) /\ Len(lastPushed) = ringLen
  BY StructureAssumption DEF RingInv
<1>2. \A i \in Nat : i < 2 * RingSize =>
        Round(i) = IF i < RingSize THEN i ELSE i - RingSize
  BY Rounds
<1>t. ringTail = (IF ringHead + ringLen < RingSize THEN ringHead + ringLen ELSE ringHead + ringLen - RingSize)
  BY <1>1, <1>2 DEF RingInv
<1>h. \A i \in 1..RingSize : Held(i) = IF ringHead + i - 1 < RingSize THEN ringHead + i - 1 ELSE ringHead + i - 1 - RingSize
  <2> SUFFICES ASSUME NEW i \in 1..RingSize
               PROVE  Held(i) = IF ringHead + i - 1 < RingSize THEN ringHead + i - 1 ELSE ringHead + i - 1 - RingSize
    OBVIOUS
  <2> DEFINE a == ringHead + i - 1
  <2>1. a \in Nat /\ a < 2 * RingSize
    BY <1>1
  <2>2. Held(i) = Round(a)
    BY DEF Held
  <2> HIDE DEF a
  <2>3. Held(i) = IF a < RingSize THEN a ELSE a - RingSize
    BY <1>2, <2>1, <2>2
  <2> QED BY <1>1, <2>3 DEF a
<1>3. CASE PushSpace(x)
  <2>1. /\ ring' = [ring EXCEPT ![ringTail] = x] /\ ringHead' = ringHead /\ ringLen' = ringLen + 1
        /\ ringLen < RingSize /\ lastPushed' = lastPushed \o <<x>>
        /\ ringTail' = Round(ringTail + 1)
    BY <1>3 DEF PushSpace, Advance, Round
  <2>2. /\ lastPushed' \in Seq(RingItem) /\ Len(lastPushed') = ringLen + 1 /\ lastPushed'[ringLen + 1] = x
        /\ \A i \in 1..ringLen : lastPushed'[i] = lastPushed[i]
    BY <1>1, <2>1, AppendProperties, AppendIsConcat
  <2>3. ringTail' = Round(ringHead' + ringLen')
    <3> DEFINE a == ringTail + 1
               b == ringHead + (ringLen + 1)
    <3>1. a \in Nat /\ a < 2 * RingSize /\ b \in Nat /\ b < 2 * RingSize
      BY <1>1, <1>t, <2>1
    <3>2. ringTail' = Round(a) /\ Round(ringHead' + ringLen') = Round(b)
      BY <2>1
    <3> HIDE DEF a, b
    <3>3. /\ Round(a) = IF a < RingSize THEN a ELSE a - RingSize
          /\ Round(b) = IF b < RingSize THEN b ELSE b - RingSize
      BY <1>2, <3>1
    <3> QED BY <1>1, <1>t, <2>1, <3>2, <3>3 DEF a, b
  <2>4. ASSUME NEW i \in 1..ringLen + 1 PROVE ring'[Held(i)'] = lastPushed'[i]
    <3>0. i \in 1..RingSize /\ Held(i)' = Held(i)
      BY <1>1, <2>1 DEF Held
    <3>1. CASE i = ringLen + 1
      <4>1. Held(i) = ringTail /\ ringTail \in DOMAIN ring
        BY <1>1, <1>t, <1>h, <2>1, <3>0, <3>1
      <4> QED BY <2>1, <2>2, <3>0, <3>1, <4>1
    <3>2. CASE i \in 1..ringLen
      <4>1. Held(i) # ringTail
        BY <1>1, <1>t, <1>h, <2>1, <3>0, <3>2
      <4> QED BY <1>1, <2>1, <2>2, <3>0, <3>2, <4>1 DEF RingInv
    <3> QED BY <1>1, <3>1, <3>2
  <2> QED BY <1>1, <2>1, <2>2, <2>3, <2>4 DEF RingInv
<1>4. CASE PushFull(x)
  <2>1. /\ ring' = [ring EXCEPT ![ringHead] = x] /\ ringHead' = Round(ringHead + 1) /\ ringLen' = ringLen
        /\ ringLen = RingSize /\ lastPushed' = Tail(lastPushed) \o <<x>>
        /\ ringTail' = Round(ringTail + 1)
    BY <1>4 DEF PushFull, Advance, Round
  <2>2. /\ lastPushed' \in Seq(RingItem) /\ Len(lastPushed') = ringLen /\ lastPushed'[ringLen] = x
        /\ \A i \in 1..ringLen - 1 : lastPushed'[i] = lastPushed[i + 1]
    <3>1. /\ Tail(lastPushed) \in Seq(RingItem) /\ Len(Tail(lastPushed)) = ringLen - 1
          /\ \A i \in 1..ringLen - 1 : Tail(lastPushed)[i] = lastPushed[i + 1]
      BY <1>1, <2>1
    <3> QED BY <1>1, <2>1, <3>1
  <2>3. ringHead' = (IF ringHead + 1 < RingSize THEN ringHead + 1 ELSE ringHead + 1 - RingSize)
    BY <1>1, <1>2, <2>1
  <2>4. ringTail = ringHead
    BY <1>1, <1>t, <2>1
  <2>5. ringHead' \in 0..RingSize - 1 /\ ringTail' = ringHead' /\ ringHead' = Round(ringHead' + ringLen')
    <3>1. ringHead' \in Nat /\ ringHead' < RingSize
      BY <1>1, <2>3
    <3> DEFINE a == ringHead' + ringLen'
    <3>2. a \in Nat /\ a < 2 * RingSize
      BY <1>1, <2>1, <3>1
    <3> HIDE DEF a
    <3>3. Round(a) = IF a < RingSize THEN a ELSE a - RingSize
      BY <1>2, <3>2
    <3> QED BY <1>1, <2>1, <2>4, <3>1, <3>3 DEF a
  <2>6. ASSUME NEW i \in 1..ringLen PROVE ring'[Held(i)'] = lastPushed'[i]
    <3>1. Held(i)' = IF ringHead' + i - 1 < RingSize THEN ringHead' + i - 1 ELSE ringHead' + i - 1 - RingSize
      <4> DEFINE a == ringHead' + i - 1
      <4>1. a \in Nat /\ a < 2 * RingSize
        BY <1>1, <2>1, <2>5
      <4>2. Held(i)' = Round(a)
        BY DEF Held, Round
      <4> HIDE DEF a
      <4>3. Held(i)' = IF a < RingSize THEN a ELSE a - RingSize
        BY <1>2, <4>1, <4>2
      <4> QED BY <1>1, <2>1, <2>5, <4>3 DEF a
    <3>2. CASE i = ringLen
      <4>1. Held(i)' = ringHead /\ ringHead \in DOMAIN ring
        BY <1>1, <2>1, <2>3, <3>1, <3>2
      <4> QED BY <2>1, <2>2, <3>2, <4>1
    <3>3. CASE i \in 1..ringLen - 1
      <4>1. i + 1 \in 1..ringLen /\ i + 1 \in 1..RingSize
        BY <1>1, <2>1, <3>3
      <4>2. Held(i)' = Held(i + 1) /\ Held(i + 1) # ringHead /\ Held(i + 1) \in DOMAIN ring
        BY <1>1, <1>h, <2>1, <2>3, <3>1, <3>3, <4>1
      <4>3. ring[Held(i + 1)] = lastPushed[i + 1]
        BY <4>1 DEF RingInv
      <4> QED BY <2>1, <2>2, <3>3, <4>2, <4>3
    <3> QED BY <1>1, <3>2, <3>3
  <2> QED BY <1>1, <2>1, <2>2, <2>5, <2>6 DEF RingInv
<1> QED BY <1>3, <1>4

(* RingInv is inductive. *)
LEMMA RingStep == RingInv /\ [RingNext]_ringVars => RingInv'
<1> SUFFICES ASSUME RingInv, [RingNext]_ringVars PROVE RingInv'
  OBVIOUS
<1>1. CASE ClearRing
  <2>1. RingSize \in Nat /\ 0 \in 0..RingSize - 1 /\ 0 < 2 * RingSize
    BY StructureAssumption
  <2>2. Round(0) = 0
    BY <2>1, Rounds
  <2> QED BY <1>1, <2>1, <2>2 DEF RingInv, ClearRing
<1>2. CASE UNCHANGED ringVars
  BY <1>2 DEF RingInv, Held, ringVars
<1> QED BY <1>1, <1>2, PushKeeps DEF RingNext

(* What GetAll returns. *)
LEMMA RingHolds == RingInv => GetAll = lastPushed
<1> SUFFICES ASSUME RingInv PROVE GetAll = lastPushed
  OBVIOUS
<1>1. lastPushed = [i \in 1..ringLen |-> lastPushed[i]]
  BY DEF RingInv
<1>2. GetAll = [i \in 1..ringLen |-> ring[Held(i)]]
  BY DEF GetAll, Held, Round
<1> QED BY <1>1, <1>2 DEF RingInv

-----------------------------------------------------------------------------
(* An element less. *)
LEMMA RemoveAtIs ==
  ASSUME NEW S, NEW s \in Seq(S), NEW i \in 1..Len(s)
  PROVE  /\ RemoveAt(s, i) \in Seq(S) /\ Len(RemoveAt(s, i)) = Len(s) - 1
         /\ \A k \in 1..Len(s) - 1 : RemoveAt(s, i)[k] = IF k < i THEN s[k] ELSE s[k + 1]
<1> DEFINE l == SubSeq(s, 1, i - 1)
           r == SubSeq(s, i + 1, Len(s))
<1>0. Len(s) \in Nat /\ i \in Nat /\ 1 <= i /\ i <= Len(s)
  OBVIOUS
<1>1. l \in Seq(S) /\ Len(l) = i - 1 /\ \A k \in 1..i - 1 : l[k] = s[k]
  BY <1>0
<1>2. r \in Seq(S) /\ Len(r) = Len(s) - i /\ \A k \in 1..Len(s) - i : r[k] = s[k + i]
  BY <1>0
<1>3. RemoveAt(s, i) = l \o r
  BY DEF RemoveAt
<1> HIDE DEF l, r
<1>4. RemoveAt(s, i) \in Seq(S) /\ Len(RemoveAt(s, i)) = Len(s) - 1
  <2>1. l \o r \in Seq(S) /\ Len(l \o r) = Len(l) + Len(r)
    BY <1>1, <1>2, ConcatProperties
  <2> QED BY <1>0, <1>1, <1>2, <1>3, <2>1
<1>5. ASSUME NEW k \in 1..Len(s) - 1 PROVE RemoveAt(s, i)[k] = IF k < i THEN s[k] ELSE s[k + 1]
  <2>1. CASE k < i
    BY <1>0, <1>1, <1>2, <1>3, <2>1
  <2>2. CASE k >= i
    <3>1. (l \o r)[k] = r[k - (i - 1)] /\ k - (i - 1) \in 1..Len(s) - i
      BY <1>0, <1>1, <1>2, <2>2
    <3> QED BY <1>0, <1>2, <1>3, <2>2, <3>1
  <2> QED BY <1>0, <2>1, <2>2
<1> QED BY <1>4, <1>5

(* The keys that are left. *)
LEMMA RemovedIsGone ==
  ASSUME NEW S, NEW s \in Seq(S), NEW i \in 1..Len(s)
  PROVE  ToSet(RemoveAt(s, i)) \subseteq ToSet(s) /\ ToSet(s) \subseteq ToSet(RemoveAt(s, i)) \cup {s[i]}
<1> DEFINE r == RemoveAt(s, i)
<1>1. /\ r \in Seq(S) /\ Len(r) = Len(s) - 1 /\ Len(s) \in Nat
      /\ \A k \in 1..Len(s) - 1 : r[k] = IF k < i THEN s[k] ELSE s[k + 1]
  BY RemoveAtIs
<1> HIDE DEF r
<1>2. ASSUME NEW k \in 1..Len(r) PROVE r[k] \in ToSet(s)
  <2>1. k \in DOMAIN s /\ k + 1 \in DOMAIN s
    BY <1>1
  <2> QED BY <1>1, <2>1 DEF ToSet
<1>3. ASSUME NEW k \in 1..Len(s), k # i PROVE s[k] \in ToSet(r)
  <2>1. CASE k < i
    <3>1. k \in DOMAIN r /\ r[k] = s[k]
      BY <1>1, <2>1
    <3> QED BY <3>1 DEF ToSet
  <2>2. CASE k > i
    <3>1. k - 1 \in DOMAIN r /\ ~(k - 1 < i) /\ (k - 1) + 1 = k
      BY <1>1, <2>2
    <3>2. r[k - 1] = s[k]
      BY <1>1, <3>1
    <3> QED BY <3>1, <3>2 DEF ToSet
  <2> QED BY <1>1, <1>3, <2>1, <2>2
<1>4. ToSet(r) = {r[k] : k \in 1..Len(r)} /\ ToSet(s) = {s[k] : k \in 1..Len(s)}
  <2>1. DOMAIN r = 1..Len(r) /\ DOMAIN s = 1..Len(s)
    BY <1>1
  <2> QED BY <2>1 DEF ToSet
<1>5. ToSet(r) \subseteq ToSet(s) /\ ToSet(s) \subseteq ToSet(r) \cup {s[i]}
  BY <1>2, <1>3, <1>4
<1> QED BY <1>5 DEF r

(* An element more, in front. *)
LEMMA PutInFront ==
  ASSUME NEW S, NEW s \in Seq(S), NEW e \in S
  PROVE  /\ <<e>> \o s \in Seq(S) /\ Len(<<e>> \o s) = Len(s) + 1 /\ (<<e>> \o s)[1] = e
         /\ \A i \in 1..Len(s) : (<<e>> \o s)[i + 1] = s[i]
         /\ ToSet(<<e>> \o s) = ToSet(s) \cup {e}
<1> DEFINE t == <<e>> \o s
<1>1. /\ t \in Seq(S) /\ Len(t) = Len(s) + 1 /\ t[1] = e /\ Len(s) \in Nat
      /\ \A i \in 1..Len(s) : t[i + 1] = s[i]
  OBVIOUS
<1> HIDE DEF t
<1>2. DOMAIN t = 1..Len(t) /\ DOMAIN s = 1..Len(s)
  BY <1>1
<1>3. ASSUME NEW i \in DOMAIN t PROVE t[i] \in ToSet(s) \cup {e}
  <2>1. i = 1 \/ (i - 1 \in DOMAIN s /\ t[i] = s[i - 1])
    BY <1>1, <1>2
  <2> QED BY <1>1, <2>1 DEF ToSet
<1>4. ASSUME NEW i \in DOMAIN s PROVE s[i] \in ToSet(t)
  <2>1. i + 1 \in DOMAIN t
    BY <1>1, <1>2
  <2> QED BY <1>1, <1>2, <2>1 DEF ToSet
<1>5. e \in ToSet(t)
  <2>1. 1 \in DOMAIN t
    BY <1>1, <1>2
  <2> QED BY <1>1, <2>1 DEF ToSet
<1>6. ToSet(t) = ToSet(s) \cup {e}
  BY <1>3, <1>4, <1>5 DEF ToSet
<1> QED BY <1>1, <1>6 DEF t

-----------------------------------------------------------------------------
(* A list of keys none of which comes twice, and pointers that link them.    *)
Distinct(o) == \A i, j \in 1..Len(o) : o[i] = o[j] => i = j

ListOK(l, o) ==
  /\ o \in Seq(LruKey) /\ Distinct(o) /\ l \in [next : [Node -> Node], prev : [Node -> Node]]
  /\ Linked(l, o)

(* The cells of a list are nodes, no two the same. *)
LEMMA CellsDiffer ==
  ASSUME NEW o \in Seq(LruKey), Distinct(o)
  PROVE  /\ \A i \in 0..Len(o) + 1 : Cell(o, i) \in Node
         /\ \A i, j \in 0..Len(o) + 1 : Cell(o, i) = Cell(o, j) => i = j
<1>1. Len(o) \in Nat /\ \A i \in 1..Len(o) : o[i] \in LruKey
  OBVIOUS
<1>2. ASSUME NEW i \in 0..Len(o) + 1
      PROVE  /\ i = 0 => Cell(o, i) = LruHead
             /\ i = Len(o) + 1 => Cell(o, i) = LruTail
             /\ i \in 1..Len(o) => Cell(o, i) = o[i]
             /\ i = 0 \/ i = Len(o) + 1 \/ i \in 1..Len(o)
  BY <1>1 DEF Cell
<1>3. ASSUME NEW i \in 0..Len(o) + 1 PROVE Cell(o, i) \in Node
  BY <1>1, <1>2 DEF Node
<1>4. ASSUME NEW i \in 0..Len(o) + 1, NEW j \in 0..Len(o) + 1, Cell(o, i) = Cell(o, j) PROVE i = j
  BY <1>1, <1>2, <1>4, StructureAssumption DEF Distinct
<1> QED BY <1>3, <1>4

(* A node put behind the head sentinel. *)
LEMMA AddLinks ==
  ASSUME NEW l, NEW o, ListOK(l, o), NEW k \in LruKey \ ToSet(o)
  PROVE  ListOK(AddToHead(l, k), <<k>> \o o)
<1> DEFINE p == <<k>> \o o
           n == Len(o)
           m == AddToHead(l, k)
<1>1. /\ o \in Seq(LruKey) /\ n \in Nat /\ Distinct(o) /\ Linked(l, o)
      /\ l \in [next : [Node -> Node], prev : [Node -> Node]]
  BY DEF ListOK
<1>2. p \in Seq(LruKey) /\ Len(p) = n + 1 /\ p[1] = k /\ \A i \in 1..n : p[i + 1] = o[i]
  BY <1>1, PutInFront
<1> HIDE DEF p
<1>3. \A i \in 1..n : o[i] # k
  BY <1>1 DEF ToSet
<1>4. Distinct(p)
  <2>1. ASSUME NEW i \in 1..Len(p) PROVE i = 1 \/ (i - 1 \in 1..n /\ p[i] = o[i - 1])
    BY <1>1, <1>2
  <2>2. ASSUME NEW i \in 1..Len(p), NEW j \in 1..Len(p), p[i] = p[j] PROVE i = j
    <3>1. CASE i = 1 \/ j = 1
      <4>1. \A x \in 1..Len(p) : x # 1 => p[x] # k
        BY <1>3, <2>1
      <4> QED BY <1>2, <2>2, <3>1, <4>1
    <3>2. CASE i # 1 /\ j # 1
      <4>1. i - 1 \in 1..n /\ j - 1 \in 1..n /\ o[i - 1] = o[j - 1]
        BY <2>1, <2>2, <3>2
      <4>2. i - 1 = j - 1
        BY <1>1, <4>1 DEF Distinct
      <4> QED BY <1>1, <1>2, <4>2
    <3> QED BY <3>1, <3>2
  <2> QED BY <2>2 DEF Distinct
<1>5. Cell(p, 0) = LruHead /\ Cell(p, 1) = k
  BY <1>1, <1>2 DEF Cell
<1>6. ASSUME NEW i \in 1..n + 1 PROVE Cell(p, i + 1) = Cell(o, i)
  BY <1>1, <1>2 DEF Cell
<1>7. /\ \A i \in 0..n + 1 : Cell(o, i) \in Node
      /\ \A i, j \in 0..n + 1 : Cell(o, i) = Cell(o, j) => i = j
  BY <1>1, CellsDiffer
<1>8. ASSUME NEW i \in 0..n + 1 PROVE Cell(o, i) # k
  BY <1>1, <1>3, StructureAssumption DEF Cell
<1>9. l.next[LruHead] = Cell(o, 1) /\ Cell(o, 0) = LruHead
  <2>1. Cell(o, 0) = LruHead
    BY DEF Cell
  <2>2. l.next[Cell(o, 0)] = Cell(o, 0 + 1)
    BY <1>1 DEF Linked
  <2> QED BY <2>1, <2>2
<1>10. /\ m.next = [l.next EXCEPT ![k] = Cell(o, 1), ![LruHead] = k]
       /\ m.prev = [l.prev EXCEPT ![k] = LruHead, ![Cell(o, 1)] = k]
  BY <1>9 DEF AddToHead
<1>11. k \in Node /\ LruHead \in Node /\ k # LruHead /\ Cell(o, 1) \in Node
  BY <1>1, <1>7, StructureAssumption DEF Node
<1>12. m \in [next : [Node -> Node], prev : [Node -> Node]]
  BY <1>1, <1>9, <1>11 DEF AddToHead
<1> HIDE DEF m
<1>13. ASSUME NEW i \in 0..Len(p) PROVE m.next[Cell(p, i)] = Cell(p, i + 1) /\ m.prev[Cell(p, i + 1)] = Cell(p, i)
  <2>1. CASE i = 0
    <3>1. Cell(o, 1) # k
      BY <1>1, <1>8
    <3> QED BY <1>1, <1>5, <1>10, <1>11, <2>1, <3>1
  <2>2. CASE i = 1
    <3>1. Cell(p, 2) = Cell(o, 1)
      <4>1. Cell(p, 1 + 1) = Cell(o, 1)
        BY <1>1, <1>6
      <4> QED BY <4>1
    <3> QED BY <1>1, <1>5, <1>10, <1>11, <2>2, <3>1
  <2>3. CASE i \in 2..n + 1
    <3> DEFINE j == i - 1
    <3>1. j \in 1..n /\ j + 1 \in 1..n + 1 /\ i = j + 1 /\ 1 \in 0..n + 1
      BY <1>1, <2>3
    <3> HIDE DEF j
    <3>2. Cell(p, i) = Cell(o, j) /\ Cell(p, i + 1) = Cell(o, j + 1)
      BY <1>1, <1>6, <3>1
    <3>3. /\ l.next[Cell(o, j)] = Cell(o, j + 1) /\ l.prev[Cell(o, j + 1)] = Cell(o, j)
          /\ Cell(o, j) \in Node /\ Cell(o, j + 1) \in Node
      BY <1>1, <1>7, <3>1 DEF Linked
    <3>4. Cell(o, j) \notin {k, LruHead} /\ Cell(o, j + 1) \notin {k, Cell(o, 1)}
      BY <1>1, <1>7, <1>8, <1>9, <3>1
    <3> QED BY <1>1, <1>10, <3>2, <3>3, <3>4
  <2> QED BY <1>1, <1>2, <2>1, <2>2, <2>3
<1>14. Linked(m, p)
  BY <1>13 DEF Linked
<1> QED BY <1>2, <1>4, <1>12, <1>14 DEF ListOK, m, p

(* A node taken out, wherever it is. *)
LEMMA RemoveLinks ==
  ASSUME NEW l, NEW o, ListOK(l, o), NEW i \in 1..Len(o)
  PROVE  /\ ListOK(RemoveNode(l, o[i]), RemoveAt(o, i)) /\ Len(RemoveAt(o, i)) = Len(o) - 1
         /\ ToSet(RemoveAt(o, i)) = ToSet(o) \ {o[i]}
<1> DEFINE q == RemoveAt(o, i)
           n == Len(o)
           m == RemoveNode(l, o[i])
<1>1. /\ o \in Seq(LruKey) /\ n \in Nat /\ Distinct(o) /\ Linked(l, o) /\ i \in 1..n
      /\ l \in [next : [Node -> Node], prev : [Node -> Node]]
  BY DEF ListOK
<1>2. /\ q \in Seq(LruKey) /\ Len(q) = n - 1
      /\ \A k \in 1..n - 1 : q[k] = IF k < i THEN o[k] ELSE o[k + 1]
      /\ ToSet(q) \subseteq ToSet(o) /\ ToSet(o) \subseteq ToSet(q) \cup {o[i]}
  BY <1>1, RemoveAtIs, RemovedIsGone
<1> HIDE DEF q
<1>3. Distinct(q)
  <2>1. SUFFICES ASSUME NEW j \in 1..Len(q), NEW k \in 1..Len(q), q[j] = q[k] PROVE j = k
    BY DEF Distinct
  <2>2. j \in 1..n /\ k \in 1..n /\ j + 1 \in 1..n /\ k + 1 \in 1..n
    BY <1>1, <1>2
  <2> QED BY <1>1, <1>2, <2>1, <2>2 DEF Distinct
<1>4. o[i] \notin ToSet(q)
  <2>1. SUFFICES ASSUME NEW k \in 1..Len(q), q[k] = o[i] PROVE FALSE
    BY <1>2 DEF ToSet
  <2>2. k \in 1..n /\ k + 1 \in 1..n
    BY <1>1, <1>2
  <2> QED BY <1>1, <1>2, <2>1, <2>2 DEF Distinct
<1>5. ASSUME NEW j \in 0..n PROVE Cell(q, j) = IF j < i THEN Cell(o, j) ELSE Cell(o, j + 1)
  BY <1>1, <1>2 DEF Cell
<1>6. /\ \A j \in 0..n + 1 : Cell(o, j) \in Node
      /\ \A j, k \in 0..n + 1 : Cell(o, j) = Cell(o, k) => j = k
  BY <1>1, CellsDiffer
<1>7. Cell(o, i) = o[i] /\ l.next[o[i]] = Cell(o, i + 1) /\ l.prev[o[i]] = Cell(o, i - 1)
  <2>1. Cell(o, i) = o[i]
    BY <1>1 DEF Cell
  <2>2. l.next[Cell(o, i)] = Cell(o, i + 1)
    BY <1>1 DEF Linked
  <2>3. i - 1 \in 0..n /\ (i - 1) + 1 = i
    BY <1>1
  <2>4. l.prev[Cell(o, (i - 1) + 1)] = Cell(o, i - 1)
    BY <1>1, <2>3 DEF Linked
  <2> QED BY <2>1, <2>2, <2>3, <2>4
<1>8. /\ m.next = [l.next EXCEPT ![Cell(o, i - 1)] = Cell(o, i + 1)]
      /\ m.prev = [l.prev EXCEPT ![Cell(o, i + 1)] = Cell(o, i - 1)]
  BY <1>1, <1>7 DEF RemoveNode
<1>9. i - 1 \in 0..n + 1 /\ i + 1 \in 0..n + 1
  BY <1>1
<1>10. m \in [next : [Node -> Node], prev : [Node -> Node]]
  <2> DEFINE a == Cell(o, i - 1)
             b == Cell(o, i + 1)
  <2>1. m = [l EXCEPT !.next[a] = b, !.prev[b] = a]
    BY <1>7 DEF RemoveNode
  <2>2. a \in Node /\ b \in Node
    BY <1>6, <1>9
  <2> HIDE DEF m, a, b
  <2> QED BY <1>1, <2>1, <2>2
<1> HIDE DEF m
<1>11. ASSUME NEW j \in 0..Len(q) PROVE m.next[Cell(q, j)] = Cell(q, j + 1) /\ m.prev[Cell(q, j + 1)] = Cell(q, j)
  <2>0. j \in 0..n /\ j + 1 \in 0..n /\ j \in 0..n + 1 /\ j + 1 \in 0..n + 1 /\ (j + 1) + 1 \in 0..n + 1
    BY <1>1, <1>2
  <2>1. /\ l.next[Cell(o, j)] = Cell(o, j + 1) /\ l.prev[Cell(o, j + 1)] = Cell(o, j)
        /\ l.next[Cell(o, j + 1)] = Cell(o, (j + 1) + 1) /\ l.prev[Cell(o, (j + 1) + 1)] = Cell(o, j + 1)
    BY <1>1, <2>0 DEF Linked
  <2>2. CASE j + 1 < i
    <3>1. Cell(q, j) = Cell(o, j) /\ Cell(q, j + 1) = Cell(o, j + 1)
      BY <1>1, <1>5, <2>0, <2>2
    <3>2. Cell(o, j) # Cell(o, i - 1) /\ Cell(o, j + 1) # Cell(o, i + 1)
      BY <1>1, <1>6, <1>9, <2>0, <2>2
    <3> QED BY <1>1, <1>6, <1>8, <2>0, <2>1, <3>1, <3>2
  <2>3. CASE j + 1 = i
    <3>1. Cell(q, j) = Cell(o, i - 1) /\ Cell(q, j + 1) = Cell(o, i + 1)
      BY <1>1, <1>5, <2>0, <2>3
    <3> QED BY <1>1, <1>6, <1>8, <1>9, <3>1
  <2>4. CASE j + 1 > i
    <3>1. Cell(q, j) = Cell(o, j + 1) /\ Cell(q, j + 1) = Cell(o, (j + 1) + 1)
      BY <1>1, <1>5, <2>0, <2>4
    <3>2. Cell(o, j + 1) # Cell(o, i - 1) /\ Cell(o, (j + 1) + 1) # Cell(o, i + 1)
      BY <1>1, <1>6, <1>9, <2>0, <2>4
    <3> QED BY <1>1, <1>6, <1>8, <2>0, <2>1, <3>1, <3>2
  <2> QED BY <1>1, <2>0, <2>2, <2>3, <2>4
<1>12. Linked(m, q)
  BY <1>11 DEF Linked
<1>13. ToSet(q) = ToSet(o) \ {o[i]}
  BY <1>2, <1>4
<1> QED BY <1>2, <1>3, <1>10, <1>12, <1>13 DEF ListOK, m, q

(* As many keys as places. *)
LEMMA ManyKeys ==
  ASSUME NEW o \in Seq(LruKey), Distinct(o)
  PROVE  Cardinality(ToSet(o)) = Len(o)
<1> DEFINE f == [i \in 1..Len(o) |-> o[i]]
<1>1. Len(o) \in Nat
  OBVIOUS
<1>2. f \in Bijection(1..Len(o), ToSet(o))
  BY DEF Bijection, Injection, Surjection, IsInjective, Distinct, ToSet
<1>3. IsFiniteSet(1..Len(o)) /\ Cardinality(1..Len(o)) = Len(o)
  <2>1. 1 \in Int /\ Len(o) \in Int
    BY <1>1
  <2>2. Cardinality(1..Len(o)) = IF 1 > Len(o) THEN 0 ELSE Len(o) - 1 + 1
    BY <2>1, FS_Interval
  <2> QED BY <1>1, <2>1, <2>2, FS_Interval
<1>4. ExistsBijection(1..Len(o), ToSet(o))
  BY <1>2 DEF ExistsBijection
<1> QED BY <1>3, <1>4, FS_Bijection

(* The list links the keys of the map, within the capacity. *)
ListInv == ListOK(list, order) /\ lruItems = ToSet(order) /\ Len(order) <= LruSize

(* The key used goes to the front. *)
LEMMA UseKeeps == ASSUME ListInv, NEW k \in LruKey, Use(k) PROVE ListInv'
<1> DEFINE i == PlaceOf(k)
           r == RemoveAt(order, i)
<1>1. order \in Seq(LruKey) /\ Len(order) \in Nat /\ Len(order) <= LruSize /\ ListOK(list, order)
      /\ lruItems = ToSet(order) /\ LruSize \in Nat
  BY StructureAssumption DEF ListInv, ListOK
<1>2. i \in 1..Len(order) /\ order[i] = k
  <2>1. \E j \in DOMAIN order : order[j] = k
    BY <1>1 DEF Use, ToSet
  <2>2. i \in DOMAIN order /\ order[i] = k
    BY <2>1 DEF PlaceOf
  <2> QED BY <1>1, <2>2
<1> HIDE DEF i
<1>3. ListOK(RemoveNode(list, k), r) /\ Len(r) = Len(order) - 1 /\ ToSet(r) = ToSet(order) \ {k}
  BY <1>1, <1>2, RemoveLinks
<1>4. list' = AddToHead(RemoveNode(list, k), k) /\ order' = <<k>> \o r /\ lruItems' = lruItems
  BY DEF Use, MoveToHead, i
<1> HIDE DEF r
<1>5. ListOK(list', order')
  BY <1>3, <1>4, AddLinks
<1>6. Len(order') = Len(order) /\ ToSet(order') = ToSet(order)
  <2>1. r \in Seq(LruKey)
    BY <1>3 DEF ListOK
  <2>2. Len(order') = Len(r) + 1 /\ ToSet(order') = ToSet(r) \cup {k}
    BY <1>4, <2>1, PutInFront
  <2>3. k \in ToSet(order)
    BY <1>1 DEF Use
  <2> QED BY <1>1, <1>3, <2>2, <2>3
<1> QED BY <1>1, <1>4, <1>5, <1>6 DEF ListInv

(* A new one, too; the node before the tail is the last of the keys.         *)
LEMMA AddKeeps == ASSUME ListInv, NEW k \in LruKey, AddNew(k) PROVE ListInv'
<1> DEFINE p == <<k>> \o order
           n == Len(order)
           added == AddToHead(list, k)
           last == added.prev[LruTail]
<1>1. order \in Seq(LruKey) /\ n \in Nat /\ n <= LruSize /\ ListOK(list, order)
      /\ lruItems = ToSet(order) /\ LruSize \in Nat /\ Distinct(order)
  BY StructureAssumption DEF ListInv, ListOK
<1>2. k \notin ToSet(order)
  BY <1>1 DEF AddNew
<1>3. ListOK(added, p)
  BY <1>1, <1>2, AddLinks
<1>4. p \in Seq(LruKey) /\ Len(p) = n + 1 /\ ToSet(p) = ToSet(order) \cup {k}
  BY <1>1, PutInFront
<1>5. Cardinality(lruItems) = n
  BY <1>1, ManyKeys
<1> HIDE DEF p, added
<1>6. last = p[n + 1]
  <2>1. added.prev[Cell(p, (n + 1) + 1)] = Cell(p, n + 1)
    <3>1. n + 1 \in 0..Len(p)
      BY <1>1, <1>4
    <3> QED BY <1>3, <3>1 DEF ListOK, Linked
  <2>2. Cell(p, (n + 1) + 1) = LruTail /\ Cell(p, n + 1) = p[n + 1]
    BY <1>1, <1>4 DEF Cell
  <2> QED BY <2>1, <2>2
<1>7. CASE n + 1 > LruSize
  <2>1. /\ list' = RemoveNode(added, last) /\ lruItems' = (lruItems \cup {k}) \ {last}
        /\ order' = RemoveAt(p, n + 1)
    BY <1>5, <1>7 DEF AddNew, added, p
  <2>2. n + 1 \in 1..Len(p)
    BY <1>1, <1>4
  <2>3. /\ ListOK(RemoveNode(added, p[n + 1]), RemoveAt(p, n + 1)) /\ Len(RemoveAt(p, n + 1)) = Len(p) - 1
        /\ ToSet(RemoveAt(p, n + 1)) = ToSet(p) \ {p[n + 1]}
    BY <1>3, <2>2, RemoveLinks
  <2> HIDE DEF last
  <2> QED BY <1>1, <1>4, <1>6, <2>1, <2>3 DEF ListInv
<1>8. CASE ~(n + 1 > LruSize)
  <2>1. list' = added /\ lruItems' = lruItems \cup {k} /\ order' = p
    BY <1>5, <1>8 DEF AddNew, added, p
  <2> QED BY <1>1, <1>3, <1>4, <1>8, <2>1 DEF ListInv
<1> QED BY <1>7, <1>8

(* The list without keys. *)
LEMMA EmptyIsOK ==
  ASSUME NEW l \in [next : [Node -> Node], prev : [Node -> Node]], l.next[LruHead] = LruTail, l.prev[LruTail] = LruHead
  PROVE  ListOK(l, <<>>) /\ ToSet(<<>>) = {} /\ Len(<<>>) = 0
<1>1. <<>> \in Seq(LruKey) /\ Len(<<>>) = 0 /\ DOMAIN <<>> = {}
  OBVIOUS
<1>2. ToSet(<<>>) = {}
  BY <1>1 DEF ToSet
<1>3. Distinct(<<>>)
  BY <1>1 DEF Distinct
<1>4. Linked(l, <<>>)
  <2>1. Cell(<<>>, 0) = LruHead /\ Cell(<<>>, 0 + 1) = LruTail /\ 0..Len(<<>>) = {0}
    BY <1>1 DEF Cell
  <2> QED BY <2>1 DEF Linked
<1> QED BY <1>1, <1>2, <1>3, <1>4 DEF ListOK

(* ListInv is inductive. *)
LEMMA ListStep == ListInv /\ [ListNext]_lruVars => ListInv'
<1> SUFFICES ASSUME ListInv, [ListNext]_lruVars PROVE ListInv'
  OBVIOUS
<1>1. CASE ClearList
  <2>1. list \in [next : [Node -> Node], prev : [Node -> Node]] /\ {LruHead, LruTail} \subseteq Node
    BY DEF ListInv, ListOK, Node
  <2>2. /\ list' \in [next : [Node -> Node], prev : [Node -> Node]]
        /\ list'.next[LruHead] = LruTail /\ list'.prev[LruTail] = LruHead
    BY <1>1, <2>1 DEF ClearList
  <2>3. ListOK(list', <<>>) /\ ToSet(<<>>) = {} /\ Len(<<>>) = 0
    BY <2>2, EmptyIsOK
  <2> QED BY <1>1, <2>3, StructureAssumption DEF ClearList, ListInv
<1>2. CASE UNCHANGED lruVars
  BY <1>2 DEF ListInv, lruVars
<1> QED BY <1>1, <1>2, UseKeeps, AddKeeps DEF ListNext

(* StructuresKeepOrder: Push and Clear leave the last entries in the ring, in *)
(* their order, and every use, insertion, eviction and clearing leaves the   *)
(* list of the caches linked both ways, for any capacities and keys.         *)
THEOREM StructuresInOrder == RingSpec /\ ListSpec => []StructuresKeepOrder
<1>1. ListInit => ListInv
  <2> SUFFICES ASSUME ListInit PROVE ListInv
    OBVIOUS
  <2>1. /\ EmptyList \in [next : [Node -> Node], prev : [Node -> Node]]
        /\ EmptyList.next[LruHead] = LruTail /\ EmptyList.prev[LruTail] = LruHead
    BY DEF EmptyList, Node
  <2>2. ListOK(EmptyList, <<>>) /\ ToSet(<<>>) = {} /\ Len(<<>>) = 0
    BY <2>1, EmptyIsOK
  <2> QED BY <2>2, StructureAssumption DEF ListInit, ListInv
<1>2. RingInv /\ ListInv => StructuresKeepOrder
  <2> SUFFICES ASSUME RingInv, ListInv PROVE StructuresKeepOrder
    OBVIOUS
  <2>1. Cardinality(lruItems) = Len(order)
    BY ManyKeys DEF ListInv, ListOK
  <2> QED BY <2>1, RingHolds DEF ListInv, ListOK, StructuresKeepOrder
<1> QED BY <1>1, <1>2, RingStart, RingStep, ListStep, PTL DEF RingSpec, ListSpec

-----------------------------------------------------------------------------
(* The asset store. *)

StoreSpec == StoreInit /\ [][StoreNext]_savars

(* What the property exempts: bodies whose path another body shares, ...     *)
Shared(b) ==
  \E v, w \in Asset : v # w /\ PathOf[v] = PathOf[w] /\ BodyOf[v] # BodyOf[w] /\ b \in {BodyOf[v], BodyOf[w]}

(* ... and those whose hash was lost, whose file was, or that collide.       *)
Exempt(b) == b \in evicted \cup unsaved \cup Collides \cup between \/ Shared(b)

(* The file at p is a URL's with this body, and holds it. *)
Holds(p, b) == \E v \in Asset : p = PathOf[v] /\ BodyOf[v] = b /\ file[p] = b

(* The hashes a cache has. *)
Keys(s) == {e[1] : e \in ToSet(s)}

(* The types the proof needs. *)
StorePC == {"new", "save", "filter", "cache", "map", "alias", "resave", "direct", "directcache", "font", "done", "skipped"}

StoreTypes ==
  /\ apc \in [Asset -> StorePC] /\ mapping \in [Asset -> {PathOf[u] : u \in Asset} \cup {NoFile}]
  /\ DOMAIN file = {PathOf[u] : u \in Asset}
  /\ hashCache \in Seq({BodyOf[u] : u \in Asset} \X ({PathOf[u] : u \in Asset} \cup {NoFile}))

(* A URL that has saved its body, and one that is mapped, has its file; the  *)
(* URL that goes on to the cache through its link is mapped by then.         *)
FileOK(u) ==
  ~Exempt(BodyOf[u]) =>
    /\ mapping[u] # NoFile => Holds(mapping[u], BodyOf[u])
    /\ apc[u] \in {"filter", "cache", "map", "directcache"} => Holds(PathOf[u], BodyOf[u])
    /\ apc[u] \in {"done", "directcache"} => mapping[u] # NoFile
    /\ apc[u] = "alias" => BodyOf[u] \in hashFilter

(* A hash the filter has is in the cache, or on its way there; in the cache  *)
(* it has its file.                                                          *)
HashesOK ==
  /\ \A e \in ToSet(hashCache) : Exempt(e[1]) \/ Holds(e[2], e[1])
  /\ \A b \in hashFilter :
       b \in Keys(hashCache) \/ Exempt(b) \/ \E v \in Asset : apc[v] = "cache" /\ BodyOf[v] = b

StoreInv == StoreTypes /\ HashesOK /\ \A u \in Asset : FileOK(u)

(* What PutHash leaves in the cache. *)
LEMMA PutKeeps ==
  ASSUME StoreTypes, NEW b \in {BodyOf[u] : u \in Asset},
         NEW p \in {PathOf[u] : u \in Asset} \cup {NoFile}, PutHash(b, p)
  PROVE  /\ hashCache' \in Seq({BodyOf[u] : u \in Asset} \X ({PathOf[u] : u \in Asset} \cup {NoFile}))
         /\ ToSet(hashCache') \subseteq ToSet(hashCache) \cup {<<b, p>>}
         /\ Keys(hashCache) \cup {b} \subseteq Keys(hashCache') \cup evicted'
         /\ evicted \subseteq evicted'
<1> DEFINE E == {BodyOf[u] : u \in Asset} \X ({PathOf[u] : u \in Asset} \cup {NoFile})
           rest == Others(b)
           new == <<<<b, p>>>> \o rest
           n == IF Len(new) > MaxHashes THEN MaxHashes ELSE Len(new)
           kept == SubSeq(new, 1, n)
<1>1. hashCache \in Seq(E) /\ <<b, p>> \in E
  BY DEF StoreTypes
<1> HIDE DEF E
<1>2. /\ rest \in Seq(E) /\ ToSet(rest) \subseteq ToSet(hashCache)
      /\ \A e \in ToSet(hashCache) : e[1] = b \/ e \in ToSet(rest)
  <2>1. CASE HashAt(b) = {}
    <3>1. rest = hashCache
      BY <2>1 DEF Others
    <3> QED BY <1>1, <3>1
  <2>2. CASE HashAt(b) # {}
    <3>1. PICK i \in 1..Len(hashCache) : i = (CHOOSE k \in HashAt(b) : TRUE) /\ hashCache[i][1] = b
      BY <1>1, <2>2 DEF HashAt
    <3>2. rest = RemoveAt(hashCache, i)
      BY <2>2, <3>1 DEF Others
    <3> HIDE DEF rest
    <3>3. /\ rest \in Seq(E) /\ ToSet(rest) \subseteq ToSet(hashCache)
          /\ ToSet(hashCache) \subseteq ToSet(rest) \cup {hashCache[i]}
      BY <1>1, <3>2, RemoveAtIs, RemovedIsGone
    <3> QED BY <3>1, <3>3
  <2> QED BY <2>1, <2>2
<1> HIDE DEF rest
<1>3. new \in Seq(E) /\ ToSet(new) = ToSet(rest) \cup {<<b, p>>}
  <2> DEFINE e == <<b, p>>
  <2>1. rest \in Seq(E) /\ e \in E
    BY <1>1, <1>2
  <2> HIDE DEF e
  <2>2. <<e>> \o rest \in Seq(E) /\ ToSet(<<e>> \o rest) = ToSet(rest) \cup {e}
    BY <2>1, PutInFront
  <2> QED BY <2>2 DEF e
<1>4. kept \in Seq(E) /\ ToSet(kept) \subseteq ToSet(new)
  <2>1. n \in 0..Len(new)
    BY <1>3, StoreAssumption
  <2> HIDE DEF n, new
  <2>2. kept \in Seq(E) /\ Len(kept) = n /\ \A k \in 1..n : kept[k] = new[k]
    BY <1>3, <2>1
  <2> QED BY <1>3, <2>1, <2>2 DEF ToSet
<1>5. hashCache' = kept /\ evicted' = evicted \cup {e[1] : e \in ToSet(new) \ ToSet(kept)}
  BY DEF PutHash, rest
<1> HIDE DEF kept, new
<1>6. Keys(new) \subseteq Keys(hashCache') \cup evicted'
  BY <1>5 DEF Keys
<1>7. Keys(hashCache) \cup {b} \subseteq Keys(new)
  <2>1. <<b, p>>[1] = b
    OBVIOUS
  <2>2. b \in Keys(new)
    BY <1>3, <2>1 DEF Keys
  <2>3. ASSUME NEW e \in ToSet(hashCache) PROVE e[1] \in Keys(new)
    BY <1>2, <1>3, <2>2, <2>3 DEF Keys
  <2> QED BY <2>2, <2>3 DEF Keys
<1> QED BY <1>2, <1>3, <1>4, <1>5, <1>6, <1>7 DEF E

(* A step of one URL loses no exemption and, of a body that has its path to  *)
(* itself, no file.                                                          *)
LEMMA OthersKeep ==
  ASSUME StoreInv, NEW u \in Asset,
         \A v \in Asset \ {u} : apc'[v] = apc[v] /\ mapping'[v] = mapping[v],
         file' = file \/ file' = [file EXCEPT ![PathOf[u]] = BodyOf[u]],
         evicted \subseteq evicted', unsaved \subseteq unsaved', between \subseteq between',
         hashFilter \subseteq hashFilter'
  PROVE  /\ \A b : Exempt(b) => Exempt(b)'
         /\ \A p, b : ~Exempt(b)' /\ Holds(p, b) => Holds(p, b)'
         /\ \A v \in Asset \ {u} : FileOK(v)'
<1>1. ASSUME NEW b, Exempt(b) PROVE Exempt(b)'
  BY <1>1 DEF Exempt
<1>2. ASSUME NEW p, NEW b, ~Exempt(b)', Holds(p, b) PROVE Holds(p, b)'
  <2>1. ~Shared(b)
    BY <1>2 DEF Exempt
  <2>2. PICK v \in Asset : p = PathOf[v] /\ BodyOf[v] = b /\ file[p] = b
    BY <1>2 DEF Holds
  <2>3. p = PathOf[u] => BodyOf[u] = b
    BY <2>1, <2>2 DEF Shared
  <2>4. file'[p] = b
    BY <2>2, <2>3 DEF StoreInv, StoreTypes
  <2> QED BY <2>2, <2>4 DEF Holds
<1>3. ASSUME NEW v \in Asset \ {u} PROVE FileOK(v)'
  <2>1. FileOK(v) /\ apc'[v] = apc[v] /\ mapping'[v] = mapping[v]
    BY DEF StoreInv
  <2> QED BY <1>1, <1>2, <2>1 DEF FileOK
<1> QED BY <1>1, <1>2, <1>3

(* The types are kept. *)
LEMMA StoreTyped == StoreTypes /\ [StoreNext]_savars => StoreTypes'
<1> SUFFICES ASSUME StoreTypes, [StoreNext]_savars PROVE StoreTypes'
  OBVIOUS
<1>0. CASE UNCHANGED savars
  BY <1>0 DEF StoreTypes, savars
<1>1. ASSUME NEW u \in Asset,
             \/ HashSeen(u) \/ ByScript(u) \/ ByScriptAgain(u) \/ SaveNew(u) \/ AddHash(u) \/ MapOwn(u)
             \/ SaveAgain(u) \/ CrawlAsset(u) \/ SaveDirect(u) \/ FontSeen(u)
             \/ InScriptMarkup(u) \/ SaveFont(u) \/ NotFetched(u)
      PROVE  StoreTypes'
  BY <1>1 DEF StoreTypes, StorePC, HashSeen, ByScript, ByScriptAgain, SaveNew, AddHash, MapOwn, SaveAgain,
              CrawlAsset, SaveDirect, FontSeen, InScriptMarkup, SaveFont, NotFetched, StepTo, Write, MapTo
<1>2. ASSUME NEW u \in Asset, CachePath(u) \/ CacheDirect(u) PROVE StoreTypes'
  <2>1. PutHash(BodyOf[u], PathOf[u])
    BY <1>2 DEF CachePath, CacheDirect
  <2>2. hashCache' \in Seq({BodyOf[v] : v \in Asset} \X ({PathOf[v] : v \in Asset} \cup {NoFile}))
    BY <2>1, PutKeeps
  <2> QED BY <1>2, <2>2 DEF StoreTypes, StorePC, CachePath, CacheDirect, StepTo
<1>3. ASSUME NEW u \in Asset, Alias(u) PROVE StoreTypes'
  <2>1. PICK p \in {PathOf[v] : v \in Asset} \cup {NoFile} :
          PutHash(BodyOf[u], p) /\ (mapping' = mapping \/ mapping' = [mapping EXCEPT ![u] = p])
    <3>1. CASE \E i \in DOMAIN hashCache :
                 PutHash(BodyOf[u], hashCache[i][2]) /\ (mapping' = mapping \/ MapTo(u, hashCache[i][2]))
      <4>1. PICK i \in DOMAIN hashCache :
              PutHash(BodyOf[u], hashCache[i][2]) /\ (mapping' = mapping \/ MapTo(u, hashCache[i][2]))
        BY <3>1
      <4>2. hashCache[i][2] \in {PathOf[v] : v \in Asset} \cup {NoFile}
        BY DEF StoreTypes
      <4> QED BY <4>1, <4>2 DEF MapTo
    <3>2. CASE PutHash(BodyOf[u], NoFile) /\ UNCHANGED mapping
      BY <3>2
    <3> QED BY <1>3, <3>1, <3>2 DEF Alias
  <2>2. hashCache' \in Seq({BodyOf[v] : v \in Asset} \X ({PathOf[v] : v \in Asset} \cup {NoFile}))
    BY <2>1, PutKeeps
  <2> QED BY <1>3, <2>1, <2>2 DEF StoreTypes, StorePC, Alias, StepTo
<1> QED BY <1>0, <1>1, <1>2, <1>3 DEF StoreNext

(* What a step that puts nothing into the cache keeps. *)
LEMMA StoreKeeps ==
  ASSUME StoreInv, NEW u \in Asset,
         \/ HashSeen(u) \/ ByScript(u) \/ ByScriptAgain(u) \/ SaveNew(u) \/ AddHash(u) \/ MapOwn(u)
         \/ SaveAgain(u) \/ CrawlAsset(u) \/ SaveDirect(u) \/ FontSeen(u)
         \/ InScriptMarkup(u) \/ SaveFont(u) \/ NotFetched(u)
  PROVE  HashesOK' /\ \A v \in Asset : FileOK(v)'
<1> DEFINE b == BodyOf[u]
<1>1. /\ \A v \in Asset \ {u} : apc'[v] = apc[v] /\ mapping'[v] = mapping[v]
      /\ file' = file \/ file' = [file EXCEPT ![PathOf[u]] = b]
      /\ evicted \subseteq evicted' /\ unsaved \subseteq unsaved' /\ between \subseteq between'
      /\ hashFilter \subseteq hashFilter' /\ hashCache' = hashCache
  BY DEF StoreInv, StoreTypes, HashSeen, ByScript, ByScriptAgain, SaveNew, AddHash, MapOwn, SaveAgain,
         CrawlAsset, SaveDirect, FontSeen, InScriptMarkup, SaveFont, NotFetched, StepTo, Write, MapTo
<1>2. /\ \A c : Exempt(c) => Exempt(c)'
      /\ \A p, c : ~Exempt(c)' /\ Holds(p, c) => Holds(p, c)'
      /\ \A v \in Asset \ {u} : FileOK(v)'
  BY <1>1, OthersKeep
<1>3. hashFilter' = hashFilter \/ (hashFilter' = hashFilter \cup {b} /\ apc'[u] = "cache")
  BY DEF StoreInv, StoreTypes, HashSeen, ByScript, ByScriptAgain, SaveNew, AddHash, MapOwn, SaveAgain,
         CrawlAsset, SaveDirect, FontSeen, InScriptMarkup, SaveFont, NotFetched, StepTo, Write, MapTo
<1>4. apc[u] # "cache"
  BY DEF HashSeen, ByScript, ByScriptAgain, SaveNew, AddHash, MapOwn, SaveAgain,
         CrawlAsset, SaveDirect, FontSeen, InScriptMarkup, SaveFont, NotFetched, StepTo, Write, MapTo
<1>5. HashesOK'
  <2>1. ASSUME NEW e \in ToSet(hashCache') PROVE Exempt(e[1])' \/ Holds(e[2], e[1])'
    BY <1>1, <1>2 DEF StoreInv, HashesOK
  <2>2. ASSUME NEW c \in hashFilter'
        PROVE  c \in Keys(hashCache') \/ Exempt(c)' \/ \E v \in Asset : apc'[v] = "cache" /\ BodyOf[v] = c
    BY <1>1, <1>2, <1>3, <1>4 DEF StoreInv, HashesOK
  <2> QED BY <2>1, <2>2 DEF HashesOK
<1>6. FileOK(u)'
  <2> SUFFICES ASSUME ~Exempt(b)' PROVE FileOK(u)'
    BY DEF FileOK
  <2>0. ~Exempt(b) /\ FileOK(u) /\ u \in DOMAIN apc /\ u \in DOMAIN mapping
    BY <1>2 DEF StoreInv, StoreTypes
  <2>w. ASSUME PathOf[u] \in DOMAIN file, file' = [file EXCEPT ![PathOf[u]] = b] PROVE Holds(PathOf[u], b)'
    BY <2>w DEF Holds
  <2>d. PathOf[u] \in DOMAIN file /\ PathOf[u] # NoFile
    BY StoreAssumption DEF StoreInv, StoreTypes
  <2>1. CASE HashSeen(u) \/ ByScript(u) \/ ByScriptAgain(u)
    BY <1>2, <2>0, <2>1 DEF FileOK, Exempt, HashSeen, ByScript, ByScriptAgain, StepTo
  <2>2. CASE SaveNew(u) \/ SaveAgain(u) \/ SaveFont(u)
    <3>1. CASE file' = [file EXCEPT ![PathOf[u]] = b] /\ apc'[u] \in {"filter", "cache", "map"}
      BY <1>2, <2>0, <2>2, <2>w, <2>d, <3>1 DEF FileOK, SaveNew, SaveAgain, SaveFont
    <3>2. CASE b \in unsaved'
      BY <3>2 DEF Exempt
    <3> QED BY <2>0, <2>2, <3>1, <3>2 DEF SaveNew, SaveAgain, SaveFont, Write, StepTo
  <2>3. CASE SaveDirect(u)
    <3>1. CASE file' = [file EXCEPT ![PathOf[u]] = b] /\ apc'[u] = "directcache"
      <4>1. mapping'[u] = PathOf[u]
        BY <2>0, <2>3, <3>1 DEF SaveDirect, MapTo
      <4> QED BY <2>w, <2>d, <3>1, <4>1 DEF FileOK
    <3>2. CASE b \in unsaved'
      BY <3>2 DEF Exempt
    <3> QED BY <2>0, <2>3, <3>1, <3>2 DEF SaveDirect, Write, StepTo
  <2>4. CASE AddHash(u)
    BY <1>2, <2>0, <2>4 DEF FileOK, AddHash, StepTo
  <2>5. CASE MapOwn(u)
    BY <1>2, <2>0, <2>5, <2>d DEF FileOK, MapOwn, StepTo, MapTo
  <2>6. CASE CrawlAsset(u) \/ FontSeen(u) \/ InScriptMarkup(u) \/ NotFetched(u)
    BY <1>2, <2>0, <2>6 DEF FileOK, CrawlAsset, FontSeen, InScriptMarkup, NotFetched, StepTo
  <2> QED BY <2>1, <2>2, <2>3, <2>4, <2>5, <2>6
<1> QED BY <1>2, <1>5, <1>6

(* What a step that puts a hash into the cache keeps, when the path it puts  *)
(* there is that of the body's file, or the body is exempt.                  *)
LEMMA CacheKeeps ==
  ASSUME StoreInv, NEW u \in Asset, NEW p \in {PathOf[v] : v \in Asset} \cup {NoFile},
         PutHash(BodyOf[u], p), UNCHANGED <<file, hashFilter, unsaved>>, between \subseteq between',
         \A v \in Asset \ {u} : apc'[v] = apc[v] /\ mapping'[v] = mapping[v],
         Exempt(BodyOf[u])' \/ Holds(p, BodyOf[u])
  PROVE  /\ HashesOK' /\ \A v \in Asset \ {u} : FileOK(v)'
         /\ Exempt(BodyOf[u]) => Exempt(BodyOf[u])'
         /\ \A q : ~Exempt(BodyOf[u])' /\ Holds(q, BodyOf[u]) => Holds(q, BodyOf[u])'
<1> DEFINE b == BodyOf[u]
<1>1. /\ ToSet(hashCache') \subseteq ToSet(hashCache) \cup {<<b, p>>}
      /\ Keys(hashCache) \cup {b} \subseteq Keys(hashCache') \cup evicted'
      /\ evicted \subseteq evicted'
  BY PutKeeps DEF StoreInv
<1>2. /\ \A c : Exempt(c) => Exempt(c)'
      /\ \A q, c : ~Exempt(c)' /\ Holds(q, c) => Holds(q, c)'
      /\ \A v \in Asset \ {u} : FileOK(v)'
  BY <1>1, OthersKeep
<1>3. ASSUME NEW e \in ToSet(hashCache') PROVE Exempt(e[1])' \/ Holds(e[2], e[1])'
  <2>1. CASE e \in ToSet(hashCache)
    BY <1>2, <2>1 DEF StoreInv, HashesOK
  <2>2. CASE e = <<b, p>>
    <3>1. e[1] = b /\ e[2] = p
      BY <2>2
    <3> QED BY <1>2, <3>1
  <2> QED BY <1>1, <1>3, <2>1, <2>2
<1>4. ASSUME NEW c \in hashFilter'
      PROVE  c \in Keys(hashCache') \/ Exempt(c)' \/ \E v \in Asset : apc'[v] = "cache" /\ BodyOf[v] = c
  <2>1. c \in Keys(hashCache) \cup {b} => c \in Keys(hashCache') \/ Exempt(c)'
    BY <1>1 DEF Exempt
  <2>2. Exempt(c) => Exempt(c)'
    BY <1>2
  <2>3. ASSUME NEW v \in Asset, apc[v] = "cache", BodyOf[v] = c, c # b PROVE apc'[v] = "cache"
    BY <2>3
  <2> QED BY <1>4, <2>1, <2>2, <2>3 DEF StoreInv, HashesOK
<1> QED BY <1>2, <1>3, <1>4 DEF HashesOK

(* The three steps that do. *)
LEMMA PuttingKeeps ==
  ASSUME StoreInv, NEW u \in Asset, CachePath(u) \/ CacheDirect(u) \/ Alias(u)
  PROVE  HashesOK' /\ \A v \in Asset : FileOK(v)'
<1> DEFINE b == BodyOf[u]
<1>1. /\ FileOK(u) /\ HashesOK /\ StoreTypes /\ u \in DOMAIN apc /\ u \in DOMAIN mapping
      /\ PathOf[u] \in {PathOf[v] : v \in Asset} \cup {NoFile}
  BY DEF StoreInv, StoreTypes
<1>2. CASE CachePath(u) \/ CacheDirect(u)
  <2>1. /\ PutHash(b, PathOf[u]) /\ UNCHANGED <<file, hashFilter, unsaved, between, mapping>>
        /\ \A v \in Asset \ {u} : apc'[v] = apc[v] /\ mapping'[v] = mapping[v]
        /\ \/ apc[u] = "cache" /\ apc'[u] = "map"
           \/ apc[u] = "directcache" /\ apc'[u] = "done"
    BY <1>1, <1>2 DEF CachePath, CacheDirect, StepTo, StoreTypes
  <2>2. evicted \subseteq evicted'
    BY <1>1, <2>1, PutKeeps
  <2>3. Exempt(b) => Exempt(b)'
    BY <2>1, <2>2 DEF Exempt
  <2>4. Exempt(b)' \/ Holds(PathOf[u], b)
    BY <1>1, <2>1, <2>3 DEF FileOK
  <2>5. /\ HashesOK' /\ \A v \in Asset \ {u} : FileOK(v)'
        /\ \A q : ~Exempt(b)' /\ Holds(q, b) => Holds(q, b)'
    BY <1>1, <2>1, <2>4, CacheKeeps
  <2>6. FileOK(u)'
    BY <1>1, <2>1, <2>3, <2>5 DEF FileOK
  <2> QED BY <2>5, <2>6
<1>3. CASE Alias(u)
  <2>1. /\ apc[u] = "alias" /\ UNCHANGED <<file, hashFilter, unsaved>> /\ between \subseteq between'
        /\ \A v \in Asset \ {u} : apc'[v] = apc[v] /\ mapping'[v] = mapping[v]
    BY <1>1, <1>3 DEF Alias, StepTo, MapTo, StoreTypes
  <2>2. CASE \E i \in DOMAIN hashCache :
               /\ hashCache[i][1] = b /\ PutHash(b, hashCache[i][2])
               /\ apc'[u] = "done"
               /\ IF hashCache[i][2] # NoFile THEN MapTo(u, hashCache[i][2]) ELSE UNCHANGED mapping
    <3>1. PICK i \in DOMAIN hashCache :
               /\ hashCache[i][1] = b /\ PutHash(b, hashCache[i][2])
               /\ apc'[u] = "done"
               /\ IF hashCache[i][2] # NoFile THEN MapTo(u, hashCache[i][2]) ELSE UNCHANGED mapping
      BY <2>2
    <3> DEFINE p == hashCache[i][2]
    <3>2. p \in {PathOf[v] : v \in Asset} \cup {NoFile}
      BY <1>1 DEF StoreTypes
    <3>3. evicted \subseteq evicted'
      BY <1>1, <3>1, <3>2, PutKeeps
    <3>4. Exempt(b) => Exempt(b)'
      BY <2>1, <3>3 DEF Exempt
    <3>5. Exempt(b) \/ Holds(p, b)
      BY <1>1, <3>1 DEF HashesOK, ToSet
    <3>6. /\ HashesOK' /\ \A v \in Asset \ {u} : FileOK(v)'
          /\ \A q : ~Exempt(b)' /\ Holds(q, b) => Holds(q, b)'
      BY <2>1, <3>1, <3>2, <3>4, <3>5, CacheKeeps
    <3>7. ~Exempt(b) => p # NoFile
      BY <3>5, StoreAssumption DEF Holds
    <3>8. ~Exempt(b) => mapping'[u] = p
      BY <1>1, <3>1, <3>7 DEF MapTo
    <3> HIDE DEF p
    <3>9. FileOK(u)'
      BY <3>1, <3>4, <3>5, <3>6, <3>7, <3>8 DEF FileOK
    <3> QED BY <3>6, <3>9
  <2>3. CASE /\ \A i \in DOMAIN hashCache : hashCache[i][1] # b
             /\ PutHash(b, NoFile) /\ apc'[u] = "resave" /\ UNCHANGED mapping
             /\ between' = IF \E v \in Asset : apc[v] = "cache" /\ BodyOf[v] = b
                           THEN between \cup {b} ELSE between
    <3>1. evicted \subseteq evicted'
      BY <1>1, <2>3, PutKeeps
    <3>2. Exempt(b) => Exempt(b)'
      BY <2>1, <3>1 DEF Exempt
    <3>3. b \notin Keys(hashCache)
      BY <2>3 DEF Keys, ToSet
    <3>4. Exempt(b) \/ b \in between'
      BY <1>1, <2>1, <2>3, <3>3 DEF FileOK, HashesOK
    <3>5. Exempt(b)'
      BY <3>2, <3>4 DEF Exempt
    <3>6. HashesOK' /\ \A v \in Asset \ {u} : FileOK(v)'
      BY <2>1, <2>3, <3>5, CacheKeeps
    <3> QED BY <3>5, <3>6 DEF FileOK
  <2> QED BY <1>1, <1>3, <2>2, <2>3 DEF Alias, StepTo
<1> QED BY <1>2, <1>3

(* StoredAndMapped: of the goroutines that save bodies, each with the hash   *)
(* filter, the cache, the files and the mappings locked one after the other, *)
(* none ends without its URL mapped to the body, but for the exempt ones.    *)
THEOREM StoreKeepsBodies == StoreSpec => []StoredAndMapped
<1>1. StoreInit => StoreInv
  <2> SUFFICES ASSUME StoreInit PROVE StoreInv
    OBVIOUS
  <2>1. StoreTypes
    BY DEF StoreInit, StoreTypes, StorePC
  <2>2. HashesOK /\ \A u \in Asset : FileOK(u)
    BY DEF StoreInit, HashesOK, FileOK, ToSet
  <2> QED BY <2>1, <2>2 DEF StoreInv
<1>2. StoreInv /\ [StoreNext]_savars => StoreInv'
  <2> SUFFICES ASSUME StoreInv, [StoreNext]_savars PROVE StoreInv'
    OBVIOUS
  <2>1. CASE UNCHANGED savars
    BY <2>1 DEF StoreInv, StoreTypes, HashesOK, FileOK, Exempt, Holds, savars
  <2>2. CASE StoreNext
    BY <2>2, StoreTyped, StoreKeeps, PuttingKeeps DEF StoreNext, StoreInv
  <2> QED BY <2>1, <2>2
<1>3. StoreInv => StoredAndMapped
  BY DEF StoreInv, FileOK, Holds, Exempt, Shared, StoredAndMapped
<1> QED BY <1>1, <1>2, <1>3, PTL DEF StoreSpec

=============================================================================
