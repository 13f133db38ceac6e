------------------------------ MODULE MCComponents ------------------------------
(***************************************************************************)
(* The components around the crawl engine, each on a small instance.  They *)
(* share no state: a behaviour is one of one component, chosen at the      *)
(* beginning, and the others stay as they were.                            *)
(***************************************************************************)
EXTENDS BrowserPool, PageCapture, Archive, ChangeDetector, RateLimiter,
        MemoryBudget, BoundedStructures, AssetStore, AssetDownloader, UrlRules, PageAccess,
        OfflineTree, Scheduler

CONSTANTS p1, p2, u1, u2, u3, v1, v2, r1, r2, r3, r4, a1, a2, a3, a4, f1, f2, f3, s1, m1, m2

VARIABLE which    \* the component that runs

(* memory.go: the first page's HTML takes all of the budget.                 *)
MCBytes == [r \in Reserver |-> IF r = r1 THEN 3 ELSE IF r = r3 THEN 2 ELSE 1]

(* Two URLs whose snapshot files have the same name.                         *)
MCSafeName == [u \in SnapURL |-> "n"]

(* Three assets with an equal body, and one that takes its place in the cache. *)
MCBodyOf == [u \in Asset |-> IF u = a4 THEN "y" ELSE "x"]
MCPathOf == [u \in Asset |-> u]

(* Names with an escape, or with what an escape stood for: of a letter, of   *)
(* "..", of a slash, of "~" and of "?"; with a broken one, and with "..".    *)
MCEscape == "%61" :> <<"a">> @@ "%2E." :> <<"..">> @@ "a%2F" :> <<"a", Blank>> @@ "%7E" :> <<"~">>
MCBefore == [n \in {"a?b"} |-> "a"]
MCTilde == [n \in {"%7E"} |-> "~"]

MCPattern ==
  {<<"/", "a">>, <<"/", "a", "/">>, <<"/", "a", "/", "b">>, <<"/">>, <<"*", "/", "b">>,
   <<"/", "*", "b">>, <<"/", "a", "*">>, <<"/", "?", "/", "b">>, <<"/", "?">>, <<"/", "a", "/", "*">>,
   <<"/", "a", "/", "**">>, <<"**", "/", "b">>, <<"/", "a", "**", "/", "b">>, <<"**", "/", "?", "**">>}

(* Expressions: every minute, in steps, on a day of the month or of the      *)
(* week, in a month, on a day no month has; and at intervals: of three ticks, *)
(* of none, of one less than none, which a minute makes up for, and of three. *)
Between(lo, hi) == {[kind |-> "range", lo |-> lo, hi |-> hi]}
Step(n) == {[kind |-> "step", lo |-> 0, hi |-> n]}
EveryMinute == [kind |-> "fields", every |-> 0, minute |-> AnyValue, hour |-> AnyValue, day |-> AnyValue,
                month |-> AnyValue, weekday |-> AnyValue]
MCCron ==
  [kind : {"every"}, every : {3, 0, -1, -3}] \cup
  {EveryMinute,
   [EveryMinute EXCEPT !.minute = Between(1, 1), !.hour = Step(2)],
   [EveryMinute EXCEPT !.minute = Between(0, 0), !.hour = Between(0, 0), !.day = Between(2, 2), !.weekday = Between(0, 0)],
   [EveryMinute EXCEPT !.minute = Between(0, 0), !.hour = Between(1, 1), !.day = Between(1, 1), !.month = Between(2, 2)],
   [EveryMinute EXCEPT !.minute = Between(0, 0), !.hour = Between(0, 0), !.day = Between(3, 3)]}

(* A page and its second page, one of noise, a style sheet and two images,   *)
(* of which the URL of one begins with that of the other.                    *)
MCRefs ==
  [t \in TextFile |-> CASE t = f1 -> {f2, m1, m2} [] t = f2 -> {m1} [] t = s1 -> {m2} [] OTHER -> {}]
MCExtends == {<<m2, m1>>}
MCDocOf == [p \in PageFile |-> IF p = f3 THEN 2 ELSE 1]
MCWeightOf == [p \in PageFile |-> IF p = f2 THEN 5 ELSE 0]
MCPathOrder ==
  [f \in Saved |-> CASE f = f2 -> 1 [] f = f1 -> 2 [] f = f3 -> 3 [] f = s1 -> 4 [] f = m1 -> 5
                     [] OTHER -> 6]

-----------------------------------------------------------------------------
Component == {"browsers", "page", "archive", "changes", "rate", "memory", "ring", "list",
              "assets", "downloader", "rules", "access", "offline", "schedule"}

(* What a component may begin with is chosen only where it runs.             *)
MCInit ==
  /\ which \in Component
  /\ PoolInit /\ CaptureInit /\ ArchiveInit /\ DetectorInit /\ LimiterInit /\ MemoryInit
  /\ RingInit /\ ListInit /\ StoreInit /\ DownloaderInit /\ RulesInit
  /\ AccessInit /\ (which # "access" => way = "oauth")
  /\ OfflineInit
  /\ SchedulerInit /\ (which # "schedule" => \A j \in Job : cronOf[j] = EveryMinute)
  /\ which # "offline" => /\ clone = Saved /\ persisted = Empty
                          /\ \A r \in Reference : form[r] = "relative"

(* The components in three parts, for those of the parts that stay whole.    *)
S1 == UNCHANGED <<bvars, cvars, avars, kvars>>
S2 == UNCHANGED <<dvars, rvars, mvars, ringVars, lruVars, schedVars>>
S3 == UNCHANGED <<savars, xvars, uvars, accessVars, ovars>>

MCNext ==
  /\ UNCHANGED which
  /\ \/ /\ which = "browsers" /\ PoolNext
        /\ UNCHANGED <<cvars, avars, kvars>> /\ S2 /\ S3
     \/ /\ which = "page" /\ CaptureNext
        /\ UNCHANGED <<bvars, avars, kvars>> /\ S2 /\ S3
     \/ /\ which = "archive" /\ ArchiveNext
        /\ UNCHANGED <<bvars, cvars>> /\ S2 /\ S3
     \/ /\ which = "changes" /\ DetectorNext
        /\ S1 /\ UNCHANGED <<rvars, mvars, ringVars, lruVars, schedVars>> /\ S3
     \/ /\ which = "rate" /\ LimiterNext
        /\ S1 /\ UNCHANGED <<dvars, mvars, ringVars, lruVars, schedVars>> /\ S3
     \/ /\ which = "memory" /\ MemoryNext
        /\ S1 /\ UNCHANGED <<dvars, rvars, ringVars, lruVars, schedVars>> /\ S3
     \/ /\ which = "ring" /\ RingNext
        /\ S1 /\ UNCHANGED <<dvars, rvars, mvars, lruVars, schedVars>> /\ S3
     \/ /\ which = "list" /\ ListNext
        /\ S1 /\ UNCHANGED <<dvars, rvars, mvars, ringVars, schedVars>> /\ S3
     \/ /\ which = "assets" /\ StoreNext
        /\ S1 /\ S2 /\ UNCHANGED <<xvars, uvars, accessVars, ovars>>
     \/ /\ which = "downloader" /\ DownloaderNext
        /\ S1 /\ S2 /\ UNCHANGED <<savars, uvars, accessVars, ovars>>
     \/ /\ which = "rules" /\ RulesNext
        /\ S1 /\ S2 /\ UNCHANGED <<savars, xvars, accessVars, ovars>>
     \/ /\ which = "access" /\ AccessNext
        /\ S1 /\ S2 /\ UNCHANGED <<savars, xvars, uvars, ovars>>
     \/ /\ which = "offline" /\ OfflineNext
        /\ S1 /\ S2 /\ UNCHANGED <<savars, xvars, uvars, accessVars>>
     \/ /\ which = "schedule" /\ SchedulerNext
        /\ S1 /\ UNCHANGED <<dvars, rvars, mvars, ringVars, lruVars>> /\ S3

-----------------------------------------------------------------------------
(* Bounds.  A page: routes, data and the end of the crawl without network    *)
(* events.                                                                   *)
Quiet == \A e \in Event : event[e] = "none"
PageBound ==
  /\ (discovered # {} \/ siteWritten \/ crawlOver \/ aggregate # NoPage) => Quiet
  /\ event[<<p2, u2>>] = "none" /\ event[<<p2, u3>>] = "none" /\ event[<<p1, u3>>] # "finished"
  /\ event[<<p1, u3>>] # "none" => event[<<p2, u1>>] = "none" /\ event[<<p1, u1>>] # "none"
  /\ event[<<p2, u1>>] # "none" => html \subseteq {p1}
  /\ \E p \in Page : ppc[p] \in {"idle", "acquire", "release", "tab", "done"}

(* The archives first, or the cache: they share nothing.                     *)
ArchiveBound == (\A r \in Record : stage[r] = "new") \/ etag = [u \in CacheURL |-> 0]

(* Snapshots: one of the second URL, which the first may take the file from  *)
(* or the other way round; what comes when both are misfiled tells nothing.  *)
ChangesBound ==
  /\ misfiled \in {{}, {v2}} \/ (misfiled = {v1} /\ second = 2 /\ Len(snapshots[v1]) < 2)
  /\ \A s \in ToSet(snapshots[v2]) : s.at = 2 /\ s.page = "x"
  /\ loading => Cardinality(DOMAIN files) <= 3

(* The limiters in their order, before a cleanup that may break what is      *)
(* checked; debts of more than a token while there is one limiter, and the   *)
(* end of the crawl before the rate changes.                                 *)
RateBound ==
  /\ ~split /\ made \in {{}, {1}, {1, 2}}
  /\ (crawlDone \/ 2 \in made) => \A l \in made : tokens[l] >= -Token
  /\ crawlDone => latency = "none"

(* The assets with an equal body in their order: they are alike.             *)
AssetsBound ==
  /\ apc[a2] # "new" => apc[a1] # "new"
  /\ apc[a3] # "new" => apc[a2] # "new"

(* The tree: one file skipped, one alias, a few relative references.         *)
OfflineBound ==
  /\ DOMAIN persisted \subseteq {m2} /\ Cardinality(skipped) <= 1
  /\ \A r \in Reference : form[r] = "relative" => r[1] = f1 /\ r[2] # f2

(* The jobs: Start is called before the first tick, and again soon. *)
ScheduleBound ==
  /\ starts = 0 => tick = 0
  /\ starts = 2 => tick <= 8

Bounds ==
  /\ which = "page" => PageBound
  /\ which = "archive" => ArchiveBound
  /\ which = "changes" => ChangesBound
  /\ which = "rate" => RateBound
  /\ which = "assets" => AssetsBound
  /\ which = "offline" => OfflineBound
  /\ which = "schedule" => ScheduleBound
=============================================================================
