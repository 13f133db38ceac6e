------------------------------ MODULE PageCapture ------------------------------
(***************************************************************************)
(* One page from its tab to its links: doCrawl and captureCurrentPage of   *)
(* internal/crawler, with the network interceptor of internal/network that *)
(* pages take from a pool and give back.  An interceptor's handlers run on *)
(* the events of whatever tab they were registered for, and fetch each     *)
(* body in a goroutine that Release does not wait for.                     *)
(***************************************************************************)
EXTENDS Naturals, FiniteSets

CONSTANTS
  Page,          \* pages, each with its tab
  Seed,          \* the page isSeedPage holds of
  Resource,      \* URLs a page loads
  Fetchable,     \* those with a valid URL on an allowed domain, and not excluded
  Route,         \* pushState routes a page may show
  Interceptor,   \* what the pool holds, or makes while there are fewer than its size
  MaxResources,  \* maxResources
  MaxSeen,       \* maxSeenURLs
  NoPage, NoInterceptor

ASSUME PageAssumption ==
  /\ Seed \in Page /\ NoPage \notin Page /\ NoInterceptor \notin Interceptor
  /\ MaxResources \in Nat /\ MaxSeen \in Nat \ {0} /\ Fetchable \subseteq Resource

Event == Page \X Resource    \* one request of a tab for each URL

VARIABLES
  ppc,           \* where doCrawl is
  result,        \* what it returned: "none", "ok" or "error"
  intercept,     \* intercept[p]: the interceptor p acquired, whose handlers its tab has
  seen,          \* i.seen
  pendingBodies, \* i.pending: responses whose body has not been asked for
  fetching,      \* goroutines of onLoadingFinished (i.fetchWg)
  resources,     \* keys of i.resources
  remaining,     \* responses i.FetchBodies fetches
  event,         \* event[e]: "none", "response", "finished": what the tab reported
  got,           \* got[p]: URLs p has saved or asked for over HTTP
  due,           \* history: seen ever since p took the pending ones, and not being
                 \* fetched then
  html,          \* pages whose HTML is saved
  discovered,    \* c.discoveredRoutes
  routesToCrawl, \* routes[p]: routes p has found first and visits
  siteWritten,   \* c.siteSDWritten (siteArticleWritten is its twin)
  aggregate,     \* the page whose data the site aggregate holds
  crawlOver      \* c.ctx is done

ivars == <<intercept, seen, pendingBodies, fetching, resources, remaining, event>>
gvars == <<got, due>>
fvars == <<html, discovered, routesToCrawl, siteWritten, aggregate>>
cvars == <<ppc, result, ivars, gvars, fvars, crawlOver>>

URLs(es) == {e[2] : e \in es}
TabOpen(p) == ppc[p] \notin {"idle", "done"}
Listening(p) == TabOpen(p) /\ ppc[p] # "acquire"
Holding(p) == ppc[p] \notin {"idle", "acquire", "tab", "done"}
Goto(p, from, to) == ppc[p] = from /\ ppc' = [ppc EXCEPT ![p] = to]

CaptureInit ==
  /\ ppc = [p \in Page |-> "idle"] /\ result = [p \in Page |-> "none"]
  /\ intercept = [p \in Page |-> NoInterceptor]
  /\ seen = [i \in Interceptor |-> {}] /\ pendingBodies = seen /\ fetching = seen
  /\ resources = seen /\ remaining = seen /\ event = [e \in Event |-> "none"]
  /\ got = [p \in Page |-> {}] /\ due = [p \in Page |-> {}]
  /\ html = {} /\ discovered = {} /\ routesToCrawl = [p \in Page |-> {}]
  /\ siteWritten = FALSE /\ aggregate = NoPage /\ crawlOver = FALSE

(* Reset empties the interceptor; goroutines that fetch for it go on.        *)
Reset(i) ==
  /\ seen' = [seen EXCEPT ![i] = {}] /\ pendingBodies' = [pendingBodies EXCEPT ![i] = {}]
  /\ resources' = [resources EXCEPT ![i] = {}]
  /\ UNCHANGED <<fetching, remaining, event>>

-----------------------------------------------------------------------------
(* seen is an LRUSet: a URL that is new to a full one takes the place of an    *)
(* old one, of which i.seen then knows nothing.                                *)
Evicted(i) ==
  IF Cardinality(seen[i]) < MaxSeen THEN {{}} ELSE {{u} : u \in seen[i]}

(* The handlers of Start.  onResponse takes the first response of each URL.  *)
onResponse(e) ==
  /\ Listening(e[1]) /\ event[e] = "none" /\ event' = [event EXCEPT ![e] = "response"]
  /\ LET i == intercept[e[1]]
     IN IF e[2] \in seen[i] THEN UNCHANGED <<seen, pendingBodies, due>>
        ELSE \E out \in Evicted(i) :
               /\ seen' = [seen EXCEPT ![i] = (@ \ out) \cup {e[2]}]
               /\ due' = [p \in Page |-> IF intercept[p] = i THEN due[p] \ out ELSE due[p]]
               /\ pendingBodies' = [pendingBodies EXCEPT ![i] = @ \cup {e}]
  /\ UNCHANGED <<ppc, result, intercept, fetching, resources, remaining, got, fvars, crawlOver>>

onLoadingFinished(e) ==
  /\ Listening(e[1]) /\ event[e] = "response" /\ event' = [event EXCEPT ![e] = "finished"]
  /\ LET i == intercept[e[1]]
     IN /\ pendingBodies' = [pendingBodies EXCEPT ![i] = @ \ {e}]
        /\ fetching' = [fetching EXCEPT ![i] = @ \cup ({e} \cap pendingBodies[i])]
  /\ UNCHANGED <<ppc, result, intercept, seen, resources, remaining, gvars, fvars, crawlOver>>

(* fetchWithRetry: three attempts, none once the tab is gone; a body is kept *)
(* while there is room.                                                      *)
Fetched(i, e) ==
  \/ UNCHANGED resources
  \/ /\ TabOpen(e[1]) /\ Cardinality(resources[i]) < MaxResources
     /\ resources' = [resources EXCEPT ![i] = @ \cup {e[2]}]

fetchAndProcess(i, e) ==
  /\ e \in fetching[i] /\ fetching' = [fetching EXCEPT ![i] = @ \ {e}] /\ Fetched(i, e)
  /\ UNCHANGED <<ppc, result, intercept, seen, pendingBodies, remaining, event, gvars, fvars,
                 crawlOver>>

-----------------------------------------------------------------------------
(* doCrawl: tab, scripts, cookies, login, then an interceptor, which it      *)
(* waits for while all are in use.                                           *)
OpenTab(p) ==
  /\ Goto(p, "idle", "acquire")
  /\ UNCHANGED <<result, ivars, gvars, fvars, crawlOver>>

AcquireInterceptor(p) ==
  /\ Goto(p, "acquire", "load")
  /\ \E i \in Interceptor \ {intercept[q] : q \in {x \in Page : Holding(x)}} :
       intercept' = [intercept EXCEPT ![p] = i] /\ Reset(i)
  /\ UNCHANGED <<result, gvars, fvars, crawlOver>>

Return(p, from, res) ==
  /\ Goto(p, from, IF from = "acquire" THEN "done" ELSE "release")
  /\ result' = [result EXCEPT ![p] = res]
  /\ UNCHANGED <<ivars, gvars, fvars, crawlOver>>

AcquireTimesOut(p) == Return(p, "acquire", "error")

(* Navigation fails, or the crawl ends in the pause after a click, which is  *)
(* no error.                                                                 *)
NavigateFails(p) == Return(p, "load", "error")
ClickCancelled(p) == crawlOver /\ Return(p, "load", "ok")

(* Routes shown by the page are claimed under routeMu, those DiscoverRoutes  *)
(* finds as known ones; what no page has claimed before is visited in the    *)
(* same tab.                                                                 *)
DiscoverRoutes(p) ==
  /\ Goto(p, "load", "routes")
  /\ \E known, pushed \in SUBSET Route :
       /\ discovered' = discovered \cup known \cup pushed
       /\ routesToCrawl' = [routesToCrawl EXCEPT ![p] = pushed \ (discovered \cup known)]
  /\ UNCHANGED <<result, ivars, gvars, html, siteWritten, aggregate, crawlOver>>

(* A route fails to load or to be saved, or its HTML is saved; its assets    *)
(* and scripts are AssetStore's.                                             *)
VisitRoute(p, r) ==
  /\ ppc[p] = "routes" /\ r \in routesToCrawl[p] /\ ~crawlOver
  /\ routesToCrawl' = [routesToCrawl EXCEPT ![p] = @ \ {r}]
  /\ html' \in {html, html \cup {r}}
  /\ UNCHANGED <<ppc, result, ivars, gvars, discovered, siteWritten, aggregate, crawlOver>>

(* The seed page writes the site aggregate and then sets the flag; another   *)
(* page claims the flag and then writes.                                     *)
ExtractData(p) ==
  /\ ppc[p] = "routes" /\ (routesToCrawl[p] = {} \/ crawlOver)
  /\ \/ Goto(p, "routes", "capture") /\ UNCHANGED siteWritten
     \/ Goto(p, "routes", "aggregate") /\ p # Seed /\ ~siteWritten /\ siteWritten' = TRUE
     \/ Goto(p, "routes", "aggregate") /\ p = Seed /\ UNCHANGED siteWritten
  /\ UNCHANGED <<result, ivars, gvars, html, discovered, routesToCrawl, aggregate, crawlOver>>

writeSiteAggregate(p) ==
  /\ Goto(p, "aggregate", "capture")
  /\ \/ aggregate' = p /\ siteWritten' = TRUE
     \/ UNCHANGED <<aggregate, siteWritten>>
  /\ UNCHANGED <<result, ivars, gvars, html, discovered, routesToCrawl, crawlOver>>

(* captureCurrentPage: no room in the memory budget before the tab ends, or  *)
(* the HTML cannot be saved.                                                 *)
CaptureFails(p) == Return(p, "capture", "error")

SaveHTML(p) ==
  /\ Goto(p, "capture", "wait") /\ html' = html \cup {p}
  /\ UNCHANGED <<result, ivars, gvars, discovered, routesToCrawl, siteWritten, aggregate, crawlOver>>

(* FetchBodies waits for the goroutines there are ... *)
WaitFetches(p) ==
  /\ Goto(p, "wait", "take") /\ fetching[intercept[p]] = {}
  /\ UNCHANGED <<result, ivars, gvars, fvars, crawlOver>>

(* ... takes the pending responses ... *)
TakePending(p) ==
  /\ Goto(p, "take", "bodies")
  /\ LET i == intercept[p]
     IN /\ remaining' = [remaining EXCEPT ![i] = pendingBodies[i]]
        /\ pendingBodies' = [pendingBodies EXCEPT ![i] = {}]
        /\ due' = [due EXCEPT ![p] = seen[i] \ URLs(fetching[i])]
  /\ UNCHANGED <<result, intercept, seen, fetching, resources, event, got, fvars, crawlOver>>

(* ... and fetches their bodies. *)
FetchRemaining(p, e) ==
  /\ ppc[p] = "bodies" /\ e \in remaining[intercept[p]]
  /\ remaining' = [remaining EXCEPT ![intercept[p]] = @ \ {e}] /\ Fetched(intercept[p], e)
  /\ UNCHANGED <<ppc, result, intercept, seen, pendingBodies, fetching, event, gvars, fvars,
                 crawlOver>>

(* Fault: the bodies are not waited for. *)
SaveResources_Early(p) ==
  /\ Goto(p, "bodies", "missing")
  /\ LET i == intercept[p]
     IN /\ got' = [got EXCEPT ![p] = resources[i]]
        /\ \E rs \in SUBSET URLs(remaining[i]) :
              resources' = [resources EXCEPT ![i] = @ \cup rs]
        /\ remaining' = [remaining EXCEPT ![i] = {}]
  /\ UNCHANGED <<result, intercept, seen, pendingBodies, fetching, event, due, fvars, crawlOver>>

(* The captured resources are saved ... *)
SaveResources(p) ==
  /\ Goto(p, "bodies", "missing") /\ remaining[intercept[p]] = {}
  /\ got' = [got EXCEPT ![p] = resources[intercept[p]]]
  /\ UNCHANGED <<result, ivars, due, fvars, crawlOver>>

(* ... and what has been seen but not captured is asked for over HTTP, if it  *)
(* may be.                                                                    *)
GetMissingResources(i) == seen[i] \ resources[i]

SaveMissing(p) ==
  /\ Goto(p, "missing", "links")
  /\ got' = [got EXCEPT ![p] = @ \cup (GetMissingResources(intercept[p]) \cap Fetchable)]
  /\ UNCHANGED <<result, ivars, due, fvars, crawlOver>>

(* Assets of the HTML, fonts and scripts (AssetStore); links, iframes and    *)
(* media sources to the queue (CrawlEngine); robots and other metadata.      *)
QueueLinks(p) ==
  /\ Goto(p, "links", "close")
  /\ UNCHANGED <<result, ivars, gvars, fvars, crawlOver>>

CloseInterceptor(p) ==
  /\ Goto(p, "close", "release") /\ fetching[intercept[p]] = {}
  /\ result' = [result EXCEPT ![p] = "ok"]
  /\ UNCHANGED <<ivars, gvars, fvars, crawlOver>>

ReleaseInterceptor(p) ==
  /\ Goto(p, "release", "tab") /\ Reset(intercept[p]) /\ UNCHANGED intercept
  /\ UNCHANGED <<result, gvars, fvars, crawlOver>>

(* The tab goes last: it was opened first.                                   *)
CloseTab(p) ==
  /\ Goto(p, "tab", "done")
  /\ UNCHANGED <<result, ivars, gvars, fvars, crawlOver>>

EndCrawl ==
  /\ ~crawlOver /\ crawlOver' = TRUE
  /\ UNCHANGED <<ppc, result, ivars, gvars, fvars>>

CaptureNext ==
  \/ EndCrawl
  \/ \E e \in Event : \/ onResponse(e) \/ onLoadingFinished(e)
                      \/ \E i \in Interceptor : fetchAndProcess(i, e)
  \/ \E p \in Page :
       \/ OpenTab(p) \/ AcquireInterceptor(p) \/ AcquireTimesOut(p) \/ NavigateFails(p)
       \/ ClickCancelled(p) \/ DiscoverRoutes(p) \/ ExtractData(p) \/ writeSiteAggregate(p)
       \/ CaptureFails(p) \/ SaveHTML(p) \/ WaitFetches(p) \/ TakePending(p)
       \/ SaveResources(p) \/ SaveMissing(p) \/ QueueLinks(p) \/ CloseInterceptor(p)
       \/ ReleaseInterceptor(p) \/ CloseTab(p)
       \/ \E r \in Route : VisitRoute(p, r)
       \/ \E e \in Event : FetchRemaining(p, e)

-----------------------------------------------------------------------------
(* Every URL that may be fetched and that the page had loaded when FetchBodies *)
(* took the pending ones, if its body was not just being fetched and no later  *)
(* URL has put it out of seen, is captured or asked for again: its body is not *)
(* in the map by the time the missing ones are listed, and was not when the    *)
(* captured ones were saved.                                                   *)
SeenIsHandled ==
  \A p \in Page : ppc[p] \in {"links", "close"} => due[p] \cap Fetchable \subseteq got[p]

(* "The seed page is the preferred source and always wins" (do_crawl.go:580): *)
(* once the site aggregate holds the seed page's data, it keeps it.  A page   *)
(* that has claimed the flag before may still write after the seed has.       *)
SeedWins == [][aggregate = Seed => aggregate' = Seed]_cvars
=============================================================================
