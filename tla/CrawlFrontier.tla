---------------------------- MODULE CrawlFrontier ----------------------------
(***************************************************************************)
(* What the crawl frontier promises, whatever the number of pages crawled  *)
(* at once.  Every URL goes once, in this order, through the stages        *)
(*                                                                         *)
(*     "new" -> "queued" -> "taken" -> "settled"                           *)
(*                                                                         *)
(* It is queued when a page that is being crawled links to it (or as a     *)
(* seed), one level deeper than that page; it is taken when no queued URL  *)
(* is shallower; it is settled when its crawl is over, for good or bad.    *)
(* CrawlEngine is shown to implement this specification.                   *)
(***************************************************************************)
EXTENDS Naturals

CONSTANTS URL,     \* the URLs of the crawled sites, normalised
          Seeds    \* the URLs the crawl may start from (seeds and sitemap entries)

VARIABLES stage,   \* stage[u]: how far URL u has come
          depth    \* depth[u]: the depth u was queued at, 0 before that

fvars == <<stage, depth>>

Stage == {"new", "queued", "taken", "settled"}

FrontierTypeOK == /\ stage \in [URL -> Stage]
                  /\ depth \in [URL -> Nat]

FrontierInit == /\ stage = [u \in URL |-> "new"]
                /\ depth = [u \in URL |-> 0]

(* The seeds enter the frontier together, at depth 0, before anything else. *)
Plant(S) == /\ S \subseteq Seeds
            /\ \A u \in URL : stage[u] = "new"
            /\ stage' = [u \in URL |-> IF u \in S THEN "queued" ELSE "new"]
            /\ UNCHANGED depth

(* Page p, being crawled, links to u, never seen before. *)
Discover(p, u) == /\ stage[p] = "taken"
                  /\ stage[u] = "new"
                  /\ stage' = [stage EXCEPT ![u] = "queued"]
                  /\ depth' = [depth EXCEPT ![u] = depth[p] + 1]

(* The dispatcher takes one of the shallowest queued URLs. *)
Take(u) == /\ stage[u] = "queued"
           /\ \A v \in URL : stage[v] = "queued" => depth[u] <= depth[v]
           /\ stage' = [stage EXCEPT ![u] = "taken"]
           /\ UNCHANGED depth

Settle(u) == /\ stage[u] = "taken"
             /\ stage' = [stage EXCEPT ![u] = "settled"]
             /\ UNCHANGED depth

FrontierNext == \/ \E S \in SUBSET Seeds : Plant(S)
                \/ \E p, u \in URL : Discover(p, u)
                \/ \E u \in URL : Take(u) \/ Settle(u)

FrontierSpec == FrontierInit /\ [][FrontierNext]_fvars
=============================================================================
