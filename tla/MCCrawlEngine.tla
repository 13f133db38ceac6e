---------------------------- MODULE MCCrawlEngine ----------------------------
(***************************************************************************)
(* Small sites on which CrawlEngine is model-checked.                      *)
(***************************************************************************)
EXTENDS CrawlEngine, TLC

CONSTANTS p1, p2, p3, p4, a1, a2, h1, h2, h3

(* Pair: one page that links to a second one, which links back. *)
PairURL == {p1, p2}
PairHost == [u \in PairURL |-> h1]
PairLinks == (p1 :> {p2}) @@ (p2 :> {p1})

(* Triangle: the seed p1 links to two pages; p2 also links to p3 and to the *)
(* asset a1, to which p3 links too: links found by two pages at once, and   *)
(* at two depths.                                                           *)
TriangleURL == {p1, p2, p3, a1}
TriangleHost == [u \in TriangleURL |-> h1]
TriangleLinks == (p1 :> {p2, p3}) @@ (p2 :> {p3, a1}) @@ (p3 :> {a1}) @@ (a1 :> {})

(* Crowd: three hosts, all of whose pages and assets are seeds: the         *)
(* frontier holds more than any limit lets through.                         *)
CrowdURL == {p1, p2, p3, p4, a1, a2}
CrowdHost == (p1 :> h1) @@ (p2 :> h1) @@ (a1 :> h1) @@ (p3 :> h2) @@ (p4 :> h2) @@ (a2 :> h3)
CrowdLinks == [u \in CrowdURL |-> {}]
CrowdSymmetry == Permutations({p1, p2}) \cup Permutations({p3, p4})
=============================================================================
