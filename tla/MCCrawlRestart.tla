--------------------------- MODULE MCCrawlRestart ---------------------------
(***************************************************************************)
(* The small site on which CrawlRestart is model-checked.                  *)
(***************************************************************************)
EXTENDS CrawlRestart, TLC

CONSTANTS p1, p2, h1

(* Pair: one page that links to a second one, which links back. *)
PairURL == {p1, p2}
PairHost == [u \in PairURL |-> h1]
PairLinks == (p1 :> {p2}) @@ (p2 :> {p1})
=============================================================================
