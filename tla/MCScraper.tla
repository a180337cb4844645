----------------------------- MODULE MCScraper -----------------------------
(* Values of the constants of Scraper for TLC.                             *)
EXTENDS Scraper, TLC

CONSTANTS w1, w2, k1, k2

\* One keyword that finds everything.
MCOneHits == (k1 :> Items)

\* Two keywords, one of which finds everything.
MCFirstHits == (k1 :> Items) @@ (k2 :> {})

\* Every kind of failure.
MCAllFaults == FaultKinds
============================================================================
