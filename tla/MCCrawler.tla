------------------------------ MODULE MCCrawler ------------------------------
(* An instance of Crawler for TLC.                                         *)
EXTENDS Crawler, TLC

CONSTANTS p1, p2, c1, c2, i1

(* One place in the sem of each worker.                                    *)
NarrowSem == ("page" :> 1) @@ ("chapter" :> 1) @@ ("image" :> 1)
=============================================================================
