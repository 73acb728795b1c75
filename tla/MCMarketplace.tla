--------------------------- MODULE MCMarketplace ---------------------------
(* Instances of Marketplace for TLC.                                       *)
EXTENDS Marketplace, TLC

\* No request, price or report is told from another.
Interchangeable == Permutations(Request) \cup Permutations(Price) \cup Permutations(Report)
=============================================================================
