----------------------------- MODULE MCSessions -----------------------------
(* Instances of Sessions for TLC.                                          *)
EXTENDS Sessions, TLC

\* Row ids and requests are interchangeable.
Interchangeable == Permutations(Token) \cup Permutations(Request)
=============================================================================
