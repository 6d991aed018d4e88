--------------------------- MODULE MCH2Connection ---------------------------
(* Instances of H2Connection for TLC.  Callers of request() are             *)
(* interchangeable: they differ in nothing but their name.                  *)
EXTENDS H2Connection, TLC

Callers == Permutations(Requests)
=============================================================================
