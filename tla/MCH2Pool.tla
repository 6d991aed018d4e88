------------------------------ MODULE MCH2Pool ------------------------------
(* Instances of H2Pool for TLC: the callers of request() are symmetric. *)
EXTENDS H2Pool, TLC

Callers == Permutations(Requests)
=============================================================================
