----------------------------- MODULE MCRunStore ------------------------------
(* RunStore for TLC: the requests are interchangeable. *)
EXTENDS RunStore, TLC

RequestSymmetry == Permutations(Requests)
=============================================================================
