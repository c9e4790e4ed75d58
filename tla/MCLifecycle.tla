----------------------------- MODULE MCLifecycle -----------------------------
(* Lifecycle on small instances.  Pods are interchangeable: nothing but      *)
(* equality is ever asked of them.                                          *)
EXTENDS LifecycleInvariant, TLC

PodSymmetry == Permutations(Pods)
=============================================================================
