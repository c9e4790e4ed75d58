----------------------------- MODULE MCAdmission -----------------------------
(* Admission for TLC: clients and run IDs are interchangeable. *)
EXTENDS AdmissionInvariant, TLC

AdmissionSymmetry == Permutations(Clients) \cup Permutations(Runs)
=============================================================================
