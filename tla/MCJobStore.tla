----------------------------- MODULE MCJobStore -----------------------------
(* Model values and symmetry for TLC's runs of JobStore.                   *)
EXTENDS JobStore, TLC

Symmetry == Permutations(Jobs) \cup Permutations(Workers)
=============================================================================
