--------------------------- MODULE MCJobLifecycle ---------------------------
(* Model values and small constants for JobLifecycle *)
EXTENDS JobLifecycle, TLC

Symmetry == Permutations(Jobs) \cup Permutations(Workers) \cup Permutations(Slots)
=============================================================================
