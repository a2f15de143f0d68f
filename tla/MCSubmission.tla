---------------------------- MODULE MCSubmission ----------------------------
(* Model values and small constants for History and JobSubmission *)
EXTENDS History, TLC

CONSTANTS c1, c2, k1

MCCallers == {c1, c2}
MCKeys == {k1}
MCJobIds == 1..3

Symmetry == Permutations(MCCallers)
=============================================================================
