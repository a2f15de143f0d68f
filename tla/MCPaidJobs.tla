----------------------------- MODULE MCPaidJobs -----------------------------
(* Model values and small constants for PaidJobs *)
EXTENDS PaidJobs, TLC

CONSTANTS j1, u1, x1

MCOwner == j1 :> u1
MCCost == j1 :> 2

Symmetry == Permutations(Workers) \cup Permutations(Slots)
=============================================================================
