--------------------------- MODULE MCCreditLedger ---------------------------
(* Model values and small constants for CreditLedger *)
EXTENDS CreditLedger, TLC

CONSTANTS u1, j1, j2, x1, s1, s2

MCUsers == {u1}
MCJobs == {j1, j2}
MCTxns == {x1}
MCSessions == {s1, s2}
MCOwner == j1 :> u1 @@ j2 :> u1
MCCost == j1 :> 2 @@ j2 :> 1
MCGrants == {1, 2}
MCAmounts == {-1, 1}

Symmetry == Permutations(MCSessions)
=============================================================================
