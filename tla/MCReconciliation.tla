-------------------------- MODULE MCReconciliation --------------------------
(* The values of MCCreditLedger, with the script running beside the ledger *)
EXTENDS MCCreditLedger, Reconciliation
=============================================================================
