--------------------------- MODULE Reconciliation ---------------------------
(***************************************************************************)
(* aimg reconcile-balances, run beside the transactions of CreditLedger.   *)
(*                                                                         *)
(* The script reads all users, then the newest journal row of every user   *)
(* and kind, then rewrites the users whose balances differ, one autocommit *)
(* statement each.  Newest means by created_at, which is the time at which *)
(* the row's transaction began; the balance_after of that row is what the  *)
(* script believes, whatever was committed before or since.                *)
(***************************************************************************)
EXTENDS CreditLedger

VARIABLES
    script,     \* what the script has read and what it still has to write
    rewritten,  \* users whose balances the script has written
    crowded     \* users a transaction of theirs overlapped another, or the script

scriptVars == <<script, rewritten, crowded>>
reconcileVars == <<vars, scriptVars>>

Off == [at |-> "off"]

\* Balances of some users, as the script holds them.
Table(f) == DOMAIN f \subseteq Users /\ \A u \in DOMAIN f : f[u] \in Credits

\* Types of what the script has read and has to write: balances of users that
\* are never negative.
ScriptTypeOK ==
    /\ script.at \in {"off", "users", "writes"}
    /\ script.at = "off" => script = Off
    /\ script.at = "users" =>
          script = [at |-> "users", seen |-> script.seen] /\ Table(script.seen)
    /\ script.at = "writes" =>
          script = [at |-> "writes", todo |-> script.todo] /\ Table(script.todo)
    /\ rewritten \subseteq Users
    /\ crowded \subseteq Users

\* The tables, the open transactions and what the script holds have their types,
\* also when the script has rewritten balances under a transaction.
ReconcileTypeOK == TypeOK /\ ScriptTypeOK

ReconcileInit ==
    /\ Init
    /\ script = Off
    /\ rewritten = {}
    /\ crowded = {}

-----------------------------------------------------------------------------

UserOf(t) == IF t.op \in {"topup", "adjust"} THEN t.user ELSE Owner[t.job]

\* The users with a transaction open.
Busy == {UserOf(tx[s]) : s \in {q \in Sessions : tx[q] # Idle}}

\* A step of the ledger, with what it makes overlap.
LedgerStep ==
    /\ Next
    /\ crowded' = crowded \cup
         {UserOf(tx'[s]) : s \in {q \in Sessions :
              /\ tx[q] = Idle
              /\ tx'[q] # Idle
              /\ script # Off \/ UserOf(tx'[q]) \in Busy}}
    /\ UNCHANGED <<script, rewritten>>

\* UserRepo.list_all
ReadUsers ==
    /\ script = Off
    /\ script' = [at |-> "users", seen |-> [u \in known |-> balance[u]]]
    /\ crowded' = crowded \cup Busy
    /\ UNCHANGED <<vars, rewritten>>

MutExpected(u, seen) == [k \in Kinds |-> posted[u][k]]

\* The newest rows' balance_after; a kind without a row is taken as it is.
Expected(u, seen) ==
    [k \in Kinds |-> IF latest[u][k].at = 0 THEN seen[k] ELSE latest[u][k].after]

\* CreditTransactionRepo.get_latest_balances, and the comparison.
ReadJournal ==
    /\ script.at = "users"
    /\ LET seen == script.seen
           wrong == {u \in DOMAIN seen : Expected(u, seen[u]) # seen[u]}
       IN  script' = IF wrong = {}
                     THEN Off
                     ELSE [at |-> "writes",
                           todo |-> [u \in wrong |-> Expected(u, seen[u])]]
    /\ UNCHANGED <<vars, rewritten, crowded>>

\* UserRepo.force_set_credits, in the order list_all happened to return.
Rewrite(u) ==
    /\ script.at = "writes"
    /\ u \in DOMAIN script.todo
    /\ balance' = [balance EXCEPT ![u] = script.todo[u]]
    /\ rewritten' = rewritten \cup {u}
    /\ LET rest == DOMAIN script.todo \ {u}
       IN  script' = IF rest = {}
                     THEN Off
                     ELSE [at |-> "writes", todo |-> [v \in rest |-> script.todo[v]]]
    /\ UNCHANGED <<known, granted, created, failed, rows, clock, tx, crowded>>

\* The operator interrupts the script, or an error ends it.
Interrupt ==
    /\ script # Off
    /\ script' = Off
    /\ UNCHANGED <<vars, rewritten, crowded>>

ReconcileNext ==
    \/ LedgerStep
    \/ ReadUsers
    \/ ReadJournal
    \/ \E u \in Users : Rewrite(u)
    \/ Interrupt

ReconcileSpec == ReconcileInit /\ [][ReconcileNext]_reconcileVars

-----------------------------------------------------------------------------
(* Properties *)

\* The script writes no balance while transactions do not overlap: of a user
\* whose transactions came one after the other, and not during the script, the
\* newest row by created_at carries the balance.
RewritesFollowOverlaps == rewritten \subseteq crowded

\* The users the script has not written keep a balance that is their grant plus
\* the sum of the journal, also while the script runs.
OthersStayExplained == \A u \in Users \ rewritten : Explained(u)

\* A user whose transactions came one after the other, and not during the
\* script, is charged as the rules say: paid credits only when no free ones are
\* left, and "Concurrent credit update failed" is for the others.
ChargedInOrderAlone ==
    [][/\ \A j \in created' \ created :
              Owner[j] \notin crowded /\ charged'[j]["paid"] > 0 =>
                 balance'[Owner[j]]["free"] = 0
       /\ \A s \in Sessions : LoseRace(s) => UserOf(tx[s]) \in crowded]_reconcileVars

-----------------------------------------------------------------------------
(* Refinement *)

Accounts == INSTANCE CreditAccounts WITH opened <- known, corrected <- rewritten

\* Transactions that begin, read and wait are not seen: what has committed is a
\* sequence of whole operations, each on the balance as it is by then and with
\* its journal rows, and the corrections of the script between them.
OperationsAreAtomic == Accounts!Spec
=============================================================================
