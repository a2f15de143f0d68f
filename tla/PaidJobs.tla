------------------------------ MODULE PaidJobs ------------------------------
(***************************************************************************)
(* The life of jobs and the credits they cost, together: what the API and  *)
(* the workers commit to a job's row they commit with its credits.  The    *)
(* credits are those of CreditAccounts, which the transactions of the      *)
(* ledger implement.                                                       *)
(***************************************************************************)
EXTENDS JobLifecycle, Integers

CONSTANTS
    Users,      \* rows of users
    Txns,       \* external transaction ids of top-ups
    Owner,      \* [Jobs -> Users]
    Cost,       \* [Jobs -> Nat]
    Grants,     \* free credits of a new user
    Amounts,    \* amounts of top-ups and adjustments
    MaxCredits  \* bound: credits of a kind, those held by a job included

ASSUME OwnerAssumption == Owner \in [Jobs -> Users]
ASSUME CostAssumption == Cost \in [Jobs -> Nat]

VARIABLES opened, balance, posted, created, charged, refunded, credited, corrected

Accounts == INSTANCE CreditAccounts

credits == <<opened, balance, posted, created, charged, refunded, credited, corrected>>
paidVars == <<vars, credits>>

PaidInit == Init /\ Accounts!Init

Submitted(j) == status[j] = "none" /\ status'[j] # "none"
GivenBack(j) == refunds'[j] # refunds[j]

MutSettle ==
    \/ \E j \in Jobs : Submitted(j) /\ Accounts!Charge(j)
    \/ \E j \in Jobs : GivenBack(j) /\ status[j] # "pending" /\ Accounts!Refund(j)
    \/ /\ \A j \in Jobs : ~ Submitted(j) /\ (GivenBack(j) => status[j] = "pending")
       /\ UNCHANGED credits

\* create_job inserts the row and reserves the credits in one transaction,
\* _fail_job sets the status and refunds them in one; no other step of requests,
\* queue and workers touches credits.
Settle ==
    \/ \E j \in Jobs : Submitted(j) /\ Accounts!Charge(j)
    \/ \E j \in Jobs : GivenBack(j) /\ Accounts!Refund(j)
    \/ /\ \A j \in Jobs : ~ Submitted(j) /\ ~ GivenBack(j)
       /\ UNCHANGED credits

Net(j, k) == charged[j][k] - refunded[j][k]

\* Requests that create users, top-ups and the admin panel's adjustments.
Elsewhere ==
    /\ \E u \in Users :
        /\ Accounts!Open(u) \/ Accounts!Adjust(u) \/ \E x \in Txns : Accounts!TopUp(u, x)
        /\ \A j \in Jobs, k \in Accounts!Kinds : balance'[u][k] + Net(j, k) <= MaxCredits
    /\ UNCHANGED vars

PaidNext == (Next /\ Settle) \/ Elsewhere

PaidSpec == PaidInit /\ [][PaidNext]_paidVars

-----------------------------------------------------------------------------
\* An undisputed job costs its price from its creation on unless it fails, and
\* then nothing, in no kind of credits: whatever tasks, janitors, crashes and
\* restarts come between, and whatever else happens to the user's balance.
PriceIsKept ==
    \A j \in Jobs : Undisputed(j) =>
        /\ status[j] = "failed" => \A k \in Accounts!Kinds : Net(j, k) = 0
        /\ Net(j, "free") + Net(j, "paid") =
              IF status[j] \in {"none", "failed"} THEN 0 ELSE Cost[j]
=============================================================================
