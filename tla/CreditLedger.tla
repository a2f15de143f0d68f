---------------------------- MODULE CreditLedger ----------------------------
(***************************************************************************)
(* The credit balances of aimg and the journal credit_transactions.        *)
(*                                                                         *)
(* PostgreSQL is at its default isolation, READ COMMITTED: a transaction   *)
(* is a BEGIN, which fixes now() for every row it will insert, reads of    *)
(* committed rows, then an UPDATE of the user's row.  The row lock that    *)
(* UPDATE takes is held until COMMIT and no later statement of any of      *)
(* these transactions can block, so UPDATE .. COMMIT is one step.          *)
(*                                                                         *)
(* The journal is kept as the answers the code asks of it: sums of amounts *)
(* per user, per job and reason, the number of rows per external           *)
(* transaction id, and the newest row by created_at.                       *)
(***************************************************************************)
EXTENDS Integers

CONSTANTS
    Users,      \* rows of users: one per (integration, external user id)
    Jobs,       \* ids of the jobs that may be created
    Txns,       \* external transaction ids of top-up requests
    Sessions,   \* database sessions of API requests, worker tasks and admins
    Owner,      \* [Jobs -> Users]: the user a job is submitted for
    Cost,       \* [Jobs -> Nat]: credit_cost of the job's type
    Grants,     \* values default_free_credits may have when a user first appears
    Amounts,    \* amounts of top-ups and admin adjustments
    MaxClock    \* bound: how many transactions are begun

Kinds == {"free", "paid"}

ASSUME OwnerAssumption  == Owner \in [Jobs -> Users]
ASSUME CostAssumption   == Cost \in [Jobs -> Nat]
ASSUME GrantAssumption  == Grants \subseteq Nat
ASSUME AmountAssumption == Amounts \subseteq Int
ASSUME ClockAssumption  == MaxClock \in Nat

VARIABLES
    known,      \* users whose row exists
    balance,    \* free_credits and paid_credits of a user
    granted,    \* free credits a user's row was inserted with
    created,    \* jobs whose row is committed
    failed,     \* jobs whose status _fail_job has set to 'failed'
    posted,     \* SUM(amount) over a user's rows, per credit_type
    charged,    \* -SUM(amount) over a job's 'job_charge' rows
    refunded,   \* SUM(amount) over a job's 'refund' rows
    credited,   \* number of a user's rows with an external transaction id
    latest,     \* newest row per user and kind: created_at and balance_after
    clock,      \* now() of the last transaction begun
    tx          \* the transaction a session has open

rows == <<posted, charged, refunded, credited, latest>>
vars == <<known, balance, granted, created, failed, rows, clock, tx>>

Credits == [Kinds -> Nat]
None == [k \in Kinds |-> 0]
Only(kind, amount) == [k \in Kinds |-> IF k = kind THEN amount ELSE 0]
Plus(b, d)  == [k \in Kinds |-> b[k] + d[k]]
Minus(b, d) == [k \in Kinds |-> b[k] - d[k]]

Idle == [op |-> "idle"]
Transactions ==
         {Idle}
    \cup [op: {"reserve"}, job: Jobs, at: Nat]
    \cup [op: {"charge"}, job: Jobs, at: Nat, read: Credits]
    \cup [op: {"refund"}, job: Jobs, at: Nat]
    \cup [op: {"topup"}, user: Users, txn: Txns, amount: {a \in Amounts : a > 0},
           at: Nat]
    \cup [op: {"adjust"}, user: Users, kind: Kinds, amount: Amounts, at: Nat]

\* Types: balances are integers (the columns could go below zero), what is
\* journalled and what a transaction holds are as users, jobs and kinds have it.
TypeOK ==
    /\ known \subseteq Users
    /\ balance \in [Users -> [Kinds -> Int]]
    /\ granted \in [Users -> Credits]
    /\ created \subseteq Jobs
    /\ failed \subseteq Jobs
    /\ posted \in [Users -> [Kinds -> Int]]
    /\ charged \in [Jobs -> Credits]
    /\ refunded \in [Jobs -> Credits]
    /\ credited \in [Users -> [Txns -> Nat]]
    /\ latest \in [Users -> [Kinds -> [at: Nat, after: Int]]]
    /\ clock \in Nat
    /\ tx \in [Sessions -> Transactions]

Init ==
    /\ known = {}
    /\ balance = [u \in Users |-> None]
    /\ granted = [u \in Users |-> None]
    /\ created = {}
    /\ failed = {}
    /\ posted = [u \in Users |-> None]
    /\ charged = [j \in Jobs |-> None]
    /\ refunded = [j \in Jobs |-> None]
    /\ credited = [u \in Users |-> [x \in Txns |-> 0]]
    /\ latest = [u \in Users |-> [k \in Kinds |-> [at |-> 0, after |-> 0]]]
    /\ clock = 0
    /\ tx = [s \in Sessions |-> Idle]

-----------------------------------------------------------------------------
(* What the statements of a transaction compute *)

MutSplitNoRemainder(b, cost) ==
    [free |-> IF cost <= b["free"] THEN cost ELSE b["free"], paid |-> 0]

MutSplitNoMin(b, cost) == [free |-> b["free"], paid |-> cost - b["free"]]

MutSplitPaidFirst(b, cost) ==
    LET paid == IF cost <= b["paid"] THEN cost ELSE b["paid"]
    IN  [free |-> cost - paid, paid |-> paid]

\* calculate_credit_split: free credits first, paid ones for the rest.
Split(b, cost) ==
    LET free == IF cost <= b["free"] THEN cost ELSE b["free"]
    IN  [free |-> free, paid |-> cost - free]

Affordable(b, cost) == b["free"] + b["paid"] >= cost

MutUpdateAllowed(u, delta) == TRUE

\* The WHERE clause of UserRepo.update_credits, on the committed row.
UpdateAllowed(u, delta) == \A k \in Kinds : balance[u][k] + delta[k] >= 0

MutRefundAllFree(j) == Only("free", charged[j]["free"] + charged[j]["paid"])

\* refund_credits adds up the job's charges by kind.
RefundOf(j) == charged[j]

MutTxnUnused(u, x) == TRUE

\* The unique index on (user_id, external_transaction_id).
TxnUnused(u, x) == credited[u][x] = 0

\* INSERT INTO credit_transactions: one row per kind with an amount.
Post(u, amount, after, at) ==
    /\ posted' = [posted EXCEPT ![u] = Plus(@, amount)]
    /\ latest' = [latest EXCEPT ![u] = [k \in Kinds |->
                    IF amount[k] # 0 /\ at >= @[k].at
                    THEN [at |-> at, after |-> after[k]]
                    ELSE @[k]]]

Begin(s, t) ==
    /\ tx[s] = Idle
    /\ clock < MaxClock
    /\ clock' = clock + 1
    /\ tx' = [tx EXCEPT ![s] = t]

Close(s) == tx' = [tx EXCEPT ![s] = Idle]

-----------------------------------------------------------------------------
(* Users *)

\* UserRepo.get_or_create, run by every request and by topup: INSERT .. ON
\* CONFLICT changes nothing when the row is there.  The grant has no journal row.
GetOrCreate(u) ==
    /\ u \notin known
    /\ known' = known \cup {u}
    /\ \E g \in Grants :
        /\ balance' = [balance EXCEPT ![u] = Only("free", g)]
        /\ granted' = [granted EXCEPT ![u] = Only("free", g)]
    /\ UNCHANGED <<created, failed, rows, clock, tx>>

-----------------------------------------------------------------------------
(* create_job: INSERT INTO jobs and reserve_credits in one transaction *)

BeginReserve(s, j) ==
    /\ j \notin created
    /\ \A q \in Sessions : ~ (tx[q].op \in {"reserve", "charge"} /\ tx[q].job = j)
    /\ Owner[j] \in known
    /\ Begin(s, [op |-> "reserve", job |-> j, at |-> clock + 1])
    /\ UNCHANGED <<known, balance, granted, created, failed, rows>>

\* reserve_credits reads the user's row without locking it.
ReadUser(s) ==
    /\ tx[s].op = "reserve"
    /\ LET j == tx[s].job
           b == balance[Owner[j]]
       IN  /\ Affordable(b, Cost[j])
           /\ tx' = [tx EXCEPT ![s] = [op |-> "charge", job |-> j,
                                       at |-> tx[s].at, read |-> b]]
    /\ UNCHANGED <<known, balance, granted, created, failed, rows, clock>>

\* calculate_credit_split raises ValueError: the job's row is rolled back too.
RefuseReserve(s) ==
    /\ tx[s].op = "reserve"
    /\ ~ Affordable(balance[Owner[tx[s].job]], Cost[tx[s].job])
    /\ Close(s)
    /\ UNCHANGED <<known, balance, granted, created, failed, rows, clock>>

MutChargeFromSnapshot(s) ==
    /\ tx[s].op = "charge"
    /\ LET j == tx[s].job
           u == Owner[j]
           d == Split(tx[s].read, Cost[j])
           after == Minus(tx[s].read, d)
       IN  /\ UpdateAllowed(u, Minus(None, d))
           /\ balance' = [balance EXCEPT ![u] = after]
           /\ charged' = [charged EXCEPT ![j] = d]
           /\ Post(u, Minus(None, d), after, tx[s].at)
           /\ created' = created \cup {j}
    /\ Close(s)
    /\ UNCHANGED <<known, granted, failed, refunded, credited, clock>>

\* The split and balance_after come from the row as read; the UPDATE applies
\* to the row as committed by now.
Charge(s) ==
    /\ tx[s].op = "charge"
    /\ LET j == tx[s].job
           u == Owner[j]
           d == Split(tx[s].read, Cost[j])
       IN  /\ UpdateAllowed(u, Minus(None, d))
           /\ balance' = [balance EXCEPT ![u] = Minus(@, d)]
           /\ charged' = [charged EXCEPT ![j] = d]
           /\ Post(u, Minus(None, d), Minus(tx[s].read, d), tx[s].at)
           /\ created' = created \cup {j}
    /\ Close(s)
    /\ UNCHANGED <<known, granted, failed, refunded, credited, clock>>

\* "Concurrent credit update failed": the transaction is rolled back.
LoseRace(s) ==
    /\ tx[s].op = "charge"
    /\ ~ UpdateAllowed(Owner[tx[s].job],
                       Minus(None, Split(tx[s].read, Cost[tx[s].job])))
    /\ Close(s)
    /\ UNCHANGED <<known, balance, granted, created, failed, rows, clock>>

-----------------------------------------------------------------------------
(* _fail_job: refund_credits and status 'failed' in one transaction.       *)
(* Any task or janitor may run it for any job, and may run it again: it    *)
(* looks at the job's charges only.                                        *)

BeginRefund(s, j) ==
    /\ j \in created
    /\ Begin(s, [op |-> "refund", job |-> j, at |-> clock + 1])
    /\ UNCHANGED <<known, balance, granted, created, failed, rows>>

\* The update is an increase of balances that are never negative, so its
\* WHERE clause holds; balance_after is read back after it.
Refund(s) ==
    /\ tx[s].op = "refund"
    /\ LET j == tx[s].job
           u == Owner[j]
           d == RefundOf(j)
       IN  /\ balance' = [balance EXCEPT ![u] = Plus(@, d)]
           /\ refunded' = [refunded EXCEPT ![j] = Plus(@, d)]
           /\ Post(u, d, Plus(balance[u], d), tx[s].at)
           /\ failed' = failed \cup {j}
    /\ Close(s)
    /\ UNCHANGED <<known, granted, created, charged, credited, clock>>

-----------------------------------------------------------------------------
(* POST /v1/billing/topup *)

\* The amount is positive, and no committed row has the transaction id.
BeginTopup(s, u, x, a) ==
    /\ a > 0
    /\ u \in known
    /\ credited[u][x] = 0
    /\ Begin(s, [op |-> "topup", user |-> u, txn |-> x, amount |-> a,
                 at |-> clock + 1])
    /\ UNCHANGED <<known, balance, granted, created, failed, rows>>

Topup(s) ==
    /\ tx[s].op = "topup"
    /\ LET u == tx[s].user
           x == tx[s].txn
           d == Only("paid", tx[s].amount)
       IN  /\ TxnUnused(u, x)
           /\ balance' = [balance EXCEPT ![u] = Plus(@, d)]
           /\ credited' = [credited EXCEPT ![u][x] = @ + 1]
           /\ Post(u, d, Plus(balance[u], d), tx[s].at)
    /\ Close(s)
    /\ UNCHANGED <<known, granted, created, failed, charged, refunded, clock>>

\* Another request with the same id has committed since: unique violation.
RepeatTopup(s) ==
    /\ tx[s].op = "topup"
    /\ ~ TxnUnused(tx[s].user, tx[s].txn)
    /\ Close(s)
    /\ UNCHANGED <<known, balance, granted, created, failed, rows, clock>>

-----------------------------------------------------------------------------
(* The admin panel's credit adjustment *)

BeginAdjust(s, u, k, a) ==
    /\ a # 0
    /\ u \in known
    /\ Begin(s, [op |-> "adjust", user |-> u, kind |-> k, amount |-> a,
                 at |-> clock + 1])
    /\ UNCHANGED <<known, balance, granted, created, failed, rows>>

Adjust(s) ==
    /\ tx[s].op = "adjust"
    /\ LET u == tx[s].user
           d == Only(tx[s].kind, tx[s].amount)
       IN  /\ UpdateAllowed(u, d)
           /\ balance' = [balance EXCEPT ![u] = Plus(@, d)]
           /\ Post(u, d, Plus(balance[u], d), tx[s].at)
    /\ Close(s)
    /\ UNCHANGED <<known, granted, created, failed, charged, refunded, credited,
                   clock>>

\* "Insufficient credits for negative adjustment".
RefuseAdjust(s) ==
    /\ tx[s].op = "adjust"
    /\ ~ UpdateAllowed(tx[s].user, Only(tx[s].kind, tx[s].amount))
    /\ Close(s)
    /\ UNCHANGED <<known, balance, granted, created, failed, rows, clock>>

-----------------------------------------------------------------------------
\* A lost connection or a dead process: PostgreSQL rolls back.
Abort(s) ==
    /\ tx[s] # Idle
    /\ Close(s)
    /\ UNCHANGED <<known, balance, granted, created, failed, rows, clock>>

Next ==
    \/ \E u \in Users : GetOrCreate(u)
    \/ \E s \in Sessions :
        \/ \E j \in Jobs : BeginReserve(s, j) \/ BeginRefund(s, j)
        \/ ReadUser(s) \/ RefuseReserve(s) \/ Charge(s) \/ LoseRace(s)
        \/ Refund(s)
        \/ \E u \in Users, x \in Txns, a \in Amounts : BeginTopup(s, u, x, a)
        \/ Topup(s) \/ RepeatTopup(s)
        \/ \E u \in Users, k \in Kinds, a \in Amounts : BeginAdjust(s, u, k, a)
        \/ Adjust(s) \/ RefuseAdjust(s)
        \/ Abort(s)

Spec == Init /\ [][Next]_vars

-----------------------------------------------------------------------------
(* Properties *)

\* No interleaving of reservations, refunds, top-ups and adjustments takes a
\* balance below zero, although reserve_credits splits the cost by a row that
\* may be out of date when its UPDATE runs.
NonNegative == \A u \in Users, k \in Kinds : balance[u][k] >= 0

Explained(u) == balance[u] = Plus(granted[u], posted[u])

\* The cached balance of a user is what the row was inserted with plus the sum
\* of the journal: no update is lost and none is made without its row.
LedgerExplainsBalance == \A u \in Users : Explained(u)

\* A job's row is committed if and only if the whole of its cost is charged.
ChargedInFull ==
    \A j \in Jobs :
        charged[j]["free"] + charged[j]["paid"] = IF j \in created THEN Cost[j] ELSE 0

\* A failed job has given back everything it took, and each refund returns
\* credits of the kind that was charged (free ones never come back as paid).
FailedAreRefunded ==
    \A j \in Jobs, k \in Kinds :
        /\ j \in failed => refunded[j][k] >= charged[j][k]
        /\ refunded[j][k] > 0 => charged[j][k] > 0

\* However often a top-up is sent, one row at most carries its transaction id.
TopupCountsOnce == \A u \in Users, x \in Txns : credited[u][x] <= 1

\* Paid credits are charged only when no free ones are left.
FreeSpentFirst ==
    [][\A j \in created' \ created :
          charged'[j]["paid"] > 0 => balance'[Owner[j]]["free"] = 0]_vars
=============================================================================
