------------------------- MODULE CreditLedgerProofs -------------------------
(***************************************************************************)
(* Proofs about CreditLedger, for any number of users, jobs and sessions,  *)
(* any costs, grants and amounts, and any bound on the transactions.       *)
(***************************************************************************)
EXTENDS CreditLedger, TLAPS

Safe == TypeOK /\ NonNegative

-----------------------------------------------------------------------------
(* What the arithmetic on pairs of credits returns *)

\* A split takes nothing negative and the whole cost.
LEMMA SplitFacts ==
    ASSUME NEW b \in Credits, NEW c \in Nat
    PROVE  /\ Split(b, c) \in Credits
           /\ Split(b, c)["free"] + Split(b, c)["paid"] = c
<1> DEFINE f == IF c <= b["free"] THEN c ELSE b["free"]
<1>1. b["free"] \in Nat
  BY DEF Credits, Kinds
<1>2. f \in Nat /\ c - f \in Nat /\ f + (c - f) = c
  BY <1>1
<1>3. Split(b, c) = [free |-> f, paid |-> c - f]
  BY DEF Split
<1>4. /\ Split(b, c)["free"] = f
      /\ Split(b, c)["paid"] = c - f
      /\ Split(b, c) = [k \in Kinds |-> IF k = "free" THEN f ELSE c - f]
  BY <1>3 DEF Kinds
<1> QED
  BY <1>2, <1>4 DEF Credits, Kinds

\* Sums and differences of credits, and one kind's amount, as functions.
LEMMA PairFacts ==
    ASSUME NEW b \in [Kinds -> Int], NEW d \in [Kinds -> Int],
           NEW k \in Kinds, NEW a \in Int
    PROVE  /\ Plus(b, d) \in [Kinds -> Int]
           /\ Plus(b, d)[k] = b[k] + d[k]
           /\ Minus(b, d) \in [Kinds -> Int]
           /\ Minus(b, d)[k] = b[k] - d[k]
           /\ None \in Credits
           /\ None[k] = 0
           /\ Only(k, a) \in [Kinds -> Int]
           /\ \A q \in Kinds : Only(k, a)[q] = IF q = k THEN a ELSE 0
  BY DEF Plus, Minus, None, Only, Credits

-----------------------------------------------------------------------------
(* Types, and balances that are never negative.  The two are proved as one: *)
(* a snapshot holds two naturals because no committed balance is negative.  *)

\* Nobody has any credits at first.
LEMMA InitSafe == Init => Safe
  BY OwnerAssumption DEF Init, Safe, TypeOK, NonNegative, Transactions, Idle,
     None, Credits, Kinds

\* A row inserted with amounts d keeps the sums and the newest row well typed.
LEMMA PostType ==
    ASSUME TypeOK, NEW u \in Users, NEW d \in [Kinds -> Int],
           NEW after \in [Kinds -> Int], NEW at \in Nat, Post(u, d, after, at)
    PROVE  /\ posted' \in [Users -> [Kinds -> Int]]
           /\ latest' \in [Users -> [Kinds -> [at: Nat, after: Int]]]
           /\ posted' = [posted EXCEPT ![u] = Plus(@, d)]
<1>1. Plus(posted[u], d) \in [Kinds -> Int]
  BY DEF TypeOK, Plus
<1>2. posted' \in [Users -> [Kinds -> Int]]
  BY <1>1 DEF Post, TypeOK
<1>3. latest' \in [Users -> [Kinds -> [at: Nat, after: Int]]]
  <2> DEFINE new == [k \in Kinds |->
                       IF d[k] # 0 /\ at >= latest[u][k].at
                       THEN [at |-> at, after |-> after[k]]
                       ELSE latest[u][k]]
  <2>1. new \in [Kinds -> [at: Nat, after: Int]]
    BY DEF TypeOK
  <2>2. latest' = [latest EXCEPT ![u] = new]
    BY DEF Post
  <2> QED
    BY <2>1, <2>2 DEF TypeOK
<1> QED
  BY <1>2, <1>3 DEF Post

\* A transaction that is opened or closed leaves the sessions well typed.
LEMMA SessionType ==
    ASSUME TypeOK, NEW s \in Sessions, NEW t \in Transactions,
           tx' = [tx EXCEPT ![s] = t]
    PROVE  tx' \in [Sessions -> Transactions]
  BY DEF TypeOK

\* What an open transaction's record holds.
LEMMA SessionFacts ==
    ASSUME TypeOK, NEW s \in Sessions
    PROVE  /\ tx[s].op \in {"reserve", "refund"} => tx[s].job \in Jobs /\ tx[s].at \in Nat
           /\ tx[s].op = "charge" =>
                 tx[s].job \in Jobs /\ tx[s].at \in Nat /\ tx[s].read \in Credits
           /\ tx[s].op = "topup" =>
                 tx[s] \in [op: {"topup"}, user: Users, txn: Txns,
                            amount: {a \in Amounts : a > 0}, at: Nat]
           /\ tx[s].op = "adjust" =>
                 tx[s] \in [op: {"adjust"}, user: Users, kind: Kinds,
                            amount: Amounts, at: Nat]
<1>1. tx[s] \in Transactions
  BY DEF TypeOK
<1> QED
  BY <1>1 DEF Transactions, Idle

\* No step breaks a type or takes a balance below zero.
LEMMA NextSafe == Safe /\ [Next]_vars => Safe'
<1> SUFFICES ASSUME Safe, [Next]_vars PROVE Safe'
  OBVIOUS
<1> USE OwnerAssumption, CostAssumption, GrantAssumption, AmountAssumption
<1>idle. Idle \in Transactions
  BY DEF Transactions
<1>1. ASSUME NEW u \in Users, GetOrCreate(u) PROVE Safe'
  BY <1>1, PairFacts DEF GetOrCreate, Safe, TypeOK, NonNegative, rows, Only, Credits, Kinds
<1>2. ASSUME NEW s \in Sessions, NEW j \in Jobs, BeginReserve(s, j) PROVE Safe'
  <2>1. [op |-> "reserve", job |-> j, at |-> clock + 1] \in Transactions
    BY DEF Transactions, Safe, TypeOK
  <2>2. tx' \in [Sessions -> Transactions]
    BY <1>2, <2>1, SessionType DEF BeginReserve, Begin, Safe
  <2> QED
    BY <1>2, <2>2 DEF BeginReserve, Begin, Safe, TypeOK, NonNegative, rows
<1>3. ASSUME NEW s \in Sessions, ReadUser(s) PROVE Safe'
  <2> DEFINE j == tx[s].job
             t == [op |-> "charge", job |-> j, at |-> tx[s].at,
                   read |-> balance[Owner[j]]]
  <2>1. j \in Jobs /\ tx[s].at \in Nat
    BY <1>3, SessionFacts DEF ReadUser, Safe
  <2>2. balance[Owner[j]] \in Credits
    BY <2>1 DEF Safe, TypeOK, NonNegative, Credits
  <2>3. t \in Transactions
    BY <2>1, <2>2 DEF Transactions
  <2>4. tx' \in [Sessions -> Transactions]
    BY <1>3, <2>3, SessionType DEF ReadUser, Safe
  <2> QED
    BY <1>3, <2>4 DEF ReadUser, Safe, TypeOK, NonNegative, rows
<1>4. ASSUME NEW s \in Sessions, Charge(s) PROVE Safe'
  <2> DEFINE j == tx[s].job
             u == Owner[j]
             d == Split(tx[s].read, Cost[j])
  <2>1. j \in Jobs /\ u \in Users /\ tx[s].at \in Nat /\ tx[s].read \in Credits
    BY <1>4, SessionFacts DEF Charge, Safe
  <2>2. d \in Credits
    BY <2>1, SplitFacts
  <2> HIDE DEF d
  <2>3. /\ Minus(None, d) \in [Kinds -> Int]
        /\ Minus(tx[s].read, d) \in [Kinds -> Int]
        /\ Minus(balance[u], d) \in [Kinds -> Int]
        /\ \A k \in Kinds : Minus(balance[u], d)[k] = balance[u][k] + Minus(None, d)[k]
    BY <2>1, <2>2 DEF Minus, None, Credits, Safe, TypeOK
  <2>4. /\ posted' \in [Users -> [Kinds -> Int]]
        /\ latest' \in [Users -> [Kinds -> [at: Nat, after: Int]]]
    BY <1>4, <2>1, <2>3, PostType DEF Charge, d, Safe
  <2>5. tx' \in [Sessions -> Transactions]
    BY <1>4, <1>idle, SessionType DEF Charge, Close, Safe
  <2>6. /\ balance' \in [Users -> [Kinds -> Int]]
        /\ \A v \in Users, k \in Kinds : balance'[v][k] >= 0
    BY <1>4, <2>1, <2>3 DEF Charge, d, UpdateAllowed, Safe, TypeOK, NonNegative
  <2>7. charged' \in [Jobs -> Credits] /\ created' \subseteq Jobs
    BY <1>4, <2>1, <2>2 DEF Charge, d, Safe, TypeOK
  <2> QED
    BY <1>4, <2>4, <2>5, <2>6, <2>7 DEF Charge, Safe, TypeOK, NonNegative
<1>5. ASSUME NEW s \in Sessions, NEW j \in Jobs, BeginRefund(s, j) PROVE Safe'
  <2>1. [op |-> "refund", job |-> j, at |-> clock + 1] \in Transactions
    BY DEF Transactions, Safe, TypeOK
  <2>2. tx' \in [Sessions -> Transactions]
    BY <1>5, <2>1, SessionType DEF BeginRefund, Begin, Safe
  <2> QED
    BY <1>5, <2>2 DEF BeginRefund, Begin, Safe, TypeOK, NonNegative, rows
<1>6. ASSUME NEW s \in Sessions, Refund(s) PROVE Safe'
  <2> DEFINE j == tx[s].job
             u == Owner[j]
             d == RefundOf(j)
  <2>1. j \in Jobs /\ u \in Users /\ tx[s].at \in Nat
        /\ d \in Credits
    BY <1>6, SessionFacts DEF Refund, RefundOf, Safe, TypeOK
  <2> HIDE DEF d
  <2>2. /\ d \in [Kinds -> Int]
        /\ Plus(balance[u], d) \in [Kinds -> Int]
        /\ \A k \in Kinds : Plus(balance[u], d)[k] = balance[u][k] + d[k]
        /\ Plus(refunded[j], d) \in Credits
    BY <2>1 DEF Plus, Credits, Safe, TypeOK
  <2>3. /\ posted' \in [Users -> [Kinds -> Int]]
        /\ latest' \in [Users -> [Kinds -> [at: Nat, after: Int]]]
    BY <1>6, <2>1, <2>2, PostType DEF Refund, d, Safe
  <2>4. tx' \in [Sessions -> Transactions]
    BY <1>6, <1>idle, SessionType DEF Refund, Close, Safe
  <2>5. /\ balance' \in [Users -> [Kinds -> Int]]
        /\ \A v \in Users, k \in Kinds : balance'[v][k] >= 0
    <3>1. balance' = [balance EXCEPT ![u] = Plus(balance[u], d)]
      BY <1>6 DEF Refund, d
    <3>2. \A k \in Kinds : balance[u][k] + d[k] >= 0
      BY <2>1 DEF Credits, Safe, TypeOK, NonNegative
    <3> QED
      BY <2>1, <2>2, <3>1, <3>2 DEF Safe, TypeOK, NonNegative
  <2>6. refunded' \in [Jobs -> Credits] /\ failed' \subseteq Jobs
    BY <1>6, <2>1, <2>2 DEF Refund, d, Safe, TypeOK
  <2> QED
    BY <1>6, <2>3, <2>4, <2>5, <2>6 DEF Refund, Safe, TypeOK, NonNegative
<1>7. ASSUME NEW s \in Sessions, NEW u \in Users, NEW x \in Txns, NEW a \in Amounts,
             BeginTopup(s, u, x, a)
      PROVE  Safe'
  <2>1. [op |-> "topup", user |-> u, txn |-> x, amount |-> a, at |-> clock + 1]
          \in Transactions
    BY <1>7 DEF BeginTopup, Transactions, Safe, TypeOK
  <2>2. tx' \in [Sessions -> Transactions]
    BY <1>7, <2>1, SessionType DEF BeginTopup, Begin, Safe
  <2> QED
    BY <1>7, <2>2 DEF BeginTopup, Begin, Safe, TypeOK, NonNegative, rows
<1>8. ASSUME NEW s \in Sessions, Topup(s) PROVE Safe'
  <2> DEFINE u == tx[s].user
             d == Only("paid", tx[s].amount)
  <2>1. /\ u \in Users /\ tx[s].txn \in Txns /\ tx[s].at \in Nat
        /\ tx[s].amount \in Nat
    BY <1>8, SessionFacts DEF Topup, Safe
  <2>2. d \in [Kinds -> Int] /\ "paid" \in Kinds
    BY <2>1 DEF Only, Kinds
  <2> HIDE DEF d
  <2>3. /\ Plus(balance[u], d) \in [Kinds -> Int]
        /\ \A k \in Kinds : Plus(balance[u], d)[k] = balance[u][k] + d[k]
    BY <2>1, <2>2 DEF Plus, Safe, TypeOK
  <2>4. /\ posted' \in [Users -> [Kinds -> Int]]
        /\ latest' \in [Users -> [Kinds -> [at: Nat, after: Int]]]
    BY <1>8, <2>1, <2>2, <2>3, PostType DEF Topup, d, Safe
  <2>5. tx' \in [Sessions -> Transactions]
    BY <1>8, <1>idle, SessionType DEF Topup, Close, Safe
  <2>6. \A k \in Kinds : d[k] >= 0
    BY <1>8, <2>1 DEF d, Only, Topup
  <2>7. /\ balance' \in [Users -> [Kinds -> Int]]
        /\ \A v \in Users, k \in Kinds : balance'[v][k] >= 0
    BY <1>8, <2>1, <2>2, <2>3, <2>6 DEF Topup, d, Safe, TypeOK, NonNegative
  <2>8. credited' \in [Users -> [Txns -> Nat]]
    BY <1>8, <2>1 DEF Topup, Safe, TypeOK
  <2> QED
    BY <1>8, <2>4, <2>5, <2>7, <2>8 DEF Topup, Safe, TypeOK, NonNegative
<1>9. ASSUME NEW s \in Sessions, NEW u \in Users, NEW k \in Kinds, NEW a \in Amounts,
             BeginAdjust(s, u, k, a)
      PROVE  Safe'
  <2>1. [op |-> "adjust", user |-> u, kind |-> k, amount |-> a, at |-> clock + 1]
          \in Transactions
    BY DEF Transactions, Safe, TypeOK
  <2>2. tx' \in [Sessions -> Transactions]
    BY <1>9, <2>1, SessionType DEF BeginAdjust, Begin, Safe
  <2> QED
    BY <1>9, <2>2 DEF BeginAdjust, Begin, Safe, TypeOK, NonNegative, rows
<1>10. ASSUME NEW s \in Sessions, Adjust(s) PROVE Safe'
  <2> DEFINE u == tx[s].user
             d == Only(tx[s].kind, tx[s].amount)
  <2>1. u \in Users /\ tx[s].kind \in Kinds /\ tx[s].at \in Nat /\ tx[s].amount \in Int
    BY <1>10, SessionFacts DEF Adjust, Safe
  <2>2. d \in [Kinds -> Int]
    BY <2>1 DEF Only
  <2> HIDE DEF d
  <2>3. /\ Plus(balance[u], d) \in [Kinds -> Int]
        /\ \A k \in Kinds : Plus(balance[u], d)[k] = balance[u][k] + d[k]
    BY <2>1, <2>2 DEF Plus, Safe, TypeOK
  <2>4. /\ posted' \in [Users -> [Kinds -> Int]]
        /\ latest' \in [Users -> [Kinds -> [at: Nat, after: Int]]]
    BY <1>10, <2>1, <2>2, <2>3, PostType DEF Adjust, d, Safe
  <2>5. tx' \in [Sessions -> Transactions]
    BY <1>10, <1>idle, SessionType DEF Adjust, Close, Safe
  <2>6. /\ balance' \in [Users -> [Kinds -> Int]]
        /\ \A v \in Users, k \in Kinds : balance'[v][k] >= 0
    BY <1>10, <2>1, <2>2, <2>3 DEF Adjust, d, UpdateAllowed, Safe, TypeOK, NonNegative
  <2> QED
    BY <1>10, <2>4, <2>5, <2>6 DEF Adjust, Safe, TypeOK, NonNegative
<1>11. ASSUME NEW s \in Sessions,
              RefuseReserve(s) \/ LoseRace(s) \/ RepeatTopup(s) \/ RefuseAdjust(s) \/ Abort(s)
       PROVE  Safe'
  <2>1. tx' \in [Sessions -> Transactions]
    BY <1>11, <1>idle, SessionType
    DEF RefuseReserve, LoseRace, RepeatTopup, RefuseAdjust, Abort, Close, Safe
  <2> QED
    BY <1>11, <2>1 DEF RefuseReserve, LoseRace, RepeatTopup, RefuseAdjust, Abort,
       Safe, TypeOK, NonNegative, rows
<1>12. CASE UNCHANGED vars
  BY <1>12 DEF vars, rows, Safe, TypeOK, NonNegative
<1> QED
  BY <1>1, <1>2, <1>3, <1>4, <1>5, <1>6, <1>7, <1>8, <1>9, <1>10, <1>11, <1>12 DEF Next

\* The state is well typed and no balance is ever negative: the WHERE clause of
\* update_credits makes up for the snapshot the split was computed from.
THEOREM SafeAlways == Spec => []Safe
<1> QED
  BY InitSafe, NextSafe, PTL DEF Spec

\* In every reachable state the tables and the open transactions have their types.
THEOREM TypeCorrect == Spec => []TypeOK
<1>1. Safe => TypeOK
  BY DEF Safe
<1> QED
  BY SafeAlways, <1>1, PTL

\* No interleaving of reservations, refunds, top-ups and adjustments by any
\* number of sessions overdraws a user.
THEOREM BalancesNeverNegative == Spec => []NonNegative
<1>1. Safe => NonNegative
  BY DEF Safe
<1> QED
  BY SafeAlways, <1>1, PTL

-----------------------------------------------------------------------------
(* The journal explains every balance *)

\* A user nobody has seen has no rows, and whoever has a transaction open on a
\* user's row has seen the user.
UsersInFlight ==
    /\ \A u \in Users : u \notin known => posted[u] = None
    /\ \A j \in created : Owner[j] \in known
    /\ \A s \in Sessions :
          /\ tx[s].op \in {"reserve", "charge", "refund"} => Owner[tx[s].job] \in known
          /\ tx[s].op \in {"topup", "adjust"} => tx[s].user \in known

\* No transaction is open at first.
LEMMA InitUsers == Init => UsersInFlight
  BY DEF Init, UsersInFlight, Idle

\* Transactions are begun for users that are known, and users stay known.
LEMMA NextUsers == Safe /\ UsersInFlight /\ [Next]_vars => UsersInFlight'
<1> SUFFICES ASSUME Safe, UsersInFlight, [Next]_vars PROVE UsersInFlight'
  OBVIOUS
<1> USE OwnerAssumption
<1>1. ASSUME NEW u \in Users, GetOrCreate(u) PROVE UsersInFlight'
  BY <1>1 DEF GetOrCreate, UsersInFlight, rows
<1>2. ASSUME NEW s \in Sessions, NEW j \in Jobs, BeginReserve(s, j) PROVE UsersInFlight'
  BY <1>2 DEF BeginReserve, Begin, UsersInFlight, rows, Safe, TypeOK
<1>3. ASSUME NEW s \in Sessions, ReadUser(s) PROVE UsersInFlight'
  BY <1>3 DEF ReadUser, UsersInFlight, rows, Safe, TypeOK
<1>4. ASSUME NEW s \in Sessions, Charge(s) PROVE UsersInFlight'
  BY <1>4 DEF Charge, Post, Close, Idle, UsersInFlight, Safe, TypeOK
<1>5. ASSUME NEW s \in Sessions, NEW j \in Jobs, BeginRefund(s, j) PROVE UsersInFlight'
  BY <1>5 DEF BeginRefund, Begin, UsersInFlight, rows, Safe, TypeOK
<1>6. ASSUME NEW s \in Sessions, Refund(s) PROVE UsersInFlight'
  BY <1>6 DEF Refund, Post, Close, Idle, UsersInFlight, Safe, TypeOK
<1>7. ASSUME NEW s \in Sessions, NEW u \in Users, NEW x \in Txns, NEW a \in Amounts,
             BeginTopup(s, u, x, a)
      PROVE  UsersInFlight'
  BY <1>7 DEF BeginTopup, Begin, UsersInFlight, rows, Safe, TypeOK
<1>8. ASSUME NEW s \in Sessions, Topup(s) PROVE UsersInFlight'
  BY <1>8, SessionFacts DEF Topup, Post, Close, Idle, UsersInFlight, Safe, TypeOK
<1>9. ASSUME NEW s \in Sessions, NEW u \in Users, NEW k \in Kinds, NEW a \in Amounts,
             BeginAdjust(s, u, k, a)
      PROVE  UsersInFlight'
  BY <1>9 DEF BeginAdjust, Begin, UsersInFlight, rows, Safe, TypeOK
<1>10. ASSUME NEW s \in Sessions, Adjust(s) PROVE UsersInFlight'
  BY <1>10, SessionFacts DEF Adjust, Post, Close, Idle, UsersInFlight, Safe, TypeOK
<1>11. ASSUME NEW s \in Sessions,
              RefuseReserve(s) \/ LoseRace(s) \/ RepeatTopup(s) \/ RefuseAdjust(s) \/ Abort(s)
       PROVE  UsersInFlight'
  <2>1. \A q \in Sessions : tx'[q] = tx[q] \/ tx'[q] = Idle
    BY <1>11 DEF RefuseReserve, LoseRace, RepeatTopup, RefuseAdjust, Abort, Close, Safe,
       TypeOK
  <2>2. known' = known /\ created' = created /\ posted' = posted
    BY <1>11 DEF RefuseReserve, LoseRace, RepeatTopup, RefuseAdjust, Abort, rows
  <2> QED
    BY <2>1, <2>2 DEF UsersInFlight, Idle
<1>12. CASE UNCHANGED vars
  BY <1>12 DEF vars, rows, UsersInFlight
<1> QED
  BY <1>1, <1>2, <1>3, <1>4, <1>5, <1>6, <1>7, <1>8, <1>9, <1>10, <1>11, <1>12 DEF Next

\* A balance and its journal move by the same amounts.
LEMMA BalanceAndRow ==
    ASSUME Safe, NEW v \in Users, Explained(v),
           NEW u \in Users, NEW d \in [Kinds -> Int],
           granted' = granted,
           balance' = [balance EXCEPT ![u] = Plus(@, d)],
           posted' = [posted EXCEPT ![u] = Plus(@, d)]
    PROVE  Explained(v)'
<1>1. balance[v] = Plus(granted[v], posted[v])
  BY DEF Explained
<1>2. CASE v # u
  BY <1>1, <1>2 DEF Safe, TypeOK, Explained
<1>3. CASE v = u
  <2>1. balance'[v] = Plus(Plus(granted[v], posted[v]), d)
    BY <1>1, <1>3 DEF Safe, TypeOK
  <2>2. posted'[v] = Plus(posted[v], d)
    BY <1>3 DEF Safe, TypeOK
  <2>3. granted[v] \in [Kinds -> Int] /\ posted[v] \in [Kinds -> Int]
    BY DEF Safe, TypeOK, Credits
  <2>4. Plus(Plus(granted[v], posted[v]), d) = Plus(granted[v], Plus(posted[v], d))
    BY <2>3 DEF Plus
  <2> QED
    BY <2>1, <2>2, <2>4 DEF Explained
<1> QED
  BY <1>2, <1>3

\* Empty balances are explained by an empty journal.
LEMMA InitExplained == Init => LedgerExplainsBalance
<1>1. Plus(None, None) = None
  BY DEF Plus, None
<1>2. ASSUME Init, NEW u \in Users
      PROVE  balance[u] = None /\ granted[u] = None /\ posted[u] = None
  BY <1>2 DEF Init
<1> QED
  BY <1>1, <1>2 DEF LedgerExplainsBalance, Explained

\* Every change of a balance is posted, and every posting changes a balance.
LEMMA NextExplained ==
    ASSUME Safe, UsersInFlight, [Next]_vars, NEW v \in Users, Explained(v)
    PROVE  Explained(v)'
<1> USE OwnerAssumption, CostAssumption, GrantAssumption, AmountAssumption
<1>1. ASSUME NEW u \in Users, GetOrCreate(u) PROVE Explained(v)'
  <2>1. CASE v # u
    BY <1>1, <2>1 DEF GetOrCreate, Explained, Safe, TypeOK, rows
  <2>2. CASE v = u
    <3>1. PICK g \in Grants : balance'[v] = Only("free", g) /\ granted'[v] = Only("free", g)
      BY <1>1, <2>2 DEF GetOrCreate, Safe, TypeOK
    <3>2. posted[v] = None /\ posted' = posted
      BY <1>1, <2>2 DEF GetOrCreate, UsersInFlight, rows
    <3>3. Only("free", g) = Plus(Only("free", g), None)
      BY DEF Only, Plus, None
    <3> QED
      BY <3>1, <3>2, <3>3 DEF Explained
  <2> QED
    BY <2>1, <2>2
<1>2. ASSUME NEW s \in Sessions, Charge(s) PROVE Explained(v)'
  <2> DEFINE u == Owner[tx[s].job]
             d == Split(tx[s].read, Cost[tx[s].job])
  <2>1. u \in Users /\ d \in Credits
    BY <1>2, SessionFacts, SplitFacts DEF Charge, Safe
  <2> HIDE DEF d
  <2>2. /\ Minus(None, d) \in [Kinds -> Int]
        /\ Minus(balance[u], d) = Plus(balance[u], Minus(None, d))
    BY <2>1 DEF Plus, Minus, None, Credits, Safe, TypeOK
  <2>3. /\ granted' = granted
        /\ balance' = [balance EXCEPT ![u] = Plus(@, Minus(None, d))]
        /\ posted' = [posted EXCEPT ![u] = Plus(@, Minus(None, d))]
    BY <1>2, <2>2 DEF Charge, Post, d
  <2> QED
    BY <2>1, <2>2, <2>3, BalanceAndRow
<1>3. ASSUME NEW s \in Sessions, Refund(s) PROVE Explained(v)'
  <2>1. Owner[tx[s].job] \in Users /\ RefundOf(tx[s].job) \in [Kinds -> Int]
    BY <1>3, SessionFacts DEF Refund, RefundOf, Credits, Safe, TypeOK
  <2> QED
    BY <1>3, <2>1, BalanceAndRow DEF Refund, Post
<1>4. ASSUME NEW s \in Sessions, Topup(s) PROVE Explained(v)'
  <2>1. tx[s].user \in Users /\ tx[s].amount \in Int
    BY <1>4, SessionFacts DEF Topup, Safe
  <2>2. Only("paid", tx[s].amount) \in [Kinds -> Int]
    BY <2>1 DEF Only
  <2> QED
    BY <1>4, <2>1, <2>2, BalanceAndRow DEF Topup, Post
<1>5. ASSUME NEW s \in Sessions, Adjust(s) PROVE Explained(v)'
  <2>1. tx[s].user \in Users /\ tx[s].amount \in Int
    BY <1>5, SessionFacts DEF Adjust, Safe
  <2>2. Only(tx[s].kind, tx[s].amount) \in [Kinds -> Int]
    BY <2>1 DEF Only
  <2> QED
    BY <1>5, <2>1, <2>2, BalanceAndRow DEF Adjust, Post
<1>6. CASE UNCHANGED <<balance, granted, posted>>
  BY <1>6 DEF Explained
<1> QED
  BY <1>1, <1>2, <1>3, <1>4, <1>5, <1>6
  DEF Next, vars, rows, BeginReserve, ReadUser, RefuseReserve, LoseRace, BeginRefund,
      BeginTopup, RepeatTopup, BeginAdjust, RefuseAdjust, Abort

\* users.free_credits and users.paid_credits are a cache of the journal: the
\* grant the row was inserted with, plus the sum of the user's rows.
THEOREM JournalExplainsBalances == Spec => []LedgerExplainsBalance
<1>1. Safe /\ UsersInFlight /\ LedgerExplainsBalance /\ [Next]_vars
        => LedgerExplainsBalance'
  BY NextExplained DEF LedgerExplainsBalance
<1> QED
  BY <1>1, InitSafe, NextSafe, InitUsers, NextUsers, InitExplained, PTL DEF Spec

-----------------------------------------------------------------------------
(* What a job takes and what it gives back *)

\* A job is charged once: while its reservation is open its row is not
\* committed and no other session reserves it.  Only committed jobs fail.
JobsInFlight ==
    /\ failed \subseteq created
    /\ created \subseteq Jobs
    /\ \A s \in Sessions :
          /\ tx[s].op = "refund" => tx[s].job \in created
          /\ tx[s].op \in {"reserve", "charge"} => tx[s].job \notin created
    /\ \A s, q \in Sessions :
          /\ s # q
          /\ tx[s].op \in {"reserve", "charge"}
          /\ tx[q].op \in {"reserve", "charge"}
          => tx[s].job # tx[q].job

\* No job exists and no reservation is open at first.
LEMMA InitJobs == Init => JobsInFlight
  BY DEF Init, JobsInFlight, Idle

\* A job is reserved by one session at a time and refunded once it exists.
LEMMA NextJobs == Safe /\ JobsInFlight /\ [Next]_vars => JobsInFlight'
<1> SUFFICES ASSUME Safe, JobsInFlight, [Next]_vars PROVE JobsInFlight'
  OBVIOUS
<1>1. ASSUME NEW s \in Sessions, NEW j \in Jobs, BeginReserve(s, j) PROVE JobsInFlight'
  BY <1>1 DEF BeginReserve, Begin, JobsInFlight, Safe, TypeOK
<1>2. ASSUME NEW s \in Sessions, ReadUser(s) PROVE JobsInFlight'
  BY <1>2 DEF ReadUser, JobsInFlight, Safe, TypeOK
<1>3. ASSUME NEW s \in Sessions, Charge(s) PROVE JobsInFlight'
  <2>1. tx[s].job \in Jobs
    BY <1>3, SessionFacts DEF Charge, Safe
  <2> QED
    BY <1>3, <2>1 DEF Charge, Close, Idle, JobsInFlight, Safe, TypeOK
<1>4. ASSUME NEW s \in Sessions, NEW j \in Jobs, BeginRefund(s, j) PROVE JobsInFlight'
  BY <1>4 DEF BeginRefund, Begin, JobsInFlight, Safe, TypeOK
<1>5. ASSUME NEW s \in Sessions, Refund(s) PROVE JobsInFlight'
  BY <1>5 DEF Refund, Close, Idle, JobsInFlight, Safe, TypeOK
<1>6. ASSUME NEW s \in Sessions, NEW u \in Users, NEW x \in Txns, NEW a \in Amounts,
             BeginTopup(s, u, x, a)
      PROVE  JobsInFlight'
  BY <1>6 DEF BeginTopup, Begin, JobsInFlight, Safe, TypeOK
<1>7. ASSUME NEW s \in Sessions, NEW u \in Users, NEW k \in Kinds, NEW a \in Amounts,
             BeginAdjust(s, u, k, a)
      PROVE  JobsInFlight'
  BY <1>7 DEF BeginAdjust, Begin, JobsInFlight, Safe, TypeOK
<1>8. ASSUME NEW s \in Sessions,
             \/ Topup(s) \/ RepeatTopup(s) \/ Adjust(s) \/ RefuseAdjust(s)
             \/ RefuseReserve(s) \/ LoseRace(s) \/ Abort(s)
      PROVE  JobsInFlight'
  <2>1. \A q \in Sessions : tx'[q] = tx[q] \/ tx'[q] = Idle
    BY <1>8 DEF Topup, RepeatTopup, Adjust, RefuseAdjust, RefuseReserve, LoseRace, Abort,
       Close, Safe, TypeOK
  <2>2. created' = created /\ failed' = failed
    BY <1>8 DEF Topup, RepeatTopup, Adjust, RefuseAdjust, RefuseReserve, LoseRace, Abort
  <2> QED
    BY <2>1, <2>2 DEF JobsInFlight, Idle
<1>9. CASE UNCHANGED <<created, failed, tx>>
  BY <1>9 DEF JobsInFlight
<1> QED
  BY <1>1, <1>2, <1>3, <1>4, <1>5, <1>6, <1>7, <1>8, <1>9 DEF Next, vars, GetOrCreate

JobsSettled == ChargedInFull /\ FailedAreRefunded

\* A job that does not exist has been charged and refunded nothing.
LEMMA InitSettled == Init => JobsSettled
  BY DEF Init, JobsSettled, ChargedInFull, FailedAreRefunded, None, Kinds

\* Charges come with the job's row, refunds with its failure, in the same kinds.
LEMMA NextSettled == Safe /\ JobsInFlight /\ JobsSettled /\ [Next]_vars => JobsSettled'
<1> SUFFICES ASSUME Safe, JobsInFlight, JobsSettled, [Next]_vars PROVE JobsSettled'
  OBVIOUS
<1>1. ASSUME NEW s \in Sessions, Charge(s) PROVE JobsSettled'
  <2> DEFINE j == tx[s].job
             d == Split(tx[s].read, Cost[j])
  <2>1. /\ j \in Jobs /\ Cost[j] \in Nat /\ tx[s].read \in Credits
        /\ j \notin created /\ j \notin failed
    BY <1>1, SessionFacts, CostAssumption DEF Charge, Safe, JobsInFlight
  <2>2. d \in Credits /\ d["free"] + d["paid"] = Cost[j]
    BY <2>1, SplitFacts
  <2> HIDE DEF d
  <2>3. /\ charged' = [charged EXCEPT ![j] = d] /\ created' = created \cup {j}
        /\ failed' = failed /\ refunded' = refunded
    BY <1>1 DEF Charge, d
  <2>4. charged[j]["free"] = 0 /\ charged[j]["paid"] = 0
    <3>1. charged[j]["free"] \in Nat /\ charged[j]["paid"] \in Nat
      BY <2>1 DEF Safe, TypeOK, Credits, Kinds
    <3>2. charged[j]["free"] + charged[j]["paid"] = 0
      BY <2>1 DEF JobsSettled, ChargedInFull
    <3> QED
      BY <3>1, <3>2
  <2>5. \A k \in Kinds : refunded[j][k] = 0
    <3> SUFFICES ASSUME NEW k \in Kinds PROVE refunded[j][k] = 0
      OBVIOUS
    <3>1. refunded[j][k] \in Nat
      BY <2>1 DEF Safe, TypeOK, Credits
    <3>2. charged[j][k] = 0
      BY <2>4 DEF Kinds
    <3>3. ~ (refunded[j][k] > 0)
      BY <2>1, <3>2 DEF JobsSettled, FailedAreRefunded
    <3> QED
      BY <3>1, <3>3
  <2>6. ChargedInFull'
    BY <2>1, <2>2, <2>3 DEF JobsSettled, ChargedInFull, Safe, TypeOK
  <2>7. FailedAreRefunded'
    BY <2>1, <2>3, <2>5 DEF JobsSettled, FailedAreRefunded, Safe, TypeOK
  <2> QED
    BY <2>6, <2>7 DEF JobsSettled
<1>2. ASSUME NEW s \in Sessions, Refund(s) PROVE JobsSettled'
  <2> DEFINE j == tx[s].job
  <2>1. j \in Jobs
    BY <1>2, SessionFacts DEF Refund, Safe
  <2>2. /\ refunded' = [refunded EXCEPT ![j] = Plus(@, charged[j])]
        /\ failed' = failed \cup {j} /\ charged' = charged /\ created' = created
    BY <1>2 DEF Refund, RefundOf
  <2>3. \A k \in Kinds : /\ refunded'[j][k] = refunded[j][k] + charged[j][k]
                         /\ refunded[j][k] \in Nat /\ charged[j][k] \in Nat
    BY <2>1, <2>2 DEF Plus, Safe, TypeOK, Credits
  <2>4. \A i \in Jobs : i # j => refunded'[i] = refunded[i]
    BY <2>2 DEF Safe, TypeOK
  <2>5. FailedAreRefunded'
    BY <2>1, <2>2, <2>3, <2>4 DEF JobsSettled, FailedAreRefunded
  <2> QED
    BY <2>2, <2>5 DEF JobsSettled, ChargedInFull
<1>3. CASE UNCHANGED <<created, failed, charged, refunded>>
  BY <1>3 DEF JobsSettled, ChargedInFull, FailedAreRefunded
<1> QED
  BY <1>1, <1>2, <1>3
  DEF Next, vars, rows, GetOrCreate, BeginReserve, ReadUser, RefuseReserve, LoseRace,
      BeginRefund, BeginTopup, Topup, RepeatTopup, BeginAdjust, Adjust, RefuseAdjust, Abort

\* What a job has taken and given back always fits its row and its failure.
THEOREM SettledAlways == Spec => []JobsSettled
<1> QED
  BY InitSafe, NextSafe, InitJobs, NextJobs, InitSettled, NextSettled, PTL DEF Spec

\* A job's row is committed exactly when its whole cost has been taken.
THEOREM JobsChargedInFull == Spec => []ChargedInFull
<1>1. JobsSettled => ChargedInFull
  BY DEF JobsSettled
<1> QED
  BY SettledAlways, <1>1, PTL

\* A failed job has returned at least what it took, kind by kind.
THEOREM FailedJobsRefunded == Spec => []FailedAreRefunded
<1>1. JobsSettled => FailedAreRefunded
  BY DEF JobsSettled
<1> QED
  BY SettledAlways, <1>1, PTL

-----------------------------------------------------------------------------
(* Top-ups *)

\* No row carries a transaction id at first.
LEMMA InitTopups == Init => TopupCountsOnce
  BY DEF Init, TopupCountsOnce

\* The unique index refuses a second row.
LEMMA NextTopups == Safe /\ TopupCountsOnce /\ [Next]_vars => TopupCountsOnce'
<1> SUFFICES ASSUME Safe, TopupCountsOnce, [Next]_vars PROVE TopupCountsOnce'
  OBVIOUS
<1>1. ASSUME NEW s \in Sessions, Topup(s) PROVE TopupCountsOnce'
  BY <1>1, SessionFacts DEF Topup, TxnUnused, TopupCountsOnce, Safe, TypeOK
<1>2. CASE UNCHANGED credited
  BY <1>2 DEF TopupCountsOnce
<1>3. ASSUME NEW s \in Sessions,
             \/ ReadUser(s) \/ RefuseReserve(s) \/ Charge(s) \/ LoseRace(s) \/ Refund(s)
             \/ RepeatTopup(s) \/ Adjust(s) \/ RefuseAdjust(s) \/ Abort(s)
      PROVE  UNCHANGED credited
  BY <1>3 DEF ReadUser, RefuseReserve, Charge, LoseRace, Refund, RepeatTopup, Adjust,
              RefuseAdjust, Abort, rows
<1>4. ASSUME NEW s \in Sessions,
             \/ \E j \in Jobs : BeginReserve(s, j) \/ BeginRefund(s, j)
             \/ \E u \in Users, x \in Txns, a \in Amounts : BeginTopup(s, u, x, a)
             \/ \E u \in Users, k \in Kinds, a \in Amounts : BeginAdjust(s, u, k, a)
      PROVE  UNCHANGED credited
  BY <1>4 DEF BeginReserve, BeginRefund, BeginTopup, BeginAdjust, rows
<1>5. ASSUME NEW u \in Users, GetOrCreate(u) PROVE UNCHANGED credited
  BY <1>5 DEF GetOrCreate, rows
<1>6. CASE UNCHANGED vars
  BY <1>2, <1>6 DEF vars, rows
<1> QED
  BY <1>1, <1>2, <1>3, <1>4, <1>5, <1>6 DEF Next

\* A top-up is counted once: two requests with one transaction id may both pass
\* the check, and the unique index refuses the later.
THEOREM TopupsCountOnce == Spec => []TopupCountsOnce
<1> QED
  BY InitTopups, NextTopups, InitSafe, NextSafe, PTL DEF Spec
=============================================================================
