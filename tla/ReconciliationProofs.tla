------------------------ MODULE ReconciliationProofs ------------------------
(***************************************************************************)
(* Proofs about the ledger with the reconciliation script beside it, for   *)
(* any users, jobs, sessions, costs and amounts: what the script writes is *)
(* never negative, it leaves the journal's promises alone, and it writes   *)
(* nothing for a user whose transactions did not overlap.                  *)
(***************************************************************************)
EXTENDS Reconciliation, CreditLedgerProofs

-----------------------------------------------------------------------------
(* Types, and balances that are never negative: the newest rows never       *)
(* promise a negative balance, so the script never writes one.              *)

RowsSafe ==
    /\ \A u \in Users, k \in Kinds : latest[u][k].after >= 0
    /\ \A s \in Sessions :
          tx[s].op = "charge" => Affordable(tx[s].read, Cost[tx[s].job])

ReconcileSafe == Safe /\ RowsSafe /\ ScriptTypeOK

\* A script that is not off knows what it has read or has to write.
LEMMA ScriptFacts ==
    ASSUME ScriptTypeOK
    PROVE  /\ script.at = "users" => Table(script.seen)
           /\ script.at = "writes" => Table(script.todo)
           /\ script # Off => script.at \in {"users", "writes"}
  BY DEF ScriptTypeOK, Off

\* The balance_after of a reservation is not negative.
LEMMA ChargeLeaves ==
    ASSUME NEW b \in Credits, NEW c \in Nat, Affordable(b, c)
    PROVE  \A k \in Kinds : Minus(b, Split(b, c))[k] >= 0
<1> DEFINE d == Split(b, c)
<1>1. b["free"] \in Nat /\ b["paid"] \in Nat
  BY DEF Credits, Kinds
<1>2. b["free"] + b["paid"] >= c
  BY DEF Affordable
<1>3. /\ d["free"] = IF c <= b["free"] THEN c ELSE b["free"]
      /\ d["paid"] = c - (IF c <= b["free"] THEN c ELSE b["free"])
  BY DEF Split
<1> HIDE DEF d
<1>4. b["free"] - d["free"] >= 0 /\ b["paid"] - d["paid"] >= 0
  BY <1>1, <1>2, <1>3
<1> QED
  BY <1>4 DEF Minus, Kinds, d

\* A row with a balance_after that is not negative.
LEMMA PostSafe ==
    ASSUME Safe, RowsSafe, NEW u \in Users, NEW d \in [Kinds -> Int],
           NEW after \in [Kinds -> Int], NEW at \in Nat, Post(u, d, after, at),
           \A k \in Kinds : after[k] >= 0
    PROVE  \A v \in Users, k \in Kinds : latest'[v][k].after >= 0
  BY DEF Post, Safe, TypeOK, RowsSafe

\* Nobody has rows, and the script is off.
LEMMA InitReconcileSafe == ReconcileInit => ReconcileSafe
<1> SUFFICES ASSUME ReconcileInit PROVE ReconcileSafe
  OBVIOUS
<1>1. Safe
  BY InitSafe DEF ReconcileInit
<1>2. RowsSafe
  BY DEF ReconcileInit, Init, RowsSafe, Idle
<1>3. ScriptTypeOK
  BY DEF ReconcileInit, ScriptTypeOK, Off
<1> QED
  BY <1>1, <1>2, <1>3 DEF ReconcileSafe

\* No transaction posts a row that promises a negative balance.
LEMMA NextRows == Safe /\ RowsSafe /\ [Next]_vars => RowsSafe'
<1> SUFFICES ASSUME Safe, RowsSafe, [Next]_vars PROVE RowsSafe'
  OBVIOUS
<1> USE OwnerAssumption, CostAssumption, AmountAssumption
<1>safe. Safe'
  BY NextSafe
<1>1. ASSUME NEW s \in Sessions, ReadUser(s) PROVE RowsSafe'
  <2>1. latest' = latest
    BY <1>1 DEF ReadUser, rows
  <2>2. \A q \in Sessions : tx'[q].op = "charge" =>
          Affordable(tx'[q].read, Cost[tx'[q].job])
    BY <1>1 DEF ReadUser, RowsSafe, Safe, TypeOK
  <2> QED
    BY <2>1, <2>2 DEF RowsSafe
<1>2. ASSUME NEW s \in Sessions, Charge(s) PROVE RowsSafe'
  <2> DEFINE j == tx[s].job
             d == Split(tx[s].read, Cost[j])
             after == Minus(tx[s].read, d)
  <2>1. j \in Jobs /\ tx[s].at \in Nat /\ tx[s].read \in Credits
    BY <1>2, SessionFacts DEF Charge, Safe
  <2>2. \A k \in Kinds : after[k] >= 0
    BY <1>2, <2>1, ChargeLeaves DEF Charge, RowsSafe
  <2>3. d \in Credits
    BY <2>1, SplitFacts
  <2>4. Minus(None, d) \in [Kinds -> Int] /\ after \in [Kinds -> Int]
    <3> HIDE DEF d
    <3> QED
      BY <2>1, <2>3 DEF Minus, None, Credits
  <2>5. Post(Owner[j], Minus(None, d), after, tx[s].at)
    BY <1>2 DEF Charge
  <2>6. \A v \in Users, k \in Kinds : latest'[v][k].after >= 0
    <3> HIDE DEF d, after
    <3> QED
      BY <2>1, <2>2, <2>4, <2>5, PostSafe
  <2>7. tx' = [tx EXCEPT ![s] = Idle]
    BY <1>2 DEF Charge, Close
  <2> QED
    BY <2>6, <2>7 DEF RowsSafe, Idle, Safe, TypeOK
<1>3. ASSUME NEW s \in Sessions, NEW u \in Users, NEW d \in [Kinds -> Int],
             NEW at \in Nat,
             balance' = [balance EXCEPT ![u] = Plus(@, d)],
             Post(u, d, Plus(balance[u], d), at),
             tx' = [tx EXCEPT ![s] = Idle]
      PROVE  RowsSafe'
  <2>1. Plus(balance[u], d) = balance'[u]
    BY <1>3 DEF Safe, TypeOK
  <2>2. \A k \in Kinds : balance'[u][k] >= 0
    BY <1>safe DEF Safe, NonNegative
  <2>3. Plus(balance[u], d) \in [Kinds -> Int]
    BY DEF Plus, Safe, TypeOK
  <2>4. \A v \in Users, k \in Kinds : latest'[v][k].after >= 0
    BY <1>3, <2>1, <2>2, <2>3, PostSafe
  <2> QED
    BY <1>3, <2>4 DEF RowsSafe, Idle, Safe, TypeOK
<1>4. ASSUME NEW s \in Sessions, Refund(s) PROVE RowsSafe'
  <2>1. /\ Owner[tx[s].job] \in Users /\ tx[s].at \in Nat
        /\ RefundOf(tx[s].job) \in [Kinds -> Int]
    BY <1>4, SessionFacts DEF Refund, RefundOf, Credits, Safe, TypeOK
  <2> QED
    BY <1>3, <1>4, <2>1 DEF Refund, Close
<1>5. ASSUME NEW s \in Sessions, Topup(s) PROVE RowsSafe'
  <2>1. tx[s].user \in Users /\ tx[s].at \in Nat /\ tx[s].amount \in Int
    BY <1>5, SessionFacts DEF Topup, Safe
  <2>2. Only("paid", tx[s].amount) \in [Kinds -> Int]
    BY <2>1 DEF Only
  <2> QED
    BY <1>3, <1>5, <2>1, <2>2 DEF Topup, Close
<1>6. ASSUME NEW s \in Sessions, Adjust(s) PROVE RowsSafe'
  <2>1. tx[s].user \in Users /\ tx[s].at \in Nat /\ tx[s].amount \in Int
    BY <1>6, SessionFacts DEF Adjust, Safe
  <2>2. Only(tx[s].kind, tx[s].amount) \in [Kinds -> Int]
    BY <2>1 DEF Only
  <2> QED
    BY <1>3, <1>6, <2>1, <2>2 DEF Adjust, Close
<1>7. ASSUME latest' = latest,
             \A s \in Sessions : tx'[s] = tx[s] \/ tx'[s].op # "charge"
      PROVE  RowsSafe'
  BY <1>7 DEF RowsSafe
<1>8. ASSUME NEW u \in Users, GetOrCreate(u) PROVE RowsSafe'
  BY <1>7, <1>8 DEF GetOrCreate, rows
<1>9. ASSUME NEW s \in Sessions, NEW j \in Jobs, BeginReserve(s, j) \/ BeginRefund(s, j)
      PROVE  RowsSafe'
  BY <1>7, <1>9 DEF BeginReserve, BeginRefund, Begin, rows, Safe, TypeOK
<1>10. ASSUME NEW s \in Sessions, NEW u \in Users, NEW a \in Amounts,
              \/ \E x \in Txns : BeginTopup(s, u, x, a)
              \/ \E k \in Kinds : BeginAdjust(s, u, k, a)
       PROVE  RowsSafe'
  BY <1>7, <1>10 DEF BeginTopup, BeginAdjust, Begin, rows, Safe, TypeOK
<1>11. ASSUME NEW s \in Sessions,
              RefuseReserve(s) \/ LoseRace(s) \/ RepeatTopup(s) \/ RefuseAdjust(s) \/ Abort(s)
       PROVE  RowsSafe'
  BY <1>7, <1>11 DEF RefuseReserve, LoseRace, RepeatTopup, RefuseAdjust, Abort, Close,
     Idle, rows, Safe, TypeOK
<1>12. CASE UNCHANGED vars
  BY <1>7, <1>12 DEF vars, rows
<1> QED
  BY <1>1, <1>2, <1>4, <1>5, <1>6, <1>8, <1>9, <1>10, <1>11, <1>12 DEF Next

\* Whose balance a session's transaction concerns.
LEMMA UserType ==
    ASSUME TypeOK, NEW s \in Sessions, tx[s] # Idle
    PROVE  UserOf(tx[s]) \in Users
<1>1. tx[s] \in Transactions
  BY DEF TypeOK
<1> QED
  BY <1>1, OwnerAssumption DEF Transactions, UserOf

\* The script reads and writes pairs of natural numbers.
LEMMA NextReconcileSafe ==
    ReconcileSafe /\ [ReconcileNext]_reconcileVars => ReconcileSafe'
<1> SUFFICES ASSUME ReconcileSafe, [ReconcileNext]_reconcileVars PROVE ReconcileSafe'
  OBVIOUS
<1> USE DEF ReconcileSafe
<1>0. ASSUME UNCHANGED vars PROVE Safe' /\ RowsSafe'
  BY <1>0, NextSafe, NextRows
<1>1. CASE LedgerStep
  <2>1. Safe' /\ RowsSafe'
    BY <1>1, NextSafe, NextRows DEF LedgerStep
  <2>2. \A q \in Sessions : tx'[q] # Idle => UserOf(tx'[q]) \in Users
    <3> SUFFICES ASSUME NEW q \in Sessions, tx'[q] # Idle PROVE UserOf(tx'[q]) \in Users
      OBVIOUS
    <3>1. tx'[q] \in Transactions
      BY <2>1 DEF Safe, TypeOK
    <3> QED
      BY <3>1, OwnerAssumption DEF Transactions, UserOf
  <2>3. crowded' \subseteq Users /\ script' = script /\ rewritten' = rewritten
    BY <1>1, <2>2 DEF LedgerStep, ScriptTypeOK
  <2>4. ScriptTypeOK'
    BY <2>3 DEF ScriptTypeOK
  <2> QED
    BY <2>1, <2>4
<1>2. CASE ReadUsers
  <2>1. Safe' /\ RowsSafe'
    BY <1>2, <1>0 DEF ReadUsers
  <2>2. Table([u \in known |-> balance[u]])
    BY DEF Table, Safe, TypeOK, NonNegative, Credits
  <2>3. Busy \subseteq Users
    BY UserType DEF Busy, Safe
  <2>4. ScriptTypeOK'
    BY <1>2, <2>2, <2>3 DEF ReadUsers, ScriptTypeOK
  <2> QED
    BY <2>1, <2>4
<1>3. CASE ReadJournal
  <2> DEFINE seen == script.seen
             wrong == {u \in DOMAIN seen : Expected(u, seen[u]) # seen[u]}
             todo == [u \in wrong |-> Expected(u, seen[u])]
  <2>1. Safe' /\ RowsSafe'
    BY <1>3, <1>0 DEF ReadJournal
  <2>2. Table(seen)
    BY <1>3, ScriptFacts DEF ReadJournal
  <2>3. \A u \in DOMAIN seen : Expected(u, seen[u]) \in Credits
    BY <2>2 DEF Table, Expected, Credits, Safe, TypeOK, RowsSafe
  <2>4. Table(todo)
    BY <2>2, <2>3 DEF Table
  <2>5. script' = Off \/ script' = [at |-> "writes", todo |-> todo]
    BY <1>3 DEF ReadJournal
  <2> HIDE DEF todo
  <2>6. ScriptTypeOK'
    BY <1>3, <2>4, <2>5 DEF ReadJournal, ScriptTypeOK, Off
  <2> QED
    BY <2>1, <2>6
<1>4. ASSUME NEW u \in Users, Rewrite(u) PROVE ReconcileSafe'
  <2> DEFINE rest == DOMAIN script.todo \ {u}
             left == [v \in rest |-> script.todo[v]]
  <2>1. Table(script.todo) /\ u \in DOMAIN script.todo
    BY <1>4, ScriptFacts DEF Rewrite
  <2>2. script.todo[u] \in Credits
    BY <2>1 DEF Table
  <2>3. Safe'
    BY <1>4, <2>2 DEF Rewrite, Safe, TypeOK, NonNegative, Credits, rows
  <2>4. RowsSafe'
    BY <1>4 DEF Rewrite, RowsSafe, rows
  <2>5. Table(left)
    BY <2>1 DEF Table
  <2>6. script' = Off \/ script' = [at |-> "writes", todo |-> left]
    BY <1>4 DEF Rewrite
  <2> HIDE DEF left
  <2>7. ScriptTypeOK'
    BY <1>4, <2>5, <2>6 DEF Rewrite, ScriptTypeOK, Off
  <2> QED
    BY <2>3, <2>4, <2>7
<1>5. CASE Interrupt
  BY <1>5, <1>0 DEF Interrupt, ScriptTypeOK, Off
<1>6. CASE UNCHANGED reconcileVars
  BY <1>6, <1>0 DEF reconcileVars, scriptVars, ScriptTypeOK
<1> QED
  BY <1>1, <1>2, <1>3, <1>4, <1>5, <1>6 DEF ReconcileNext

\* With the script beside them, the tables, the open transactions and what the
\* script holds are well typed, and no balance is ever negative.
THEOREM ReconcileSafeAlways == ReconcileSpec => []ReconcileSafe
<1> QED
  BY InitReconcileSafe, NextReconcileSafe, PTL DEF ReconcileSpec

\* The tables and transactions have their types, whatever the script writes, and
\* what the script has read and has to write are balances of users.
THEOREM TypesWithScript == ReconcileSpec => []ReconcileTypeOK
<1>1. ReconcileSafe => ReconcileTypeOK
  BY DEF ReconcileSafe, Safe, ReconcileTypeOK
<1> QED
  BY ReconcileSafeAlways, <1>1, PTL

\* Neither transactions nor the script ever take a balance below zero: what a
\* journal row gives as balance_after is never negative, however stale it is.
THEOREM NeverNegativeWithScript == ReconcileSpec => []NonNegative
<1>1. ReconcileSafe => NonNegative
  BY DEF ReconcileSafe, Safe
<1> QED
  BY ReconcileSafeAlways, <1>1, PTL

-----------------------------------------------------------------------------
(* The promises of the journal, with the script beside the transactions *)

Journal == UsersInFlight /\ JobsInFlight /\ JobsSettled /\ TopupCountsOnce

\* A step of the script writes balances only.
LEMMA ScriptSteps ==
    ASSUME [ReconcileNext]_reconcileVars
    PROVE  \/ [Next]_vars /\ rewritten' = rewritten
           \/ \E u \in Users : Rewrite(u)
  BY DEF ReconcileNext, reconcileVars, scriptVars, LedgerStep, ReadUsers, ReadJournal,
     Interrupt

\* The journal's promises do not depend on the balances.
LEMMA NextJournal ==
    ReconcileSafe /\ Journal /\ [ReconcileNext]_reconcileVars => Journal'
<1> SUFFICES ASSUME ReconcileSafe, Journal, [ReconcileNext]_reconcileVars PROVE Journal'
  OBVIOUS
<1>1. CASE [Next]_vars
  BY <1>1, NextUsers, NextJobs, NextSettled, NextTopups DEF Journal, ReconcileSafe
<1>2. ASSUME NEW u \in Users, Rewrite(u) PROVE Journal'
  <2>1. UNCHANGED <<known, posted, created, failed, charged, refunded, credited, tx>>
    BY <1>2 DEF Rewrite, rows
  <2> QED
    BY <2>1 DEF Journal, UsersInFlight, JobsInFlight, JobsSettled, ChargedInFull,
       FailedAreRefunded, TopupCountsOnce
<1> QED
  BY <1>1, <1>2, ScriptSteps

\* Jobs are charged in full, failures refunded and top-ups counted once, also
\* while the script rewrites the balances.
THEOREM JournalWithScript == ReconcileSpec => []Journal
<1>1. ReconcileInit => Journal
  BY InitUsers, InitJobs, InitSettled, InitTopups DEF ReconcileInit, Journal
<1> QED
  BY <1>1, InitReconcileSafe, NextReconcileSafe, NextJournal, PTL DEF ReconcileSpec

\* The balances of users the script has not written equal their grant and the
\* sum of their journal.
THEOREM OthersExplained == ReconcileSpec => []OthersStayExplained
<1>1. ReconcileInit => OthersStayExplained
  BY InitExplained DEF ReconcileInit, LedgerExplainsBalance, OthersStayExplained
<1>2. ReconcileSafe /\ Journal /\ OthersStayExplained /\ [ReconcileNext]_reconcileVars
        => OthersStayExplained'
  <2> SUFFICES ASSUME ReconcileSafe, Journal, OthersStayExplained,
                      [ReconcileNext]_reconcileVars
               PROVE  OthersStayExplained'
    OBVIOUS
  <2>1. CASE [Next]_vars /\ rewritten' = rewritten
    <3> SUFFICES ASSUME NEW v \in Users \ rewritten PROVE Explained(v)'
      BY <2>1 DEF OthersStayExplained
    <3>1. Explained(v)
      BY DEF OthersStayExplained
    <3> QED
      BY <2>1, <3>1, NextExplained DEF ReconcileSafe, Journal
  <2>2. ASSUME NEW u \in Users, Rewrite(u) PROVE OthersStayExplained'
    <3>1. /\ \A v \in Users \ {u} : balance'[v] = balance[v]
          /\ granted' = granted /\ posted' = posted /\ rewritten' = rewritten \cup {u}
      BY <2>2 DEF Rewrite, rows, ReconcileSafe, Safe, TypeOK
    <3> QED
      BY <3>1 DEF OthersStayExplained, Explained
  <2> QED
    BY <2>1, <2>2, ScriptSteps
<1> QED
  BY <1>1, <1>2, InitReconcileSafe, NextReconcileSafe, NextJournal,
     InitUsers, InitJobs, InitSettled, InitTopups, PTL DEF ReconcileSpec, ReconcileInit, Journal

-----------------------------------------------------------------------------
(* A user whose transactions come one after the other, and not while the    *)
(* script runs, has a newest row that carries the balance.                  *)

Open(s, u) == tx[s] # Idle /\ UserOf(tx[s]) = u

Alone(u) ==
    /\ \A s, q \in Sessions : Open(s, u) /\ Open(q, u) => s = q
    /\ \A s \in Sessions : Open(s, u) =>
          /\ script = Off
          /\ \A k \in Kinds : latest[u][k].at < tx[s].at
          /\ tx[s].op = "charge" => tx[s].read = balance[u]
    /\ \A k \in Kinds : latest[u][k].at # 0 => latest[u][k].after = balance[u][k]
    /\ script.at = "users" /\ u \in DOMAIN script.seen => script.seen[u] = balance[u]
    /\ script.at = "writes" => u \notin DOMAIN script.todo

\* Rows and transactions are no younger than the clock, and a user nobody has
\* seen has no rows and is not read.
Dated ==
    /\ \A u \in Users, k \in Kinds :
          /\ latest[u][k].at <= clock
          /\ u \notin known => latest[u][k].at = 0
    /\ \A s \in Sessions : tx[s] # Idle => tx[s].at \in Nat /\ tx[s].at <= clock
    /\ script.at = "users" => DOMAIN script.seen \subseteq known

Orderly ==
    /\ Dated
    /\ rewritten \subseteq crowded
    /\ \A u \in Users \ crowded : Alone(u)

\* Nothing has begun.
LEMMA InitOrderly == ReconcileInit => Orderly
  BY DEF ReconcileInit, Init, Orderly, Dated, Alone, Open, Off

\* A transaction concerns a user that is known.
LEMMA OpenIsKnown ==
    ASSUME TypeOK, UsersInFlight, NEW s \in Sessions, tx[s] # Idle
    PROVE  UserOf(tx[s]) \in known /\ UserOf(tx[s]) \in Users
<1>1. tx[s] \in Transactions
  BY DEF TypeOK
<1> QED
  BY <1>1, UserType DEF Transactions, UserOf, UsersInFlight

\* A transaction of a user that is not crowded begins alone.
LEMMA OpenAlone ==
    ASSUME TypeOK, NEW v \in Users, Alone(v), Dated,
           NEW s \in Sessions, NEW t,
           tx[s] = Idle, t # Idle, t.at = clock + 1, t.op # "charge",
           tx' = [tx EXCEPT ![s] = t],
           UserOf(t) = v => script = Off /\ v \notin Busy,
           UNCHANGED <<balance, latest, script>>
    PROVE  Alone(v)'
<1>1. \A q \in Sessions : q # s => tx'[q] = tx[q] /\ (Open(q, v)' <=> Open(q, v))
  BY DEF TypeOK, Open
<1>2. tx'[s] = t /\ (Open(s, v)' <=> UserOf(t) = v)
  BY DEF TypeOK, Open
<1>3. CASE UserOf(t) = v
  <2>1. \A q \in Sessions : q # s => ~ Open(q, v)'
    BY <1>1, <1>3 DEF Busy, Open
  <2>2. \A k \in Kinds : latest[v][k].at < t.at
    BY DEF Dated, TypeOK
  <2> QED
    BY <1>1, <1>2, <1>3, <2>1, <2>2 DEF Alone
<1>4. CASE UserOf(t) # v
  BY <1>1, <1>2, <1>4 DEF Alone
<1> QED
  BY <1>3, <1>4

\* Transactions that end without a row leave everybody alone.
LEMMA CloseAlone ==
    ASSUME NEW v \in Users, Alone(v),
           \A q \in Sessions : tx'[q] = tx[q] \/ tx'[q] = Idle,
           UNCHANGED <<balance, latest, script>>
    PROVE  Alone(v)'
<1>1. \A q \in Sessions : Open(q, v)' => Open(q, v) /\ tx'[q] = tx[q]
  BY DEF Open
<1> QED
  BY <1>1 DEF Alone

\* A row that is newer than the others carries the balance it leaves.
LEMMA PostAlone ==
    ASSUME TypeOK, NEW v \in Users, Alone(v), Dated,
           NEW s \in Sessions, NEW u \in Users, Open(s, u),
           NEW d \in [Kinds -> Int], NEW after \in [Kinds -> Int],
           Post(u, d, after, tx[s].at),
           balance' = [balance EXCEPT ![u] = Plus(@, d)],
           u = v => after = Plus(balance[u], d),
           tx' = [tx EXCEPT ![s] = Idle], UNCHANGED script
    PROVE  Alone(v)'
<1>1. \A q \in Sessions : Open(q, v)' => q # s /\ Open(q, v) /\ tx'[q] = tx[q]
  BY DEF TypeOK, Open
<1>2. CASE u # v
  <2>1. latest'[v] = latest[v] /\ balance'[v] = balance[v]
    BY <1>2 DEF Post, TypeOK
  <2> QED
    BY <1>1, <2>1 DEF Alone
<1>3. CASE u = v
  <2>1. script = Off /\ \A k \in Kinds : latest[v][k].at < tx[s].at
    BY <1>3 DEF Alone
  <2>2. \A q \in Sessions : ~ Open(q, v)'
    BY <1>1, <1>3 DEF Alone
  <2>3. \A k \in Kinds : balance'[v][k] = balance[v][k] + d[k] /\ after[k] = balance'[v][k]
    BY <1>3 DEF Plus, TypeOK
  <2>4. tx[s].at \in Nat
    BY DEF Dated, Open
  <2>5. ASSUME NEW k \in Kinds, latest'[v][k].at # 0
        PROVE  latest'[v][k].after = balance'[v][k]
    <3>1. latest'[v][k] = IF d[k] # 0 /\ tx[s].at >= latest[v][k].at
                          THEN [at |-> tx[s].at, after |-> after[k]]
                          ELSE latest[v][k]
      BY <1>3 DEF Post, TypeOK
    <3>2. latest[v][k].at \in Nat
      BY DEF TypeOK
    <3>3. CASE d[k] # 0
      BY <2>1, <2>3, <2>4, <3>1, <3>2, <3>3
    <3>4. CASE d[k] = 0
      <4>1. balance'[v][k] = balance[v][k]
        BY <2>3, <3>4 DEF TypeOK
      <4>2. latest'[v][k] = latest[v][k]
        BY <3>1, <3>4
      <4> QED
        BY <2>5, <4>1, <4>2 DEF Alone
    <3> QED
      BY <3>3, <3>4
  <2> QED
    BY <2>1, <2>2, <2>5 DEF Alone, Off
<1> QED
  BY <1>2, <1>3

\* A transaction that begins is dated by the clock; the others keep their dates.
LEMMA OpenDated ==
    ASSUME TypeOK, Dated, NEW s \in Sessions, NEW t, t.at = clock + 1,
           tx' = [tx EXCEPT ![s] = t], clock' = clock + 1,
           UNCHANGED <<latest, known, script>>
    PROVE  Dated'
<1>1. \A q \in Sessions : tx'[q] = tx[q] \/ tx'[q] = t
  BY DEF TypeOK
<1> QED
  BY <1>1 DEF Dated, TypeOK

\* A row is dated by its transaction, whose user is known.
LEMMA PostDated ==
    ASSUME TypeOK, Dated, NEW s \in Sessions, NEW u \in known, tx[s] # Idle,
           NEW d, NEW after, Post(u, d, after, tx[s].at), tx' = [tx EXCEPT ![s] = Idle],
           UNCHANGED <<clock, known, script>>
    PROVE  Dated'
<1>1. tx[s].at \in Nat /\ tx[s].at <= clock /\ u \in Users
  BY DEF Dated, TypeOK
<1>2. \A v \in Users, k \in Kinds :
        /\ latest'[v][k].at = latest[v][k].at \/ latest'[v][k].at = tx[s].at
        /\ v # u => latest'[v][k] = latest[v][k]
  BY <1>1 DEF Post, TypeOK
<1>3. \A q \in Sessions : tx'[q] = tx[q] \/ tx'[q] = Idle
  BY DEF TypeOK
<1>4. \A v \in Users, k \in Kinds :
        latest'[v][k].at <= clock /\ (v \notin known => latest'[v][k].at = 0)
  <2> SUFFICES ASSUME NEW v \in Users, NEW k \in Kinds
               PROVE  latest'[v][k].at <= clock /\ (v \notin known => latest'[v][k].at = 0)
    OBVIOUS
  <2>1. latest[v][k].at <= clock /\ (v \notin known => latest[v][k].at = 0)
    BY DEF Dated
  <2>2. latest'[v][k].at = latest[v][k].at \/ latest'[v][k].at = tx[s].at
    BY <1>2
  <2>3. v # u => latest'[v][k].at = latest[v][k].at
    BY <1>2
  <2> QED
    BY <1>1, <2>1, <2>2, <2>3
<1> QED
  BY <1>3, <1>4 DEF Dated

\* The step of the ledger that posts a row.
LEMMA PostOrderly ==
    ASSUME TypeOK, UsersInFlight, Orderly, rewritten' = rewritten,
           crowded \subseteq crowded', NEW s \in Sessions, NEW u \in Users, Open(s, u),
           NEW d \in [Kinds -> Int], NEW after \in [Kinds -> Int],
           Post(u, d, after, tx[s].at),
           balance' = [balance EXCEPT ![u] = Plus(@, d)],
           u \notin crowded => after = Plus(balance[u], d),
           tx' = [tx EXCEPT ![s] = Idle], UNCHANGED <<clock, known, script>>
    PROVE  Orderly'
<1>1. u \in known
  BY OpenIsKnown DEF Open
<1>2. Dated'
  BY <1>1, PostDated DEF Orderly, Open
<1>3. \A v \in Users \ crowded' : Alone(v)'
  BY PostAlone DEF Orderly
<1> QED
  BY <1>2, <1>3 DEF Orderly

\* The step of the ledger that begins a transaction.
LEMMA OpenOrderly ==
    ASSUME TypeOK, Orderly, LedgerStep, NEW s \in Sessions, NEW t,
           tx[s] = Idle, t # Idle, t.at = clock + 1, t.op # "charge",
           tx' = [tx EXCEPT ![s] = t], clock' = clock + 1,
           UNCHANGED <<balance, latest, known>>
    PROVE  Orderly'
<1>1. script' = script /\ rewritten' = rewritten /\ crowded \subseteq crowded'
  BY DEF LedgerStep
<1>2. Dated'
  BY <1>1, OpenDated DEF Orderly
<1>3. ASSUME NEW v \in Users \ crowded' PROVE Alone(v)'
  <2>1. Alone(v)
    BY <1>1 DEF Orderly
  <2>2. tx'[s] = t
    BY DEF TypeOK
  <2>3. UserOf(t) = v => script = Off /\ v \notin Busy
    BY <1>3, <2>2 DEF LedgerStep
  <2> QED
    BY <1>1, <2>1, <2>3, OpenAlone DEF Orderly
<1> QED
  BY <1>1, <1>2, <1>3 DEF Orderly

\* Every step of the ledger keeps the order.
LEMMA LedgerOrderly ==
    ASSUME ReconcileSafe, UsersInFlight, Orderly, LedgerStep
    PROVE  Orderly'
<1> USE OwnerAssumption, CostAssumption, AmountAssumption
<1>0. /\ script' = script /\ rewritten' = rewritten /\ crowded \subseteq crowded'
      /\ TypeOK /\ Next
  BY DEF LedgerStep, ReconcileSafe, Safe
<1>1. ASSUME NEW u \in Users, GetOrCreate(u) PROVE Orderly'
  <2>1. \A q \in Sessions : ~ Open(q, u)
    BY <1>0, <1>1, OpenIsKnown DEF GetOrCreate, Open
  <2>2. /\ known' = known \cup {u} /\ UNCHANGED <<latest, clock, tx>>
        /\ \A v \in Users : v # u => balance'[v] = balance[v]
    BY <1>0, <1>1 DEF GetOrCreate, rows, TypeOK
  <2>3. Dated'
    BY <1>0, <2>2 DEF Orderly, Dated
  <2>4. Alone(u) => Alone(u)'
    <3>1. /\ \A k \in Kinds : latest[u][k].at = 0
          /\ script.at = "users" => u \notin DOMAIN script.seen
      BY <1>1 DEF GetOrCreate, Orderly, Dated
    <3> QED
      BY <1>0, <2>1, <2>2, <3>1 DEF Alone, Open
  <2>5. \A v \in Users : v # u /\ Alone(v) => Alone(v)'
    BY <1>0, <2>2 DEF Alone, Open
  <2> QED
    BY <1>0, <2>3, <2>4, <2>5 DEF Orderly
<1>2. ASSUME NEW s \in Sessions, NEW j \in Jobs, BeginReserve(s, j) \/ BeginRefund(s, j)
      PROVE  Orderly'
  <2>1. PICK t : /\ t \in [op: {"reserve", "refund"}, job: Jobs, at: {clock + 1}]
                 /\ Begin(s, t) /\ UNCHANGED <<balance, latest, known>>
    BY <1>2 DEF BeginReserve, BeginRefund, rows
  <2>2. t # Idle /\ t.op # "charge" /\ t.at = clock + 1
    BY <2>1 DEF Idle
  <2> QED
    BY <1>0, <2>1, <2>2, OpenOrderly DEF Begin
<1>3. ASSUME NEW s \in Sessions, NEW u \in Users, NEW a \in Amounts,
             \/ \E x \in Txns : BeginTopup(s, u, x, a)
             \/ \E k \in Kinds : BeginAdjust(s, u, k, a)
      PROVE  Orderly'
  <2>1. PICK t : /\ t.op \in {"topup", "adjust"} /\ t.at = clock + 1
                 /\ Begin(s, t) /\ UNCHANGED <<balance, latest, known>>
    BY <1>3 DEF BeginTopup, BeginAdjust, rows
  <2>2. t # Idle /\ t.op # "charge"
    BY <2>1 DEF Idle
  <2> QED
    BY <1>0, <2>1, <2>2, OpenOrderly DEF Begin
<1>4. ASSUME NEW s \in Sessions, ReadUser(s) PROVE Orderly'
  <2> DEFINE w == Owner[tx[s].job]
             t == [op |-> "charge", job |-> tx[s].job, at |-> tx[s].at, read |-> balance[w]]
  <2>1. /\ tx' = [tx EXCEPT ![s] = t] /\ tx[s].op = "reserve"
        /\ UNCHANGED <<balance, latest, known, clock>>
    BY <1>4 DEF ReadUser, rows
  <2>2. UserOf(tx[s]) = w /\ UserOf(t) = w /\ tx[s] # Idle /\ t # Idle
    BY <2>1 DEF UserOf, Idle
  <2>3. t.at = tx[s].at /\ t.read = balance[w] /\ tx'[s] = t
    BY <1>0, <2>1 DEF TypeOK
  <2>4. \A q \in Sessions : q # s => tx'[q] = tx[q]
    BY <1>0, <2>1 DEF TypeOK
  <2> HIDE DEF t, w
  <2>5. \A q \in Sessions, v \in Users : Open(q, v)' <=> Open(q, v)
    BY <2>2, <2>3, <2>4 DEF Open
  <2>6. Dated'
    BY <1>0, <2>1, <2>2, <2>3, <2>4 DEF Orderly, Dated
  <2>7. ASSUME NEW v \in Users, Alone(v) PROVE Alone(v)'
    <3>1. ASSUME NEW q \in Sessions, Open(q, v)
          PROVE  /\ script = Off
                 /\ \A k \in Kinds : latest[v][k].at < tx'[q].at
                 /\ tx'[q].op = "charge" => tx'[q].read = balance[v]
      <4>1. CASE q = s
        BY <2>2, <2>3, <2>7, <3>1, <4>1 DEF Alone, Open
      <4>2. CASE q # s
        BY <2>4, <2>7, <3>1, <4>2 DEF Alone
      <4> QED
        BY <4>1, <4>2
    <3> QED
      BY <1>0, <2>1, <2>5, <2>7, <3>1 DEF Alone
  <2> QED
    BY <1>0, <2>6, <2>7 DEF Orderly
<1>5. ASSUME NEW s \in Sessions, Charge(s) PROVE Orderly'
  <2> DEFINE u == Owner[tx[s].job]
             d == Split(tx[s].read, Cost[tx[s].job])
             after == Minus(tx[s].read, d)
  <2>1. u \in Users /\ tx[s].read \in Credits /\ d \in Credits
    BY <1>0, <1>5, SessionFacts, SplitFacts DEF Charge
  <2>2. Open(s, u) /\ tx[s].op = "charge"
    BY <1>5 DEF Charge, Open, UserOf, Idle
  <2>3. /\ Post(u, Minus(None, d), after, tx[s].at)
        /\ balance' = [balance EXCEPT ![u] = Minus(@, d)]
        /\ tx' = [tx EXCEPT ![s] = Idle] /\ UNCHANGED <<clock, known>>
    BY <1>5 DEF Charge, Close
  <2>4. u \notin crowded => tx[s].read = balance[u]
    BY <2>1, <2>2 DEF Orderly, Alone
  <2> HIDE DEF u, d
  <2>5. /\ Minus(None, d) \in [Kinds -> Int] /\ after \in [Kinds -> Int]
        /\ Minus(balance[u], d) = Plus(balance[u], Minus(None, d))
    BY <1>0, <2>1 DEF Plus, Minus, None, Credits, TypeOK
  <2>6. u \notin crowded => after = Plus(balance[u], Minus(None, d))
    BY <2>4, <2>5
  <2>7. balance' = [balance EXCEPT ![u] = Plus(@, Minus(None, d))]
    BY <2>3, <2>5
  <2> HIDE DEF after
  <2> QED
    BY <1>0, <2>1, <2>2, <2>3, <2>5, <2>6, <2>7, PostOrderly
<1>6. ASSUME NEW s \in Sessions, NEW u \in Users, NEW d \in [Kinds -> Int],
             Open(s, u), Post(u, d, Plus(balance[u], d), tx[s].at),
             balance' = [balance EXCEPT ![u] = Plus(@, d)],
             Close(s), UNCHANGED <<clock, known>>
      PROVE  Orderly'
  <2>1. Plus(balance[u], d) \in [Kinds -> Int]
    BY <1>0 DEF Plus, TypeOK
  <2> QED
    BY <1>0, <1>6, <2>1, PostOrderly DEF Close
<1>7. ASSUME NEW s \in Sessions, Refund(s) PROVE Orderly'
  <2>1. /\ Owner[tx[s].job] \in Users /\ RefundOf(tx[s].job) \in [Kinds -> Int]
        /\ Open(s, Owner[tx[s].job])
    BY <1>0, <1>7, SessionFacts DEF Refund, RefundOf, Credits, TypeOK, Open, UserOf, Idle
  <2> QED
    BY <1>6, <1>7, <2>1 DEF Refund
<1>8. ASSUME NEW s \in Sessions, Topup(s) PROVE Orderly'
  <2>1. tx[s].user \in Users /\ tx[s].amount \in Int /\ Open(s, tx[s].user)
    BY <1>0, <1>8, SessionFacts DEF Topup, Open, UserOf, Idle
  <2>2. Only("paid", tx[s].amount) \in [Kinds -> Int]
    BY <2>1 DEF Only
  <2> QED
    BY <1>6, <1>8, <2>1, <2>2 DEF Topup
<1>9. ASSUME NEW s \in Sessions, Adjust(s) PROVE Orderly'
  <2>0. tx[s].user \in Users /\ tx[s].amount \in Amounts
    BY <1>0, <1>9, SessionFacts DEF Adjust
  <2>1. tx[s].user \in Users /\ tx[s].amount \in Int /\ Open(s, tx[s].user)
    <3>1. tx[s].op = "adjust"
      BY <1>9 DEF Adjust
    <3>2. tx[s] # Idle /\ UserOf(tx[s]) = tx[s].user
      BY <3>1 DEF Idle, UserOf
    <3> QED
      BY <2>0, <3>2 DEF Open
  <2>2. Only(tx[s].kind, tx[s].amount) \in [Kinds -> Int]
    BY <2>1 DEF Only
  <2> QED
    BY <1>6, <1>9, <2>1, <2>2 DEF Adjust
<1>10. ASSUME NEW s \in Sessions,
              RefuseReserve(s) \/ LoseRace(s) \/ RepeatTopup(s) \/ RefuseAdjust(s) \/ Abort(s)
       PROVE  Orderly'
  <2>1. \A q \in Sessions : tx'[q] = tx[q] \/ tx'[q] = Idle
    BY <1>0, <1>10 DEF RefuseReserve, LoseRace, RepeatTopup, RefuseAdjust, Abort, Close,
       TypeOK
  <2>2. UNCHANGED <<balance, latest, known, clock>>
    BY <1>10 DEF RefuseReserve, LoseRace, RepeatTopup, RefuseAdjust, Abort, rows
  <2>3. Dated'
    BY <1>0, <2>1, <2>2 DEF Orderly, Dated
  <2> QED
    BY <1>0, <2>1, <2>2, <2>3, CloseAlone DEF Orderly
<1> QED
  BY <1>0, <1>1, <1>2, <1>3, <1>4, <1>5, <1>7, <1>8, <1>9, <1>10 DEF Next

\* What the script reads are the balances; of users that are alone, it finds
\* nothing to write.
LEMMA NextOrderly ==
    ReconcileSafe /\ UsersInFlight /\ Orderly /\ [ReconcileNext]_reconcileVars => Orderly'
<1> SUFFICES ASSUME ReconcileSafe, UsersInFlight, Orderly, [ReconcileNext]_reconcileVars
             PROVE  Orderly'
  OBVIOUS
<1>1. CASE LedgerStep
  BY <1>1, LedgerOrderly
<1>2. CASE ReadUsers
  <2>1. /\ UNCHANGED <<balance, latest, known, clock, tx, rewritten>>
        /\ script' = [at |-> "users", seen |-> [u \in known |-> balance[u]]]
        /\ crowded' = crowded \cup Busy
    BY <1>2 DEF ReadUsers, vars, rows
  <2>2. Dated'
    BY <2>1 DEF Orderly, Dated
  <2>3. ASSUME NEW v \in Users \ crowded' PROVE Alone(v)'
    <3>1. Alone(v) /\ v \notin Busy
      BY <2>1, <2>3 DEF Orderly
    <3>2. \A q \in Sessions : ~ Open(q, v)'
      BY <2>1, <3>1 DEF Open, Busy
    <3> QED
      BY <2>1, <3>1, <3>2 DEF Alone
  <2> QED
    BY <2>1, <2>2, <2>3 DEF Orderly
<1>3. CASE ReadJournal
  <2> DEFINE seen == script.seen
             wrong == {u \in DOMAIN seen : Expected(u, seen[u]) # seen[u]}
             todo == [u \in wrong |-> Expected(u, seen[u])]
  <2>1. /\ UNCHANGED <<balance, latest, known, clock, tx, rewritten, crowded>>
        /\ script' = Off \/ script' = [at |-> "writes", todo |-> todo]
        /\ script.at = "users" /\ script # Off
    BY <1>3 DEF ReadJournal, vars, rows, Off
  <2>2. ASSUME NEW v \in Users, Alone(v), v \in DOMAIN seen
        PROVE  Expected(v, seen[v]) = seen[v]
    <3>1. seen[v] = balance[v]
      BY <2>1, <2>2 DEF Alone
    <3>2. \A k \in Kinds : latest[v][k].at # 0 => latest[v][k].after = seen[v][k]
      BY <2>2, <3>1 DEF Alone
    <3>3. seen[v] \in [Kinds -> Int]
      BY <3>1 DEF ReconcileSafe, Safe, TypeOK
    <3> HIDE DEF seen
    <3> QED
      BY <3>2, <3>3 DEF Expected
  <2>3. \A v \in Users : Alone(v) => v \notin DOMAIN todo
    BY <2>2
  <2> HIDE DEF todo
  <2>4. Dated'
    BY <2>1 DEF Orderly, Dated, Off
  <2>5. ASSUME NEW v \in Users, Alone(v) PROVE Alone(v)'
    BY <2>1, <2>3, <2>5 DEF Alone, Open, Off
  <2> QED
    BY <2>1, <2>4, <2>5 DEF Orderly
<1>4. ASSUME NEW u \in Users, Rewrite(u) PROVE Orderly'
  <2> DEFINE rest == DOMAIN script.todo \ {u}
             left == [v \in rest |-> script.todo[v]]
  <2>1. /\ UNCHANGED <<latest, known, clock, tx, crowded>>
        /\ balance' = [balance EXCEPT ![u] = script.todo[u]]
        /\ rewritten' = rewritten \cup {u}
        /\ script.at = "writes" /\ u \in DOMAIN script.todo
        /\ script' = Off \/ script' = [at |-> "writes", todo |-> left]
    BY <1>4 DEF Rewrite, rows
  <2>2. DOMAIN left \subseteq DOMAIN script.todo
    OBVIOUS
  <2> HIDE DEF left
  <2>3. u \in crowded
    BY <2>1 DEF Orderly, Alone
  <2>4. Dated'
    BY <2>1 DEF Orderly, Dated, Off
  <2>5. ASSUME NEW v \in Users \ crowded PROVE Alone(v)'
    <3>1. Alone(v) /\ balance'[v] = balance[v]
      BY <2>1, <2>3, <2>5 DEF Orderly, ReconcileSafe, Safe, TypeOK
    <3>2. \A q \in Sessions : ~ Open(q, v)
      BY <2>1, <3>1 DEF Alone, Off
    <3> QED
      BY <2>1, <2>2, <3>1, <3>2 DEF Alone, Open, Off
  <2> QED
    BY <2>1, <2>3, <2>4, <2>5 DEF Orderly
<1>5. CASE Interrupt
  <2>1. /\ UNCHANGED <<balance, latest, known, clock, tx, rewritten, crowded>>
        /\ script' = Off
    BY <1>5 DEF Interrupt, vars, rows
  <2> QED
    BY <2>1 DEF Orderly, Dated, Alone, Open, Off
<1>6. CASE UNCHANGED reconcileVars
  <2>1. UNCHANGED <<balance, latest, known, clock, tx, rewritten, crowded, script>>
    BY <1>6 DEF reconcileVars, scriptVars, vars, rows
  <2> QED
    BY <2>1 DEF Orderly, Dated, Alone, Open
<1> QED
  BY <1>1, <1>2, <1>3, <1>4, <1>5, <1>6 DEF ReconcileNext

\* aimg reconcile-balances never writes the balance of a user whose transactions
\* came one after the other and not while it ran.
THEOREM RewritesAreLate == ReconcileSpec => []RewritesFollowOverlaps
<1>1. Orderly => RewritesFollowOverlaps
  BY DEF Orderly, RewritesFollowOverlaps
<1>2. Journal => UsersInFlight
  BY DEF Journal
<1>3. ReconcileInit => Journal
  BY InitUsers, InitJobs, InitSettled, InitTopups DEF ReconcileInit, Journal
<1> QED
  BY <1>1, <1>2, <1>3, InitOrderly, InitReconcileSafe, NextOrderly, NextReconcileSafe,
     NextJournal, PTL DEF ReconcileSpec

-----------------------------------------------------------------------------
(* What such a user is charged *)

\* A split of what the user has takes paid credits when the free ones are used
\* up, and leaves nothing negative.
LEMMA SplitOrder ==
    ASSUME NEW b \in Credits, NEW c \in Nat
    PROVE  /\ Split(b, c)["paid"] > 0 => Minus(b, Split(b, c))["free"] = 0
           /\ Affordable(b, c) => \A k \in Kinds : b[k] + Minus(None, Split(b, c))[k] >= 0
<1> DEFINE d == Split(b, c)
<1>1. b["free"] \in Nat /\ b["paid"] \in Nat
  BY DEF Credits, Kinds
<1>2. /\ d["free"] = IF c <= b["free"] THEN c ELSE b["free"]
      /\ d["paid"] = c - (IF c <= b["free"] THEN c ELSE b["free"])
  BY DEF Split
<1>3. d \in [Kinds -> Int]
  BY SplitFacts DEF Credits
<1> HIDE DEF d
<1>4. Minus(b, d)["free"] = b["free"] - d["free"]
  BY DEF Minus, Kinds
<1>5. \A k \in Kinds : Minus(None, d)[k] = 0 - d[k]
  BY DEF Minus, None
<1>6. d["paid"] > 0 => Minus(b, d)["free"] = 0
  BY <1>1, <1>2, <1>4
<1>7. ASSUME Affordable(b, c), NEW k \in Kinds PROVE b[k] + Minus(None, d)[k] >= 0
  <2>1. b["free"] + b["paid"] >= c
    BY <1>7 DEF Affordable
  <2>2. b["free"] + (0 - d["free"]) >= 0 /\ b["paid"] + (0 - d["paid"]) >= 0
    BY <1>1, <1>2, <2>1
  <2>3. CASE k = "free"
    BY <1>5, <2>2, <2>3
  <2>4. CASE k = "paid"
    BY <1>5, <2>2, <2>4
  <2> QED
    BY <2>3, <2>4 DEF Kinds
<1> QED
  BY <1>6, <1>7 DEF d

\* A reservation of a user that is not crowded still has the balance before it
\* that it read.
LEMMA ChargeReadsTrue ==
    ASSUME ReconcileSafe, Orderly, NEW s \in Sessions, tx[s].op = "charge",
           UserOf(tx[s]) \notin crowded
    PROVE  /\ tx[s].job \in Jobs /\ Owner[tx[s].job] \in Users
           /\ UserOf(tx[s]) = Owner[tx[s].job]
           /\ tx[s].read = balance[Owner[tx[s].job]]
           /\ tx[s].read \in Credits
           /\ Affordable(tx[s].read, Cost[tx[s].job])
<1>1. tx[s].job \in Jobs /\ tx[s].read \in Credits
  BY SessionFacts DEF ReconcileSafe, Safe
<1>2. UserOf(tx[s]) = Owner[tx[s].job] /\ tx[s] # Idle
  BY DEF UserOf, Idle
<1>3. Owner[tx[s].job] \in Users
  BY <1>1, OwnerAssumption
<1>4. Alone(Owner[tx[s].job]) /\ Open(s, Owner[tx[s].job])
  BY <1>2, <1>3 DEF Orderly, Open
<1>5. tx[s].read = balance[Owner[tx[s].job]]
  BY <1>4 DEF Alone
<1> QED
  BY <1>1, <1>2, <1>3, <1>5 DEF ReconcileSafe, RowsSafe

\* Jobs are created by charges.
LEMMA OnlyCharges == Next => created' = created \/ \E s \in Sessions : Charge(s)
<1>1. ASSUME NEW s \in Sessions,
             \/ ReadUser(s) \/ RefuseReserve(s) \/ LoseRace(s) \/ Refund(s)
             \/ Topup(s) \/ RepeatTopup(s) \/ Adjust(s) \/ RefuseAdjust(s) \/ Abort(s)
      PROVE  created' = created
  BY <1>1 DEF ReadUser, RefuseReserve, LoseRace, Refund, Topup, RepeatTopup, Adjust,
              RefuseAdjust, Abort
<1>2. ASSUME NEW s \in Sessions,
             \/ \E j \in Jobs : BeginReserve(s, j) \/ BeginRefund(s, j)
             \/ \E u \in Users, x \in Txns, a \in Amounts : BeginTopup(s, u, x, a)
             \/ \E u \in Users, k \in Kinds, a \in Amounts : BeginAdjust(s, u, k, a)
      PROVE  created' = created
  BY <1>2 DEF BeginReserve, BeginRefund, BeginTopup, BeginAdjust
<1>3. ASSUME NEW u \in Users, GetOrCreate(u) PROVE created' = created
  BY <1>3 DEF GetOrCreate
<1> QED
  BY <1>1, <1>2, <1>3 DEF Next

\* So the split fits the balance it is taken from, and the UPDATE finds it.
LEMMA StepInOrder ==
    ASSUME ReconcileSafe, Orderly, [ReconcileNext]_reconcileVars
    PROVE  /\ \A j \in created' \ created :
                 Owner[j] \notin crowded /\ charged'[j]["paid"] > 0 =>
                    balance'[Owner[j]]["free"] = 0
           /\ \A s \in Sessions : LoseRace(s) => UserOf(tx[s]) \in crowded
<1> USE CostAssumption
<1>1. ASSUME NEW j \in created' \ created, Owner[j] \notin crowded, charged'[j]["paid"] > 0
      PROVE  balance'[Owner[j]]["free"] = 0
  <2>1. PICK s \in Sessions : Charge(s) /\ j = tx[s].job
    <3>1. Next
      BY DEF ReconcileNext, LedgerStep, ReadUsers, ReadJournal, Rewrite, Interrupt,
             reconcileVars, vars
    <3>2. ASSUME NEW s \in Sessions, Charge(s) PROVE created' = created \cup {tx[s].job}
      BY <3>2 DEF Charge
    <3> QED
      BY <3>1, <3>2, OnlyCharges
  <2> DEFINE u == Owner[j]
             d == Split(tx[s].read, Cost[j])
  <2>2. /\ tx[s].op = "charge"
        /\ balance' = [balance EXCEPT ![u] = Minus(@, d)]
        /\ charged' = [charged EXCEPT ![j] = d]
    BY <2>1 DEF Charge
  <2>3. UserOf(tx[s]) \notin crowded
    BY <1>1, <2>1, <2>2 DEF UserOf
  <2>4. j \in Jobs /\ u \in Users /\ tx[s].read = balance[u] /\ tx[s].read \in Credits
    BY <2>1, <2>2, <2>3, ChargeReadsTrue
  <2>5. d["paid"] > 0 => Minus(tx[s].read, d)["free"] = 0
    BY <2>4, SplitOrder
  <2> HIDE DEF d
  <2>6. charged'[j] = d /\ balance'[u] = Minus(balance[u], d)
    BY <2>2, <2>4 DEF ReconcileSafe, Safe, TypeOK
  <2> QED
    BY <1>1, <2>4, <2>5, <2>6
<1>2. ASSUME NEW s \in Sessions, LoseRace(s), UserOf(tx[s]) \notin crowded PROVE FALSE
  <2> DEFINE u == Owner[tx[s].job]
             d == Split(tx[s].read, Cost[tx[s].job])
  <2>1. tx[s].op = "charge" /\ ~ UpdateAllowed(u, Minus(None, d))
    BY <1>2 DEF LoseRace
  <2>2. \A k \in Kinds : balance[u][k] + Minus(None, d)[k] >= 0
    BY <1>2, <2>1, ChargeReadsTrue, SplitOrder
  <2> QED
    BY <2>1, <2>2 DEF UpdateAllowed
<1> QED
  BY <1>1, <1>2

\* A user whose transactions do not overlap is charged free credits first, and
\* is never refused for a race.
THEOREM ChargesInOrder == ReconcileSpec => ChargedInOrderAlone
<1>1. ReconcileSafe /\ Orderly /\ [ReconcileNext]_reconcileVars =>
        [/\ \A j \in created' \ created :
               Owner[j] \notin crowded /\ charged'[j]["paid"] > 0 =>
                  balance'[Owner[j]]["free"] = 0
         /\ \A s \in Sessions : LoseRace(s) => UserOf(tx[s]) \in crowded]_reconcileVars
  BY StepInOrder
<1>2. Journal => UsersInFlight
  BY DEF Journal
<1>3. ReconcileInit => Journal
  BY InitUsers, InitJobs, InitSettled, InitTopups DEF ReconcileInit, Journal
<1> QED
  BY <1>1, <1>2, <1>3, InitOrderly, InitReconcileSafe, NextOrderly, NextReconcileSafe,
     NextJournal, PTL DEF ReconcileSpec, ChargedInOrderAlone

-----------------------------------------------------------------------------
(* What has committed is a sequence of whole operations *)

\* The script reads and writes users that are known.
ScriptKnows ==
    /\ script.at = "users" => DOMAIN script.seen \subseteq known
    /\ script.at = "writes" => DOMAIN script.todo \subseteq known

\* Users stay known.
LEMMA KnownGrows == [ReconcileNext]_reconcileVars => known \subseteq known'
<1>1. ASSUME NEW s \in Sessions,
             \/ ReadUser(s) \/ RefuseReserve(s) \/ Charge(s) \/ LoseRace(s) \/ Refund(s)
             \/ Topup(s) \/ RepeatTopup(s) \/ Adjust(s) \/ RefuseAdjust(s) \/ Abort(s)
      PROVE  known' = known
  BY <1>1 DEF ReadUser, RefuseReserve, Charge, LoseRace, Refund, Topup, RepeatTopup, Adjust,
              RefuseAdjust, Abort
<1>2. ASSUME NEW s \in Sessions,
             \/ \E j \in Jobs : BeginReserve(s, j) \/ BeginRefund(s, j)
             \/ \E u \in Users, x \in Txns, a \in Amounts : BeginTopup(s, u, x, a)
             \/ \E u \in Users, k \in Kinds, a \in Amounts : BeginAdjust(s, u, k, a)
      PROVE  known' = known
  BY <1>2 DEF BeginReserve, BeginRefund, BeginTopup, BeginAdjust
<1>3. ASSUME NEW u \in Users, GetOrCreate(u) PROVE known \subseteq known'
  BY <1>3 DEF GetOrCreate
<1>4. Next => known \subseteq known'
  BY <1>1, <1>2, <1>3 DEF Next
<1> QED
  BY <1>4 DEF ReconcileNext, LedgerStep, ReadUsers, ReadJournal, Rewrite, Interrupt,
     reconcileVars, vars

\* What the script has read and has to write stays among them.
LEMMA NextScriptKnows == ScriptKnows /\ [ReconcileNext]_reconcileVars => ScriptKnows'
<1> SUFFICES ASSUME ScriptKnows, [ReconcileNext]_reconcileVars PROVE ScriptKnows'
  OBVIOUS
<1>1. known \subseteq known'
  BY KnownGrows
<1>2. CASE script' = script
  BY <1>1, <1>2 DEF ScriptKnows
<1>3. CASE script' = Off
  BY <1>3 DEF ScriptKnows, Off
<1>4. CASE ReadUsers
  BY <1>1, <1>4 DEF ReadUsers, ScriptKnows
<1>5. CASE ReadJournal /\ script' # Off
  <2> DEFINE seen == script.seen
             wrong == {u \in DOMAIN seen : Expected(u, seen[u]) # seen[u]}
             todo == [u \in wrong |-> Expected(u, seen[u])]
  <2>1. script' = [at |-> "writes", todo |-> todo] /\ script.at = "users"
    BY <1>5 DEF ReadJournal
  <2>2. DOMAIN todo \subseteq known
    BY <2>1 DEF ScriptKnows
  <2> HIDE DEF todo
  <2> QED
    BY <1>1, <2>1, <2>2 DEF ScriptKnows
<1>6. ASSUME NEW u \in Users, Rewrite(u), script' # Off PROVE ScriptKnows'
  <2> DEFINE rest == DOMAIN script.todo \ {u}
             left == [v \in rest |-> script.todo[v]]
  <2>1. script' = [at |-> "writes", todo |-> left] /\ script.at = "writes"
    BY <1>6 DEF Rewrite
  <2>2. DOMAIN left \subseteq known
    BY <2>1 DEF ScriptKnows
  <2> HIDE DEF left
  <2> QED
    BY <1>1, <2>1, <2>2 DEF ScriptKnows
<1> QED
  BY <1>2, <1>3, <1>4, <1>5, <1>6 DEF ReconcileNext, LedgerStep, Interrupt, reconcileVars,
     scriptVars

\* A change of a balance that is posted, and leaves nothing negative, is a move.
LEMMA MoveFacts ==
    ASSUME Safe, NEW u \in known, NEW d \in [Kinds -> Int], UpdateAllowed(u, d),
           balance' = [balance EXCEPT ![u] = Plus(@, d)],
           posted' = [posted EXCEPT ![u] = Plus(@, d)]
    PROVE  Accounts!Move(u, d)
<1>1. Kinds = Accounts!Kinds
  BY DEF Kinds, Accounts!Kinds
<1>2. \A b : Plus(b, d) = Accounts!Sum(b, d)
  BY <1>1 DEF Plus, Accounts!Sum
<1> QED
  BY <1>1, <1>2 DEF UpdateAllowed, Accounts!Move

\* Balances that are not negative allow every increase.
LEMMA IncreaseAllowed ==
    ASSUME Safe, NEW u \in Users, NEW d \in Credits
    PROVE  UpdateAllowed(u, d) /\ d \in [Kinds -> Int]
  BY DEF Safe, TypeOK, NonNegative, Credits, UpdateAllowed

\* A reservation that commits takes one part of its cost from each kind.
LEMMA ChargePromised ==
    ASSUME Safe, UsersInFlight, JobsInFlight, NEW s \in Sessions, Charge(s),
           rewritten' = rewritten
    PROVE  \E j \in Jobs : Accounts!Charge(j)
<1> DEFINE j == tx[s].job
           u == Owner[j]
           d == Split(tx[s].read, Cost[j])
           m == [k \in Accounts!Kinds |-> 0 - d[k]]
<1> USE CostAssumption
<1>1. tx[s].op = "charge" /\ j \in Jobs /\ tx[s].read \in Credits /\ Cost[j] \in Nat
  BY SessionFacts DEF Charge, Safe
<1>2. u \in known /\ u \in Users /\ j \notin created
  BY <1>1, OwnerAssumption DEF UsersInFlight, JobsInFlight
<1>3. d \in Credits /\ d["free"] + d["paid"] = Cost[j]
  BY <1>1, SplitFacts
<1>4. /\ UpdateAllowed(u, Minus(None, d))
      /\ balance' = [balance EXCEPT ![u] = Minus(@, d)]
      /\ charged' = [charged EXCEPT ![j] = d]
      /\ posted' = [posted EXCEPT ![u] = Plus(@, Minus(None, d))]
      /\ created' = created \cup {j}
      /\ UNCHANGED <<known, refunded, credited>>
  BY DEF Charge, Post
<1> HIDE DEF j, u, d
<1>5. Minus(None, d) = m
  BY DEF Minus, None, Kinds, Accounts!Kinds
<1>6. Minus(None, d) \in [Kinds -> Int]
  BY <1>3 DEF Minus, None, Credits
<1>7. Minus(balance[u], d) = Plus(balance[u], Minus(None, d))
  BY <1>2, <1>3 DEF Plus, Minus, None, Credits, Safe, TypeOK
<1>8. Accounts!Move(u, m)
  <2>1. balance' = [balance EXCEPT ![u] = Plus(@, Minus(None, d))]
    BY <1>4, <1>7
  <2>2. Accounts!Move(u, Minus(None, d))
    BY <1>2, <1>4, <1>6, <2>1, MoveFacts
  <2> QED
    BY <1>5, <2>2
<1>9. d \in Accounts!Parts(Cost[j])
  <2>1. d["free"] \in Nat /\ d["paid"] \in Nat
    BY <1>3 DEF Credits, Kinds
  <2>2. d["free"] \in 0 .. Cost[j] /\ d["paid"] \in 0 .. Cost[j]
    BY <1>1, <1>3, <2>1
  <2>3. d \in [Accounts!Kinds -> 0 .. Cost[j]]
    BY <1>3, <2>2 DEF Credits, Kinds, Accounts!Kinds
  <2> QED
    BY <1>3, <2>3 DEF Accounts!Parts
<1>10. Accounts!Charge(j)
  BY <1>2, <1>4, <1>8, <1>9 DEF Accounts!Charge, u
<1> QED
  BY <1>1, <1>10

\* So are a refund, a top-up and an adjustment.
LEMMA OthersPromised ==
    ASSUME Safe, UsersInFlight, JobsInFlight, JobsSettled, TopupCountsOnce,
           NEW s \in Sessions, Refund(s) \/ Topup(s) \/ Adjust(s), rewritten' = rewritten
    PROVE  Accounts!Next
<1> USE OwnerAssumption, AmountAssumption
<1>1. CASE Refund(s)
  <2> DEFINE j == tx[s].job
             u == Owner[j]
  <2>1. j \in Jobs /\ u \in known /\ u \in Users /\ j \in created
    BY <1>1, SessionFacts DEF Refund, Safe, UsersInFlight, JobsInFlight
  <2>2. charged[j] \in Credits
    BY <2>1 DEF Safe, TypeOK
  <2>3. /\ balance' = [balance EXCEPT ![u] = Plus(@, charged[j])]
        /\ posted' = [posted EXCEPT ![u] = Plus(@, charged[j])]
        /\ refunded' = [refunded EXCEPT ![j] = Plus(@, charged[j])]
        /\ UNCHANGED <<known, created, charged, credited>>
    BY <1>1 DEF Refund, RefundOf, Post
  <2>4. Accounts!Move(u, charged[j])
    BY <2>1, <2>2, <2>3, IncreaseAllowed, MoveFacts
  <2>5. \A b : Plus(b, charged[j]) = Accounts!Sum(b, charged[j])
    BY DEF Plus, Kinds, Accounts!Sum, Accounts!Kinds
  <2>6. Accounts!Refund(j)
    BY <2>1, <2>3, <2>4, <2>5 DEF Accounts!Refund
  <2> QED
    BY <2>1, <2>6 DEF Accounts!Next
<1>2. CASE Topup(s)
  <2> DEFINE u == tx[s].user
             x == tx[s].txn
             a == tx[s].amount
             d == Only("paid", a)
  <2>1. u \in known /\ u \in Users /\ x \in Txns /\ a \in Amounts /\ a > 0
    <3>1. tx[s].op = "topup"
      BY <1>2 DEF Topup
    <3>2. tx[s] \in [op: {"topup"}, user: Users, txn: Txns,
                     amount: {n \in Amounts : n > 0}, at: Nat]
      BY <3>1, SessionFacts DEF Safe
    <3>3. tx[s].user \in known
      BY <3>1 DEF UsersInFlight
    <3>4. tx[s].user \in Users /\ tx[s].txn \in Txns
          /\ tx[s].amount \in Amounts /\ tx[s].amount > 0
      BY <3>2
    <3> QED
      BY <3>3, <3>4
  <2> HIDE DEF a
  <2>2. d \in Credits
    <3>1. a \in Nat
      BY <2>1
    <3> QED
      BY <3>1 DEF Only, Credits
  <2>3. /\ credited[u][x] = 0
        /\ balance' = [balance EXCEPT ![u] = Plus(@, d)]
        /\ posted' = [posted EXCEPT ![u] = Plus(@, d)]
        /\ credited' = [credited EXCEPT ![u][x] = 1]
        /\ UNCHANGED <<known, created, charged, refunded>>
    BY <1>2, <2>1 DEF Topup, TxnUnused, Post, Safe, TypeOK, a
  <2> HIDE DEF d
  <2>4. Accounts!Move(u, d)
    BY <2>1, <2>2, <2>3, IncreaseAllowed, MoveFacts
  <2>5. d = Accounts!In("paid", a)
    BY DEF d, Only, Kinds, Accounts!In, Accounts!Kinds
  <2>6. Accounts!TopUp(u, x)
    BY <2>1, <2>3, <2>4, <2>5 DEF Accounts!TopUp
  <2> QED
    BY <2>1, <2>6 DEF Accounts!Next
<1>3. CASE Adjust(s)
  <2> DEFINE u == tx[s].user
             k == tx[s].kind
             a == tx[s].amount
             d == Only(k, a)
  <2>1. u \in known /\ u \in Users /\ k \in Kinds /\ a \in Amounts
    <3>1. tx[s].op = "adjust"
      BY <1>3 DEF Adjust
    <3>2. tx[s] \in [op: {"adjust"}, user: Users, kind: Kinds, amount: Amounts, at: Nat]
      BY <3>1, SessionFacts DEF Safe
    <3>3. tx[s].user \in known
      BY <3>1 DEF UsersInFlight
    <3>4. tx[s].user \in Users /\ tx[s].kind \in Kinds /\ tx[s].amount \in Amounts
      BY <3>2
    <3> QED
      BY <3>3, <3>4
  <2> HIDE DEF a, k
  <2>2. d \in [Kinds -> Int]
    <3>1. a \in Int
      BY <2>1
    <3> QED
      BY <3>1 DEF Only
  <2>3. /\ UpdateAllowed(u, d)
        /\ balance' = [balance EXCEPT ![u] = Plus(@, d)]
        /\ posted' = [posted EXCEPT ![u] = Plus(@, d)]
        /\ UNCHANGED <<known, created, charged, refunded, credited>>
    BY <1>3 DEF Adjust, Post, a, k
  <2> HIDE DEF d
  <2>4. Accounts!Move(u, d)
    BY <2>1, <2>2, <2>3, MoveFacts
  <2>5. d = Accounts!In(k, a) /\ k \in Accounts!Kinds
    BY <2>1 DEF d, Only, Kinds, Accounts!In, Accounts!Kinds
  <2>6. Accounts!Adjust(u)
    BY <2>1, <2>3, <2>4, <2>5 DEF Accounts!Adjust
  <2> QED
    BY <2>1, <2>6 DEF Accounts!Next
<1> QED
  BY <1>1, <1>2, <1>3

\* Every step of the ledger and of the script is one whole operation, or
\* changes nothing that has committed.
LEMMA StepAtomic ==
    ASSUME ReconcileSafe, Journal, ScriptKnows, [ReconcileNext]_reconcileVars
    PROVE  [Accounts!Next]_(Accounts!vars)
<1>1. ASSUME Next, rewritten' = rewritten PROVE [Accounts!Next]_(Accounts!vars)
  <2>1. ASSUME NEW u \in Users, GetOrCreate(u) PROVE Accounts!Next
    <3>1. \A g : Only("free", g) = Accounts!In("free", g)
      BY DEF Only, Kinds, Accounts!In, Accounts!Kinds
    <3>2. Accounts!Open(u)
      BY <1>1, <2>1, <3>1 DEF GetOrCreate, rows, Accounts!Open
    <3> QED
      BY <3>2 DEF Accounts!Next
  <2>2. ASSUME NEW s \in Sessions, Charge(s) PROVE Accounts!Next
    BY <1>1, <2>2, ChargePromised DEF ReconcileSafe, Journal, Accounts!Next
  <2>3. ASSUME NEW s \in Sessions, Refund(s) \/ Topup(s) \/ Adjust(s) PROVE Accounts!Next
    BY <1>1, <2>3, OthersPromised DEF ReconcileSafe, Journal
  <2>4. ASSUME NEW s \in Sessions,
               \/ \E j \in Jobs : BeginReserve(s, j) \/ BeginRefund(s, j)
               \/ ReadUser(s) \/ RefuseReserve(s) \/ LoseRace(s)
               \/ \E u \in Users, x \in Txns, a \in Amounts : BeginTopup(s, u, x, a)
               \/ RepeatTopup(s)
               \/ \E u \in Users, k \in Kinds, a \in Amounts : BeginAdjust(s, u, k, a)
               \/ RefuseAdjust(s) \/ Abort(s)
        PROVE  UNCHANGED Accounts!vars
    BY <1>1, <2>4 DEF BeginReserve, BeginRefund, ReadUser, RefuseReserve, LoseRace,
       BeginTopup, RepeatTopup, BeginAdjust, RefuseAdjust, Abort, rows, Accounts!vars
  <2> QED
    BY <1>1, <2>1, <2>2, <2>3, <2>4 DEF Next
<1>2. ASSUME UNCHANGED vars, rewritten' = rewritten PROVE UNCHANGED Accounts!vars
  BY <1>2 DEF vars, rows, Accounts!vars
<1>3. ASSUME NEW u \in Users, Rewrite(u) PROVE Accounts!Next
  <2>1. Table(script.todo) /\ u \in DOMAIN script.todo /\ u \in known
    BY <1>3, ScriptFacts DEF Rewrite, ReconcileSafe, ScriptKnows
  <2>2. /\ balance' = [balance EXCEPT ![u] = script.todo[u]]
        /\ rewritten' = rewritten \cup {u}
        /\ UNCHANGED <<known, posted, created, charged, refunded, credited>>
    BY <1>3 DEF Rewrite, rows
  <2>3. balance'[u] = script.todo[u]
    BY <2>2 DEF ReconcileSafe, Safe, TypeOK
  <2>4. balance'[u] \in [Accounts!Kinds -> Nat]
    BY <2>1, <2>3 DEF Table, Credits, Kinds, Accounts!Kinds
  <2>5. Accounts!Correct(u)
    BY <2>1, <2>2, <2>3, <2>4 DEF Accounts!Correct
  <2> QED
    BY <2>5 DEF Accounts!Next
<1> QED
  BY <1>1, <1>2, <1>3, ScriptSteps

\* Reservations, refunds, top-ups, adjustments and the corrections of the
\* script take effect one after the other, each on the balance and the journal
\* together, however their transactions overlap and whichever are aborted.
THEOREM LedgerIsAtomic == ReconcileSpec => OperationsAreAtomic
<1>1. ReconcileInit => ReconcileSafe /\ Journal /\ ScriptKnows
  BY InitReconcileSafe, InitUsers, InitJobs, InitSettled, InitTopups
     DEF ReconcileInit, Journal, ScriptKnows, Off
<1>2. ReconcileSafe /\ Journal /\ ScriptKnows /\ [ReconcileNext]_reconcileVars =>
         ReconcileSafe' /\ Journal' /\ ScriptKnows'
  BY NextReconcileSafe, NextJournal, NextScriptKnows
<1>3. ReconcileInit => Accounts!Init
  BY DEF ReconcileInit, Init, None, Kinds, Accounts!Init, Accounts!Zero, Accounts!Kinds
<1>4. ReconcileSafe /\ Journal /\ ScriptKnows /\ [ReconcileNext]_reconcileVars =>
         [Accounts!Next]_(Accounts!vars)
  BY StepAtomic
<1> QED
  BY <1>1, <1>2, <1>3, <1>4, PTL DEF ReconcileSpec, OperationsAreAtomic, Accounts!Spec
=============================================================================
