--------------------------- MODULE CreditAccounts ---------------------------
(***************************************************************************)
(* What the ledger promises of credits: whatever transactions overlap,     *)
(* each operation takes effect at once, on the balance and in the journal  *)
(* together, and takes nothing that is not there.  Which kinds a           *)
(* reservation takes is left open, and so is what the reconciliation       *)
(* script believes.                                                        *)
(***************************************************************************)
EXTENDS Integers

CONSTANTS Users, Jobs, Txns, Owner, Cost, Grants, Amounts

VARIABLES opened, balance, posted, created, charged, refunded, credited, corrected

vars == <<opened, balance, posted, created, charged, refunded, credited, corrected>>

Kinds == {"free", "paid"}
Zero == [k \in Kinds |-> 0]
Sum(b, d) == [k \in Kinds |-> b[k] + d[k]]
In(kind, amount) == [k \in Kinds |-> IF k = kind THEN amount ELSE 0]

Init ==
    /\ opened = {}
    /\ balance = [u \in Users |-> Zero]
    /\ posted = [u \in Users |-> Zero]
    /\ created = {}
    /\ charged = [j \in Jobs |-> Zero]
    /\ refunded = [j \in Jobs |-> Zero]
    /\ credited = [u \in Users |-> [x \in Txns |-> 0]]
    /\ corrected = {}

\* A balance and its journal move by the same amounts, and not below zero.
Move(u, d) ==
    /\ u \in opened
    /\ \A k \in Kinds : balance[u][k] + d[k] >= 0
    /\ balance' = [balance EXCEPT ![u] = Sum(@, d)]
    /\ posted' = [posted EXCEPT ![u] = Sum(@, d)]

Open(u) ==
    /\ u \notin opened
    /\ opened' = opened \cup {u}
    /\ \E g \in Grants : balance' = [balance EXCEPT ![u] = In("free", g)]
    /\ UNCHANGED <<posted, created, charged, refunded, credited, corrected>>

\* The ways to take a cost from the two kinds.
Parts(cost) == {d \in [Kinds -> 0..cost] : d["free"] + d["paid"] = cost}

\* A job is created with the whole of its cost, once.
Charge(j) ==
    /\ j \notin created
    /\ \E d \in Parts(Cost[j]) :
        /\ Move(Owner[j], [k \in Kinds |-> 0 - d[k]])
        /\ charged' = [charged EXCEPT ![j] = d]
    /\ created' = created \cup {j}
    /\ UNCHANGED <<opened, refunded, credited, corrected>>

\* A created job gives back what it was charged, each kind as that kind.
Refund(j) ==
    /\ j \in created
    /\ Move(Owner[j], charged[j])
    /\ refunded' = [refunded EXCEPT ![j] = Sum(@, charged[j])]
    /\ UNCHANGED <<opened, created, charged, credited, corrected>>

\* A transaction id buys paid credits once.
TopUp(u, x) ==
    /\ credited[u][x] = 0
    /\ \E a \in Amounts : a > 0 /\ Move(u, In("paid", a))
    /\ credited' = [credited EXCEPT ![u][x] = 1]
    /\ UNCHANGED <<opened, created, charged, refunded, corrected>>

Adjust(u) ==
    /\ \E k \in Kinds, a \in Amounts : Move(u, In(k, a))
    /\ UNCHANGED <<opened, created, charged, refunded, credited, corrected>>

\* The script sets a balance that is not negative, and writes no journal.
Correct(u) ==
    /\ u \in opened
    /\ balance' = [balance EXCEPT ![u] = balance'[u]]
    /\ balance'[u] \in [Kinds -> Nat]
    /\ corrected' = corrected \cup {u}
    /\ UNCHANGED <<opened, posted, created, charged, refunded, credited>>

Next ==
    \/ \E u \in Users : Open(u) \/ Adjust(u) \/ Correct(u)
    \/ \E u \in Users, x \in Txns : TopUp(u, x)
    \/ \E j \in Jobs : Charge(j) \/ Refund(j)

Spec == Init /\ [][Next]_vars
=============================================================================
