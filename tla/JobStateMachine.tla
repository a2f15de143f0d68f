-------------------------- MODULE JobStateMachine --------------------------
(***************************************************************************)
(* What the code promises of a job: one walk from pending to an outcome    *)
(* that is final, a refund with every failure and with nothing else, and   *)
(* no word to the partner but the outcome.                                 *)
(*                                                                         *)
(* The promise ends where a job is disputed: two deliveries, or a deadline *)
(* that has passed, give it several writers.  What is left of it then is   *)
(* that it is never pending again and is refunded only by failing.         *)
(*                                                                         *)
(* docs/partner-integration-guide.md (lines 705-712) lists two events      *)
(* more, job.pending and job.running.  The code sends neither: its calls   *)
(* of fire_webhook_if_configured all follow an outcome.                    *)
(***************************************************************************)
EXTENDS Naturals

CONSTANT Jobs

VARIABLES status, refunds, told, disputed

vars == <<status, refunds, told, disputed>>

Init ==
    /\ status = [j \in Jobs |-> "none"]
    /\ refunds = [j \in Jobs |-> 0]
    /\ told = {}
    /\ disputed = {}

Move(j, from, to) ==
    /\ status[j] \in from
    /\ status' = [status EXCEPT ![j] = to]
    /\ refunds' = IF to = "failed" THEN [refunds EXCEPT ![j] = @ + 1] ELSE refunds
    /\ UNCHANGED <<told, disputed>>

Outcomes == {"succeeded", "failed"}

Submit(j)  == Move(j, {"none"}, "pending")
Start(j)   == Move(j, {"pending"}, "running")
Succeed(j) == Move(j, {"running"}, "succeeded")

\* A job may fail before it runs: nothing is configured to run it.
Fail(j) == Move(j, {"pending", "running"}, "failed")

Tell(j) ==
    /\ status[j] \in Outcomes \/ j \in disputed
    /\ told' = told \cup {<<j, status[j]>>}
    /\ UNCHANGED <<status, refunds, disputed>>

\* Start-up recovery pushes the job a second time, or its time is up.
Dispute(j) ==
    /\ status[j] # "none"
    /\ disputed' = disputed \cup {j}
    /\ UNCHANGED <<status, refunds, told>>

\* One more writer of a disputed job.
Rewrite(j, to) ==
    /\ j \in disputed
    /\ to \in {"running"} \cup Outcomes
    /\ Move(j, {"pending", "running"} \cup Outcomes, to)

Next == \E j \in Jobs :
    \/ Submit(j) \/ Start(j) \/ Succeed(j) \/ Fail(j) \/ Tell(j) \/ Dispute(j)
    \/ \E to \in {"running"} \cup Outcomes : Rewrite(j, to)

Spec == Init /\ [][Next]_vars
=============================================================================
