----------------------------- MODULE MCOutcome -----------------------------
(* Model values and small constants for JobOutcome *)
EXTENDS JobOutcome, TLC

CONSTANTS j1, t1, t2, w1, u1, u2, home, away, photo

MCUploads == {u1, u2}
MCName == u1 :> photo @@ u2 :> photo
MCSenders == {u1 :> home @@ u2 :> home, u1 :> home @@ u2 :> away}
MCHome == j1 :> home
Budget(d, f, e, s) == [delivery |-> d, fault |-> f, edit |-> e, seed |-> s]
MCBudgets == {Budget(2, 1, 1, 0), Budget(1, 1, 1, 1), Budget(0, 1, 1, 2)}
MCQuiet == {Budget(1, 0, 0, 0)}
MCSymmetry == Permutations({t1, t2})
=============================================================================
