------------------------ MODULE IdempotentSubmission ------------------------
(* What an Idempotency-Key promises, whatever happens to the requests.     *)

CONSTANTS Keys, JobIds

VARIABLES
    made,       \* jobs made for a key
    told        \* jobs the clients of a key have been told of

Init == made = [k \in Keys |-> {}] /\ told = [k \in Keys |-> {}]

\* The first request to commit makes the job, and pays for it.
Make(k, j) ==
    /\ made[k] = {}
    /\ made' = [made EXCEPT ![k] = {j}]
    /\ UNCHANGED told

Tell(k) ==
    /\ made[k] # {}
    /\ told' = [told EXCEPT ![k] = made[k]]
    /\ UNCHANGED made

Next == \E k \in Keys : Tell(k) \/ \E j \in JobIds : Make(k, j)

Spec == Init /\ [][Next]_<<made, told>>
=============================================================================
