---------------------------- MODULE JobSubmission ----------------------------
(***************************************************************************)
(* create_job for one user: the job type, the idempotency key in Redis,    *)
(* the window of jobs per hour, the transaction, and what follows COMMIT.  *)
(*                                                                         *)
(* Every await of the handler is a step, and the API process may die at    *)
(* each.  A client that gives up and tries again elsewhere is a second     *)
(* caller with the same key.  Two things are left to other modules: the    *)
(* transaction's charge (CreditLedger), so that a refusal for want of      *)
(* credits is always possible here, and what becomes of a pushed job       *)
(* (JobLifecycle).                                                         *)
(***************************************************************************)
EXTENDS RateWindow

CONSTANTS
    Keys,       \* values of the Idempotency-Key header
    JobIds,     \* ids the table may give to new rows
    NoKey,      \* the header is missing
    NoJob       \* a key Redis does not have

ASSUME JobIdAssumption == JobIds \subseteq Nat
ASSUME NoKeyAssumption == NoKey \notin Keys
ASSUME NoJobAssumption == NoJob \notin JobIds

VARIABLES
    jobs,       \* committed rows of the user's jobs
    cached,     \* aimg:idempotency:{integration}:{key}
    queue,      \* ids pushed to aimg:jobs:queue
    request,    \* what the request of each caller is doing
    promised,   \* history: keys a 201 was sent for and whose entry has not expired
    replies     \* history: jobs the clients of a key have been told of

redis == <<cached, queue>>
history == <<promised, replies>>
vars == <<windowVars, jobs, redis, request, history>>

Rows == [id: JobIds, key: Keys \cup {NoKey}, at: Nat]
Idle == [step |-> "idle"]

\* owed: the client had already been promised a job for this key.
Requests ==
         {Idle}
    \cup [step: {"typed", "window", "admitted"}, key: Keys \cup {NoKey}, owed: BOOLEAN]
    \cup [step: {"begun"}, key: Keys \cup {NoKey}, owed: BOOLEAN, at: Nat]
    \cup [step: {"committed", "saved", "pushed"}, key: Keys \cup {NoKey},
          owed: BOOLEAN, job: JobIds]

Ids == {row.id : row \in jobs}
KeyUsed(k) == k # NoKey /\ \E row \in jobs : row.key = k

\* Types of the rows, the keys in Redis, the queue and the requests.
SubmissionTypeOK ==
    /\ WindowTypeOK
    /\ jobs \subseteq Rows
    /\ cached \in [Keys -> JobIds \cup {NoJob}]
    /\ queue \subseteq JobIds
    /\ request \in [Callers -> Requests]
    /\ promised \subseteq Keys
    /\ replies \in [Keys -> SUBSET JobIds]

SubmissionInit ==
    /\ WindowInit
    /\ jobs = {}
    /\ cached = [k \in Keys |-> NoJob]
    /\ queue = {}
    /\ request = [c \in Callers |-> Idle]
    /\ promised = {}
    /\ replies = [k \in Keys |-> {}]

-----------------------------------------------------------------------------

At(c, step) == request[c].step = step
Go(c, step) == request' = [request EXCEPT ![c].step = step]

MutEnd(c) == Go(c, "idle")

End(c) == request' = [request EXCEPT ![c] = Idle]

\* The job type is read and active.  An admin may change its status at any time;
\* an unknown or inactive type is answered with a 400, which changes nothing.
Arrive(c, k) ==
    /\ At(c, "idle")
    /\ request' = [request EXCEPT ![c] =
                     [step |-> "typed", key |-> k, owed |-> k \in promised]]
    /\ UNCHANGED <<windowVars, jobs, redis, history>>

\* The key is in Redis: the job as it stands, with status 200.
Recognise(c) ==
    /\ At(c, "typed")
    /\ request[c].key # NoKey
    /\ cached[request[c].key] \in Ids
    /\ replies' = [replies EXCEPT ![request[c].key] = @ \cup {cached[request[c].key]}]
    /\ End(c)
    /\ UNCHANGED <<windowVars, jobs, redis, promised>>

\* No key, or none that leads to a job; check_rate_limit begins.
Miss(c) ==
    /\ At(c, "typed")
    /\ \/ request[c].key = NoKey /\ UNCHANGED cached
       \/ /\ request[c].key # NoKey
          /\ cached[request[c].key] \notin Ids
          /\ cached' = [cached EXCEPT ![request[c].key] = NoJob]
    /\ Enter(c)
    /\ Go(c, "window")
    /\ UNCHANGED <<jobs, queue, history>>

Pass(c) ==
    /\ Admit(c)
    /\ UNCHANGED <<jobs, redis, request, history>>

RateLimited(c) ==
    /\ Refuse(c)
    /\ End(c)
    /\ UNCHANGED <<jobs, redis, history>>

Counted(c) ==
    /\ Add(c)
    /\ Go(c, "admitted")
    /\ UNCHANGED <<jobs, redis, history>>

\* An input file of another integration, or too few credits, either as read
\* with the user or by reserve_credits, which rolls the transaction back.
Reject(c) ==
    /\ At(c, "admitted") \/ At(c, "begun")
    /\ End(c)
    /\ UNCHANGED <<windowVars, jobs, redis, history>>

\* BEGIN fixes now(), which becomes created_at.
Begin(c) ==
    /\ At(c, "admitted")
    /\ request' = [request EXCEPT ![c] =
         [step |-> "begun", key |-> @.key, owed |-> @.owed, at |-> clock]]
    /\ UNCHANGED <<windowVars, jobs, redis, history>>

MutCommit(c, id) ==
    /\ At(c, "begun")
    /\ id \notin Ids
    /\ jobs' = jobs \cup {[id |-> id, key |-> request[c].key, at |-> request[c].at]}
    /\ request' = [request EXCEPT ![c] =
         [step |-> IF @.key = NoKey THEN "saved" ELSE "committed",
          key |-> @.key, owed |-> @.owed, job |-> id]]
    /\ UNCHANGED <<windowVars, redis, history>>

\* INSERT .. COMMIT.  A second INSERT of a key waits for the transaction that
\* holds it, so the two are one step.
Commit(c, id) ==
    /\ At(c, "begun")
    /\ id \notin Ids
    /\ ~KeyUsed(request[c].key)
    /\ jobs' = jobs \cup {[id |-> id, key |-> request[c].key, at |-> request[c].at]}
    /\ request' = [request EXCEPT ![c] =
         [step |-> IF @.key = NoKey THEN "saved" ELSE "committed",
          key |-> @.key, owed |-> @.owed, job |-> id]]
    /\ UNCHANGED <<windowVars, redis, history>>

MutCollide(c) ==
    /\ At(c, "begun")
    /\ KeyUsed(request[c].key)
    /\ \E id \in JobIds \ Ids : cached' = [cached EXCEPT ![request[c].key] = id]
    /\ End(c)
    /\ UNCHANGED <<windowVars, jobs, queue, history>>

\* idx_jobs_idempotency refuses the row: an uncaught error, status 500.
Collide(c) ==
    /\ At(c, "begun")
    /\ KeyUsed(request[c].key)
    /\ End(c)
    /\ UNCHANGED <<windowVars, jobs, redis, history>>

MutSaveKey(c) ==
    /\ At(c, "committed")
    /\ Go(c, "saved")
    /\ UNCHANGED <<windowVars, jobs, redis, history>>

\* SETEX, for requests with a key.
SaveKey(c) ==
    /\ At(c, "committed")
    /\ cached' = [cached EXCEPT ![request[c].key] = request[c].job]
    /\ Go(c, "saved")
    /\ UNCHANGED <<windowVars, jobs, queue, history>>

\* LPUSH.
Push(c) ==
    /\ At(c, "saved")
    /\ queue' = queue \cup {request[c].job}
    /\ Go(c, "pushed")
    /\ UNCHANGED <<windowVars, jobs, cached, history>>

\* 201.
Answer(c) ==
    /\ At(c, "pushed")
    /\ promised' = promised \cup ({request[c].key} \ {NoKey})
    /\ replies' = [k \in Keys |-> IF k = request[c].key
                                  THEN replies[k] \cup {request[c].job} ELSE replies[k]]
    /\ End(c)
    /\ UNCHANGED <<windowVars, jobs, redis>>

\* The API process dies.
Die(c) ==
    /\ ~At(c, "idle")
    /\ IF At(c, "window") THEN Leave(c) ELSE UNCHANGED windowVars
    /\ End(c)
    /\ UNCHANGED <<jobs, redis, history>>

\* An entry is 86400 seconds old; the request that wrote it has ended long since.
Expire(k) ==
    /\ cached[k] # NoJob
    /\ \A c \in Callers : At(c, "saved") \/ At(c, "pushed") => request[c].key # k
    /\ cached' = [cached EXCEPT ![k] = NoJob]
    /\ promised' = promised \ {k}
    /\ request' = [c \in Callers |->
         IF request[c].step # "idle" /\ request[c].key = k
         THEN [request[c] EXCEPT !.owed = FALSE] ELSE request[c]]
    /\ UNCHANGED <<windowVars, jobs, queue, replies>>

Pause == Tick /\ UNCHANGED <<jobs, redis, request, history>>

SubmissionNext ==
    \/ Pause
    \/ \E k \in Keys : Expire(k)
    \/ \E c \in Callers :
         \/ \E k \in Keys \cup {NoKey} : Arrive(c, k)
         \/ Recognise(c) \/ Miss(c)
         \/ Pass(c) \/ RateLimited(c) \/ Counted(c)
         \/ Reject(c) \/ Begin(c) \/ Collide(c)
         \/ \E id \in JobIds : Commit(c, id)
         \/ SaveKey(c) \/ Push(c) \/ Answer(c)
         \/ Die(c)

SubmissionSpec == SubmissionInit /\ [][SubmissionNext]_vars

-----------------------------------------------------------------------------
(* Properties *)

(***************************************************************************)
(* A request with a key whose job a client was told of with 201, begun     *)
(* while the key is remembered, ends where the key is looked up: it is     *)
(* neither rate limited nor refused for want of credits, and it never      *)
(* reaches the unique index (create_job, lines 91-107).                    *)
(***************************************************************************)
AnsweredRetryIsRecognised ==
    \A c \in Callers : ~At(c, "idle") /\ request[c].owed => At(c, "typed")

(***************************************************************************)
(* What Redis names is committed: the worker drops an id it finds no row   *)
(* for, and create_job takes a key without a job for a stale one.          *)
(***************************************************************************)
RedisNamesCommitted ==
    /\ queue \subseteq Ids
    /\ \A k \in Keys : cached[k] # NoJob =>
         \E row \in jobs : row.id = cached[k] /\ row.key = k

\* A key stands for one job, and every answer names that job.
made == [k \in Keys |-> {row.id : row \in {r \in jobs : r.key = k}}]

Promise == INSTANCE IdempotentSubmission WITH told <- replies

(***************************************************************************)
(* create_job implements the promise of the Idempotency-Key header: two    *)
(* requests with one key never make two jobs, whatever dies or expires     *)
(* between them, and no answer names another job.                          *)
(***************************************************************************)
OncePerKey == Promise!Spec
=============================================================================
