---------------------------- MODULE JobLifecycle ----------------------------
(***************************************************************************)
(* The life of a job in aimg: the API request that commits and enqueues    *)
(* it, the Redis queue, and the workers that pop it, run it, and look      *)
(* after what other workers left behind.                                   *)
(*                                                                         *)
(* A worker is one asyncio process: its main loop pops job ids and makes a *)
(* task of each, a semaphore lets Concurrency of them into process_job, a  *)
(* janitor fails jobs that run too long, and a start-up pass enqueues old  *)
(* pending jobs again.  Steps lie between two awaits that another process  *)
(* can see: a database statement, a transaction, a Redis command.          *)
(***************************************************************************)
EXTENDS Naturals, Sequences, FiniteSets

CONSTANTS
    Jobs,           \* ids of the jobs that may be submitted
    Workers,        \* worker processes
    Slots,          \* bound: how many tasks a worker has at a time
    Concurrency,    \* AIMG_WORKER_CONCURRENCY
    HandlersInTime, \* TRUE: a task ends within timeout_seconds + 60 s of 'running'
    MaxStarts,      \* bound: how often workers are started
    MaxFaults       \* bound: crashes, lost replies and uncaught exceptions

ASSUME ConcurrencyAssumption == Concurrency \in Nat \ {0}
ASSUME HandlersAssumption == HandlersInTime \in BOOLEAN
ASSUME BoundsAssumption ==
    IsFiniteSet(Slots) /\ MaxStarts \in Nat /\ MaxFaults \in Nat

VARIABLES
    request,    \* how far create_job is with a job
    status,     \* jobs.status ("none": no row)
    refunds,    \* how often _fail_job has committed for a job
    aged,       \* jobs created more than 60 seconds ago
    overdue,    \* jobs whose started_at is over timeout_seconds + 60 s ago
    queue,      \* the Redis list: LPUSH at the head, BRPOP at the tail
    requeued,   \* jobs that start-up recovery has pushed (history)
    worker,     \* what a worker process is doing
    todo,       \* rows its start-up recovery has still to push
    task,       \* its asyncio tasks
    stuck,      \* rows its janitor has still to fail in this round
    telling,    \* the job its janitor has failed and not told of yet
    sent,       \* webhook deliveries inserted: a job and the status told
    starts, faults

jobVars    == <<request, status, refunds, aged, overdue, requeued, sent>>
workerVars == <<worker, todo, task, stuck, telling>>
vars == <<jobVars, queue, workerVars, starts, faults>>

Statuses == {"none", "pending", "running", "succeeded", "failed"}
Terminal == {"succeeded", "failed"}
Free  == [pc |-> "free"]
Tasks == {Free} \cup [pc: {"waiting", "accepted", "executing", "notifying"}, job: Jobs]

\* Types of rows, queue, workers and tasks, what a janitor and a start-up pass
\* hold included.
TypeOK ==
    /\ request \in [Jobs -> {"none", "committed", "enqueued", "lost"}]
    /\ status \in [Jobs -> Statuses]
    /\ refunds \in [Jobs -> Nat]
    /\ aged \subseteq Jobs
    /\ overdue \subseteq Jobs
    /\ queue \in Seq(Jobs)
    /\ requeued \subseteq Jobs
    /\ worker \in [Workers -> {"down", "starting", "up", "draining"}]
    /\ todo \in [Workers -> SUBSET Jobs]
    /\ task \in [Workers -> [Slots -> Tasks]]
    /\ stuck \in [Workers -> SUBSET Jobs]
    /\ telling \in [Workers -> SUBSET Jobs]
    /\ sent \subseteq Jobs \X Statuses
    /\ starts \in Nat
    /\ faults \in Nat

Init ==
    /\ request = [j \in Jobs |-> "none"]
    /\ status = [j \in Jobs |-> "none"]
    /\ refunds = [j \in Jobs |-> 0]
    /\ aged = {}
    /\ overdue = {}
    /\ queue = <<>>
    /\ requeued = {}
    /\ worker = [w \in Workers |-> "down"]
    /\ todo = [w \in Workers |-> {}]
    /\ task = [w \in Workers |-> [s \in Slots |-> Free]]
    /\ stuck = [w \in Workers |-> {}]
    /\ telling = [w \in Workers |-> {}]
    /\ sent = {}
    /\ starts = 0
    /\ faults = 0

Fault == faults < MaxFaults /\ faults' = faults + 1

SetTask(w, s, t) == task' = [task EXCEPT ![w][s] = t]

\* Tasks inside process_job, each holding the worker's semaphore.
Inside(w) == {s \in Slots : task[w][s].pc \in {"accepted", "executing", "notifying"}}

MutFailJob(j) ==
    /\ status' = [status EXCEPT ![j] = "cancelled"]
    /\ refunds' = [refunds EXCEPT ![j] = @ + 1]

\* _fail_job: refund_credits and status 'failed' in one transaction, whatever
\* the status is and whether or not the job has been refunded before.
FailJob(j) ==
    /\ status' = [status EXCEPT ![j] = "failed"]
    /\ refunds' = [refunds EXCEPT ![j] = @ + 1]

\* The job is read again and the event is named after the status it has by then.
FireWebhook(j) == sent' = sent \cup {<<j, status[j]>>}

-----------------------------------------------------------------------------
(* create_job: COMMIT, then LPUSH *)

Submit(j) ==
    /\ request[j] = "none"
    /\ request' = [request EXCEPT ![j] = "committed"]
    /\ status' = [status EXCEPT ![j] = "pending"]
    /\ UNCHANGED <<refunds, aged, overdue, requeued, sent, queue, workerVars, starts,
                   faults>>

Enqueue(j) ==
    /\ request[j] = "committed"
    /\ request' = [request EXCEPT ![j] = "enqueued"]
    /\ queue' = <<j>> \o queue
    /\ UNCHANGED <<status, refunds, aged, overdue, requeued, sent, workerVars, starts,
                   faults>>

\* The API process dies, or Redis refuses, between COMMIT and LPUSH.
LoseRequest(j) ==
    /\ request[j] = "committed"
    /\ request' = [request EXCEPT ![j] = "lost"]
    /\ Fault
    /\ UNCHANGED <<status, refunds, aged, overdue, requeued, sent, queue, workerVars,
                   starts>>

-----------------------------------------------------------------------------
(* Time, as far as the two recovery queries ask for it *)

\* A pending job's created_at is now more than 60 seconds old.
Age(j) ==
    /\ status[j] = "pending"
    /\ j \notin aged
    /\ aged' = aged \cup {j}
    /\ UNCHANGED <<request, status, refunds, overdue, requeued, sent, queue, workerVars,
                   starts, faults>>

Executing(j) == \E w \in Workers, s \in Slots :
                    task[w][s].pc = "executing" /\ task[w][s].job = j

\* A running job's started_at is now timeout_seconds + 60 seconds old.
Expire(j) ==
    /\ status[j] = "running"
    /\ j \notin overdue
    /\ HandlersInTime => ~ Executing(j)
    /\ overdue' = overdue \cup {j}
    /\ UNCHANGED <<request, status, refunds, aged, requeued, sent, queue, workerVars,
                   starts, faults>>

-----------------------------------------------------------------------------
(* run_worker: start, recover_orphaned_jobs, main loop, shutdown *)

MutStart(w) ==
    /\ worker[w] = "down"
    /\ starts < MaxStarts
    /\ starts' = starts + 1
    /\ worker' = [worker EXCEPT ![w] = "starting"]
    /\ todo' = [todo EXCEPT ![w] = {j \in Jobs \ aged : status[j] = "pending"}]
    /\ UNCHANGED <<jobVars, queue, task, stuck, telling, faults>>

Start(w) ==
    /\ worker[w] = "down"
    /\ starts < MaxStarts
    /\ starts' = starts + 1
    /\ worker' = [worker EXCEPT ![w] = "starting"]
    /\ todo' = [todo EXCEPT ![w] = {j \in aged : status[j] = "pending"}]
    /\ UNCHANGED <<jobVars, queue, task, stuck, telling, faults>>

MutRequeue(w, j) ==
    /\ j \in todo[w]
    /\ todo' = [todo EXCEPT ![w] = @ \ {j}]
    /\ queue' = <<j>> \o queue
    /\ requeued' = requeued \cup {j}
    /\ status' = [status EXCEPT ![j] = "pending"]
    /\ UNCHANGED <<request, refunds, aged, overdue, sent, worker, task, stuck,
                   telling, starts, faults>>

\* The rows are pushed one by one as they were read, without a look at the
\* queue or at the status they have by now.
Requeue(w, j) ==
    /\ j \in todo[w]
    /\ todo' = [todo EXCEPT ![w] = @ \ {j}]
    /\ queue' = <<j>> \o queue
    /\ requeued' = requeued \cup {j}
    /\ UNCHANGED <<request, status, refunds, aged, overdue, sent, worker, task, stuck,
                   telling, starts, faults>>

Ready(w) ==
    /\ worker[w] = "starting"
    /\ todo[w] = {}
    /\ worker' = [worker EXCEPT ![w] = "up"]
    /\ UNCHANGED <<jobVars, queue, todo, task, stuck, telling, starts, faults>>

\* BRPOP, then create_task: the semaphore does not hold the loop back.
Pop(w, s) ==
    /\ worker[w] = "up"
    /\ queue # <<>>
    /\ task[w][s] = Free
    /\ SetTask(w, s, [pc |-> "waiting", job |-> queue[Len(queue)]])
    /\ queue' = SubSeq(queue, 1, Len(queue) - 1)
    /\ UNCHANGED <<jobVars, worker, todo, stuck, telling, starts, faults>>

\* The connection breaks after Redis has popped; the loop logs it and goes on.
LosePop(w) ==
    /\ worker[w] = "up"
    /\ queue # <<>>
    /\ queue' = SubSeq(queue, 1, Len(queue) - 1)
    /\ Fault
    /\ UNCHANGED <<jobVars, workerVars, starts>>

\* The main loop sees the event that SIGTERM has set (after a BRPOP that was
\* still waiting): no more pops, and no more janitor rounds.
Stop(w) ==
    /\ worker[w] = "up"
    /\ worker' = [worker EXCEPT ![w] = "draining"]
    /\ UNCHANGED <<jobVars, queue, todo, task, stuck, telling, starts, faults>>

MutStopped(w) ==
    /\ worker[w] = "draining"
    /\ Inside(w) = {}
    /\ worker' = [worker EXCEPT ![w] = "down"]
    /\ task' = [task EXCEPT ![w] = [s \in Slots |-> Free]]
    /\ stuck' = [stuck EXCEPT ![w] = {}]
    /\ telling' = [telling EXCEPT ![w] = {}]
    /\ UNCHANGED <<jobVars, queue, todo, starts, faults>>

\* Every task has ended, those behind the semaphore too; then the janitor is
\* cancelled wherever it is.
Stopped(w) ==
    /\ worker[w] = "draining"
    /\ \A s \in Slots : task[w][s] = Free
    /\ worker' = [worker EXCEPT ![w] = "down"]
    /\ stuck' = [stuck EXCEPT ![w] = {}]
    /\ telling' = [telling EXCEPT ![w] = {}]
    /\ UNCHANGED <<jobVars, queue, todo, task, starts, faults>>

\* The process dies: its tasks, and the ids they popped, are gone.
Crash(w) ==
    /\ worker[w] # "down"
    /\ Fault
    /\ worker' = [worker EXCEPT ![w] = "down"]
    /\ todo' = [todo EXCEPT ![w] = {}]
    /\ task' = [task EXCEPT ![w] = [s \in Slots |-> Free]]
    /\ stuck' = [stuck EXCEPT ![w] = {}]
    /\ telling' = [telling EXCEPT ![w] = {}]
    /\ UNCHANGED <<jobVars, queue, starts>>

-----------------------------------------------------------------------------
(* process_job *)

\* The semaphore lets the task in; it reads the job, which is pending.
Accept(w, s) ==
    /\ task[w][s].pc = "waiting"
    /\ Cardinality(Inside(w)) < Concurrency
    /\ status[task[w][s].job] = "pending"
    /\ SetTask(w, s, [task[w][s] EXCEPT !.pc = "accepted"])
    /\ UNCHANGED <<jobVars, queue, worker, todo, stuck, telling, starts, faults>>

\* job_not_pending.
Skip(w, s) ==
    /\ task[w][s].pc = "waiting"
    /\ Cardinality(Inside(w)) < Concurrency
    /\ status[task[w][s].job] # "pending"
    /\ SetTask(w, s, Free)
    /\ UNCHANGED <<jobVars, queue, worker, todo, stuck, telling, starts, faults>>

\* No job type, handler, provider or adapter: failed without a webhook.
Reject(w, s) ==
    /\ task[w][s].pc = "accepted"
    /\ FailJob(task[w][s].job)
    /\ SetTask(w, s, Free)
    /\ UNCHANGED <<request, aged, overdue, requeued, sent, queue, worker, todo, stuck,
                   telling, starts, faults>>

\* UPDATE jobs SET status = 'running' WHERE id = $1: the status read before is
\* not looked at again.
Run(w, s) ==
    /\ task[w][s].pc = "accepted"
    /\ status' = [status EXCEPT ![task[w][s].job] = "running"]
    /\ overdue' = overdue \ {task[w][s].job}
    /\ SetTask(w, s, [task[w][s] EXCEPT !.pc = "executing"])
    /\ UNCHANGED <<request, refunds, aged, requeued, sent, queue, worker, todo, stuck,
                   telling, starts, faults>>

\* The handler's input model does not validate: failed without a webhook.
RejectInput(w, s) ==
    /\ task[w][s].pc = "executing"
    /\ FailJob(task[w][s].job)
    /\ SetTask(w, s, Free)
    /\ UNCHANGED <<request, aged, overdue, requeued, sent, queue, worker, todo, stuck,
                   telling, starts, faults>>

\* The handler has raised: all providers failed, or any other exception.
HandlerFails(w, s) ==
    /\ task[w][s].pc = "executing"
    /\ FailJob(task[w][s].job)
    /\ SetTask(w, s, [task[w][s] EXCEPT !.pc = "notifying"])
    /\ UNCHANGED <<request, aged, overdue, requeued, sent, queue, worker, todo, stuck,
                   telling, starts, faults>>

\* The handler has returned and its outputs are stored.
HandlerSucceeds(w, s) ==
    /\ task[w][s].pc = "executing"
    /\ status' = [status EXCEPT ![task[w][s].job] = "succeeded"]
    /\ SetTask(w, s, [task[w][s] EXCEPT !.pc = "notifying"])
    /\ UNCHANGED <<request, refunds, aged, overdue, requeued, sent, queue, worker, todo,
                   stuck, telling, starts, faults>>

Notify(w, s) ==
    /\ task[w][s].pc = "notifying"
    /\ FireWebhook(task[w][s].job)
    /\ SetTask(w, s, Free)
    /\ UNCHANGED <<request, status, refunds, aged, overdue, requeued, queue, worker, todo,
                   stuck, telling, starts, faults>>

\* An exception process_job does not catch: storage, database, file records.
Die(w, s) ==
    /\ s \in Inside(w)
    /\ Fault
    /\ SetTask(w, s, Free)
    /\ UNCHANGED <<jobVars, queue, worker, todo, stuck, telling, starts>>

-----------------------------------------------------------------------------
(* recovery_janitor_loop *)

MutAnyRunning == {j \in Jobs : status[j] = "running"}
MutStuckPending == {j \in overdue : status[j] = "pending"}

\* Running, and started over timeout_seconds + 60 seconds ago.
StuckJobs == {j \in overdue : status[j] = "running"}

Scan(w) ==
    /\ worker[w] = "up"
    /\ stuck[w] = {} /\ telling[w] = {}
    /\ StuckJobs # {}
    /\ stuck' = [stuck EXCEPT ![w] = StuckJobs]
    /\ UNCHANGED <<jobVars, queue, worker, todo, task, telling, starts, faults>>

\* The row may be out of date: the job is failed whatever its status is now.
TimeOut(w, j) ==
    /\ j \in stuck[w] /\ telling[w] = {}
    /\ FailJob(j)
    /\ stuck' = [stuck EXCEPT ![w] = @ \ {j}]
    /\ telling' = [telling EXCEPT ![w] = {j}]
    /\ UNCHANGED <<request, aged, overdue, requeued, sent, queue, worker, todo, task,
                   starts, faults>>

Tell(w, j) ==
    /\ j \in telling[w]
    /\ FireWebhook(j)
    /\ telling' = [telling EXCEPT ![w] = {}]
    /\ UNCHANGED <<request, status, refunds, aged, overdue, requeued, queue, worker, todo,
                   task, stuck, starts, faults>>

\* Any exception ends the round; its other rows wait for the next one.
JanitorError(w) ==
    /\ stuck[w] # {} \/ telling[w] # {}
    /\ Fault
    /\ stuck' = [stuck EXCEPT ![w] = {}]
    /\ telling' = [telling EXCEPT ![w] = {}]
    /\ UNCHANGED <<jobVars, queue, worker, todo, task, starts>>

-----------------------------------------------------------------------------
Finish(w, s) == RejectInput(w, s) \/ HandlerFails(w, s) \/ HandlerSucceeds(w, s)

Next ==
    \/ \E j \in Jobs : Submit(j) \/ Enqueue(j) \/ LoseRequest(j) \/ Age(j) \/ Expire(j)
    \/ \E w \in Workers :
        \/ Start(w) \/ Ready(w) \/ LosePop(w) \/ Stop(w) \/ Stopped(w) \/ Crash(w)
        \/ Scan(w) \/ JanitorError(w)
        \/ \E j \in Jobs : Requeue(w, j) \/ TimeOut(w, j) \/ Tell(w, j)
        \/ \E s \in Slots :
            \/ Pop(w, s) \/ Accept(w, s) \/ Skip(w, s) \/ Reject(w, s) \/ Run(w, s)
            \/ RejectInput(w, s) \/ HandlerFails(w, s) \/ HandlerSucceeds(w, s)
            \/ Notify(w, s) \/ Die(w, s)

Spec == Init /\ [][Next]_vars

-----------------------------------------------------------------------------
(* Safety *)

Held(j) == {p \in Workers \X Slots :
               task[p[1]][p[2]] # Free /\ task[p[1]][p[2]].job = j}

\* A job that is pending is always somewhere, as long as nothing has failed:
\* with its request, in the queue, in a start-up pass or with a task.  A
\* graceful stop of a worker loses none.
PendingIsSomewhere ==
    faults = 0 =>
        \A j \in Jobs : status[j] = "pending" =>
            \/ request[j] = "committed"
            \/ \E i \in DOMAIN queue : queue[i] = j
            \/ \E p \in Held(j) : task[p[1]][p[2]].pc \in {"waiting", "accepted"}

SoleWorker == \A v, w \in Workers : v = w

\* A job with one delivery and one judge: start-up recovery has not pushed it,
\* and either no janitor may look at it or the only one there is does so when
\* no handler is at work on it.
Undisputed(j) ==
    /\ j \notin requeued
    /\ j \notin overdue \/ (SoleWorker /\ HandlersInTime)

\* An undisputed job is refunded if and only if it has failed, once, and then
\* it stays failed: tasks, janitors, crashes and restarts between them commit
\* _fail_job at most once and never after a success.
RefundedOnce ==
    \A j \in Jobs : Undisputed(j) =>
        refunds[j] = IF status[j] = "failed" THEN 1 ELSE 0

\* What a partner has been told of an undisputed job is its final status: no
\* second outcome follows the first.  (Of pending and running, which the partner
\* guide lists as events too, nobody is ever told.)
ToldTheOutcome ==
    \A m \in sent : Undisputed(m[1]) => m[2] = status[m[1]] /\ m[2] \in Terminal

\* A status goes from one of these to another, and nowhere from an outcome.
Walk == {<<"none", "pending">>, <<"pending", "running">>, <<"pending", "failed">>,
         <<"running", "succeeded">>, <<"running", "failed">>}

\* While a job is undisputed its status walks forward: no task, no janitor and
\* no restart runs it a second time, or turns one outcome into the other.
OneWalk ==
    [][\A j \in Jobs : Undisputed(j) /\ Undisputed(j)' /\ status'[j] # status[j] =>
           <<status[j], status'[j]>> \in Walk]_vars

-----------------------------------------------------------------------------
(* Refinement *)

Disputed == {j \in Jobs : ~Undisputed(j)}

States == INSTANCE JobStateMachine WITH told <- sent, disputed <- Disputed

\* Every job goes through the promised states while it is undisputed, and a
\* disputed one does no worse than the promise allows for it: for any number of
\* workers and tasks, whatever crashes, restarts, start-up recoveries and late
\* handlers there are.
FollowsTheStates == States!Spec

-----------------------------------------------------------------------------
(* Liveness *)

\* asyncio runs every task that is ready, time passes, and the API goes on with
\* its request; nothing makes a handler return, and nothing restarts a worker.
Fairness ==
    /\ \A j \in Jobs : WF_vars(Enqueue(j)) /\ WF_vars(Expire(j))
    /\ \A w \in Workers :
        /\ WF_vars(Ready(w)) /\ WF_vars(Stopped(w)) /\ WF_vars(Scan(w))
        /\ \A j \in Jobs : WF_vars(Requeue(w, j) \/ TimeOut(w, j) \/ Tell(w, j))
        /\ \A s \in Slots :
            /\ WF_vars(Pop(w, s))
            /\ WF_vars(Accept(w, s) \/ Skip(w, s))
            /\ WF_vars(Reject(w, s) \/ Run(w, s) \/ Notify(w, s))

FairSpec == Spec /\ Fairness

SomeWorkerStays == \E w \in Workers : <>[](worker[w] = "up")
HandlersReturn == \A w \in Workers, s \in Slots : WF_vars(Finish(w, s))

\* Even if handlers hang, exceptions escape and workers crash, a running job
\* reaches an outcome if some worker stays up: its janitor sees to it.
RunningEnds ==
    SomeWorkerStays =>
        \A j \in Jobs : status[j] = "running" ~> status[j] \in Terminal

\* Without faults, and with handlers that return, every submitted job is taken
\* up if some worker stays up, whatever graceful stops and starts came before.
PendingIsTaken ==
    SomeWorkerStays /\ [](faults = 0) /\ HandlersReturn =>
        \A j \in Jobs : status[j] = "pending" ~> status[j] # "pending"

\* Whatever was lost before, a request between COMMIT and LPUSH, a pop, or a
\* worker with the ids it had popped: a job that is pending and old enough while
\* a worker is down is taken up once that worker has started again and stays, if
\* no further fault strikes.
RecoveryTakesUp ==
    HandlersReturn =>
        \A j \in Jobs, w \in Workers, n \in 0..MaxFaults :
            /\ j \in aged /\ status[j] = "pending" /\ worker[w] = "down"
            /\ [](faults = n) /\ <>[](worker[w] = "up")
            ~> status[j] # "pending"

-----------------------------------------------------------------------------
(* What the documents say and the code does not keep *)

\* specs/06-business-logic.md: the credits reserved for a job are returned when
\* it fails.  They may be returned twice: by the janitors of two workers.
RefundMatchesOutcome ==
    \A j \in Jobs \ requeued : refunds[j] = IF status[j] = "failed" THEN 1 ELSE 0

\* specs/06-business-logic.md: of a succeeded job the credits are confirmed.
\* Violated by a handler that ends after its janitor has given up on it.
SucceededIsPaid == \A j \in Jobs : status[j] = "succeeded" => refunds[j] = 0

\* specs/02-architecture.md, ADR-3: at-least-once delivery, and recovery of
\* what a crashed worker had popped.  Violated: BRPOP forgets the job.
CrashedDeliveryIsRepeated ==
    SomeWorkerStays /\ HandlersReturn =>
        \A j \in Jobs : status[j] = "pending" ~> status[j] # "pending"
=============================================================================
