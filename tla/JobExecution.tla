---------------------------- MODULE JobExecution ----------------------------
(***************************************************************************)
(* One run of process_job and of the handler it calls: the provider chain  *)
(* as it is when the job is taken, the adapters built from it, the input   *)
(* file, the calls to the providers in turn, the rows of job_attempts, and *)
(* the output.  A janitor may fail a job that is running; an admin may     *)
(* change chain and providers at any time.                                 *)
(*                                                                         *)
(* All handlers are one loop over the adapters: a ProviderError is noted   *)
(* in memory and the next adapter is called, any other exception ends the  *)
(* handler.  How often a job is delivered, and when its time is up, is     *)
(* JobLifecycle's subject: here any number of tasks may read that a job is *)
(* pending, as after start-up recovery, and run it side by side, and a     *)
(* janitor may find it late at any moment.                                 *)
(***************************************************************************)
EXTENDS FileStore, Catalog

CONSTANTS
    Jobs,
    Tasks,      \* process_job tasks
    Janitors,   \* recovery_janitor_loop of each worker
    Home,       \* [Jobs -> integrations]
    NoFile      \* an id that no file has

ASSUME ActorsAssumption == Tasks \cap Janitors = {}
\* Ids of jobs are no words of an object's path.
ASSUME JobsAssumption == "uploads" \notin Jobs

VARIABLES
    input,      \* the upload whose file the job names
    status,     \* jobs.status
    error,      \* jobs.error_code
    tried,      \* rows of job_attempts; which task wrote a row is history
    exec,       \* what a task or a janitor is doing
    plan        \* history: the adapters a task started a job with

execVars == <<input, status, error, tried, exec, plan>>

Resting == [step |-> "idle"]
\* A provider is in the chain of a job type once.
Steps == {"reading", "fetching", "calling", "noting", "storing", "filing",
          "attempting", "closing", "reaping", "notifying"}
Runs == [step: Steps, job: Jobs, rest: Seq(Providers), adapters: Seq(Providers), count: Nat]
Attempts == [provider: Providers, ok: BOOLEAN]

\* Types of jobs, attempts and executions.
ExecTypeOK ==
    /\ input \in [Jobs -> Uploads \cup {NoFile}]
    /\ status \in [Jobs -> {"none", "pending", "running", "succeeded", "failed"}]
    /\ error \in [Jobs -> {"none", "INTERNAL", "INVALID_INPUT", "PROVIDER_ERROR", "TIMEOUT"}]
    /\ tried \in [Jobs -> [Tasks -> Seq(Attempts)]]
    /\ exec \in [Tasks \cup Janitors -> {Resting} \cup Runs]
    /\ plan \in [Jobs -> [Tasks -> Seq(Providers)]]

ExecInit ==
    /\ input = [j \in Jobs |-> NoFile]
    /\ status = [j \in Jobs |-> "none"]
    /\ error = [j \in Jobs |-> "none"]
    /\ tried = [j \in Jobs |-> [t \in Tasks |-> <<>>]]
    /\ exec = [t \in Tasks \cup Janitors |-> Resting]
    /\ plan = [j \in Jobs |-> [t \in Tasks |-> <<>>]]

-----------------------------------------------------------------------------
(* create_job *)

\* A file of another integration is refused; one that is not there is not.
CreateJob(j) ==
    /\ status[j] = "none"
    /\ status' = [status EXCEPT ![j] = "pending"]
    /\ \/ UNCHANGED input
       \/ \E row \in file :
            /\ row.content \in Uploads
            /\ Readable(Home[j], row)
            /\ input' = [input EXCEPT ![j] = row.content]
    /\ UNCHANGED <<error, tried, exec, plan, storeVars, catalogVars>>

-----------------------------------------------------------------------------
(* process_job *)

On(t, step) == exec[t].step = step
Job(t) == exec[t].job
Step(t, step) == exec' = [exec EXCEPT ![t].step = step]
Free(t) == exec' = [exec EXCEPT ![t] = Resting]

\* _fail_job; the refund is CreditLedger's.
SetFailed(j, code) ==
    /\ status' = [status EXCEPT ![j] = "failed"]
    /\ error' = [error EXCEPT ![j] = code]

\* The job is pending; its type, its handler and the chain are read.
Take(t, j) ==
    /\ On(t, "idle")
    /\ status[j] = "pending"
    /\ \E chain \in Chains :
         exec' = [exec EXCEPT ![t] = [step |-> "reading", job |-> j, rest |-> chain,
                                      adapters |-> <<>>, count |-> 0]]
    /\ UNCHANGED <<input, catalogVars, status, error, tried, plan, storeVars>>

\* ProviderRepo.get_by_id for one row of the chain: an unusable one is passed over.
BuildAdapter(t) ==
    /\ On(t, "reading")
    /\ exec[t].rest # <<>>
    /\ LET p == Head(exec[t].rest) IN
         exec' = [exec EXCEPT ![t].rest = Tail(@),
                              ![t].adapters = IF Usable(p) THEN Append(@, p) ELSE @]
    /\ UNCHANGED <<input, catalogVars, status, error, tried, plan, storeVars>>

\* No provider, or none that is usable: failed, and no webhook.
NoAdapters(t) ==
    /\ On(t, "reading")
    /\ exec[t].rest = <<>>
    /\ exec[t].adapters = <<>>
    /\ SetFailed(Job(t), "INTERNAL")
    /\ Free(t)
    /\ UNCHANGED <<input, catalogVars, tried, plan, storeVars>>

StartRunning(t) ==
    /\ On(t, "reading")
    /\ exec[t].rest = <<>>
    /\ exec[t].adapters # <<>>
    /\ status' = [status EXCEPT ![Job(t)] = "running"]
    /\ plan' = [plan EXCEPT ![Job(t)][t] = exec[t].adapters]
    /\ Step(t, "fetching")
    /\ UNCHANGED <<input, catalogVars, error, tried, storeVars>>

InputRows(t) == {row \in file : row.content = input[Job(t)]}

\* The file's row leads to an object, whose bytes become the input.
FetchInput(t) ==
    /\ On(t, "fetching")
    /\ \E row \in InputRows(t) : Stored(row.key)
    /\ Step(t, "calling")
    /\ UNCHANGED <<input, catalogVars, status, error, tried, plan, storeVars>>

\* There is no such file, or the input model refuses it: failed, and no webhook.
RejectFile(t) ==
    /\ On(t, "fetching")
    /\ SetFailed(Job(t), "INVALID_INPUT")
    /\ Free(t)
    /\ UNCHANGED <<input, catalogVars, tried, plan, storeVars>>

\* A provider answers with an image.
ProviderSucceeds(t) ==
    /\ On(t, "calling")
    /\ exec[t].count < Len(exec[t].adapters)
    /\ Step(t, "storing")
    /\ UNCHANGED <<input, catalogVars, status, error, tried, plan, storeVars>>

\* ProviderError, a prediction that is not done after _MAX_POLLS included:
\* record_attempt, and on to the next adapter.
ProviderFails(t) ==
    /\ On(t, "calling")
    /\ exec[t].count < Len(exec[t].adapters)
    /\ exec' = [exec EXCEPT ![t].count = @ + 1]
    /\ UNCHANGED <<input, catalogVars, status, error, tried, plan, storeVars>>

\* Any other exception of a provider or the handler.
HandlerBreaks(t) ==
    /\ On(t, "calling")
    /\ SetFailed(Job(t), "INTERNAL")
    /\ Step(t, "notifying")
    /\ UNCHANGED <<input, catalogVars, tried, plan, storeVars>>

MutAllFailed(t) ==
    /\ On(t, "calling")
    /\ exec[t].count > 0
    /\ exec' = [exec EXCEPT ![t].step = "noting",
                            ![t].rest = SubSeq(exec[t].adapters, 1, exec[t].count)]
    /\ UNCHANGED <<input, catalogVars, status, error, tried, plan, storeVars>>

\* AllProvidersFailedError.
AllFailed(t) ==
    /\ On(t, "calling")
    /\ exec[t].count = Len(exec[t].adapters)
    /\ exec' = [exec EXCEPT ![t].step = "noting",
                            ![t].rest = SubSeq(exec[t].adapters, 1, exec[t].count)]
    /\ UNCHANGED <<input, catalogVars, status, error, tried, plan, storeVars>>

\* One row of job_attempts for each noted failure.
NoteFailure(t) ==
    /\ On(t, "noting")
    /\ exec[t].rest # <<>>
    /\ tried' = [tried EXCEPT ![Job(t)][t] =
                   Append(@, [provider |-> Head(exec[t].rest), ok |-> FALSE])]
    /\ exec' = [exec EXCEPT ![t].rest = Tail(@)]
    /\ UNCHANGED <<input, catalogVars, status, error, plan, storeVars>>

FailAfterAll(t) ==
    /\ On(t, "noting")
    /\ exec[t].rest = <<>>
    /\ SetFailed(Job(t), "PROVIDER_ERROR")
    /\ Step(t, "notifying")
    /\ UNCHANGED <<input, catalogVars, tried, plan, storeVars>>

\* put_object.
StoreOutput(t) ==
    /\ On(t, "storing")
    /\ PutObject(OutputKey(Home[Job(t)], Job(t)), Job(t))
    /\ Step(t, "filing")
    /\ UNCHANGED <<input, catalogVars, status, error, tried, plan, file, upload, sender>>

MutFileOutput(t) ==
    /\ On(t, "filing")
    /\ Step(t, "attempting")
    /\ UNCHANGED <<input, catalogVars, status, error, tried, plan, storeVars>>

\* FileRepo.create for the output.
FileOutput(t) ==
    /\ On(t, "filing")
    /\ file' = file \cup {RowOf(Home[Job(t)], OutputKey(Home[Job(t)], Job(t)), Job(t))}
    /\ Step(t, "attempting")
    /\ UNCHANGED <<input, catalogVars, status, error, tried, plan, object, upload, sender>>

\* The row of a success names the first adapter, whichever answered.
NoteSuccess(t) ==
    /\ On(t, "attempting")
    /\ tried' = [tried EXCEPT ![Job(t)][t] =
                   Append(@, [provider |-> exec[t].adapters[1], ok |-> TRUE])]
    /\ Step(t, "closing")
    /\ UNCHANGED <<input, catalogVars, status, error, plan, storeVars>>

Complete(t) ==
    /\ On(t, "closing")
    /\ status' = [status EXCEPT ![Job(t)] = "succeeded"]
    /\ Step(t, "notifying")
    /\ UNCHANGED <<input, catalogVars, error, tried, plan, storeVars>>

\* An exception outside the handler (S3, database), or the death of the worker.
Perish(t) ==
    /\ ~On(t, "idle")
    /\ Free(t)
    /\ UNCHANGED <<input, catalogVars, status, error, tried, plan, storeVars>>

\* The janitor reads the rows of jobs whose time is up.
Find(w, j) ==
    /\ On(w, "idle")
    /\ status[j] = "running"
    /\ exec' = [exec EXCEPT ![w] = [step |-> "reaping", job |-> j, rest |-> <<>>,
                                    adapters |-> <<>>, count |-> 0]]
    /\ UNCHANGED <<input, catalogVars, status, error, tried, plan, storeVars>>

\* It fails such a job, whatever has become of it.
Reap(w) ==
    /\ On(w, "reaping")
    /\ SetFailed(Job(w), "TIMEOUT")
    /\ Step(w, "notifying")
    /\ UNCHANGED <<input, catalogVars, tried, plan, storeVars>>

Process(t) ==
    \/ BuildAdapter(t) \/ NoAdapters(t) \/ StartRunning(t)
    \/ FetchInput(t) \/ RejectFile(t)
    \/ ProviderSucceeds(t) \/ ProviderFails(t) \/ HandlerBreaks(t) \/ AllFailed(t)
    \/ NoteFailure(t) \/ FailAfterAll(t)
    \/ StoreOutput(t) \/ FileOutput(t) \/ NoteSuccess(t) \/ Complete(t)

-----------------------------------------------------------------------------

Failures(adapters) == [i \in DOMAIN adapters |-> [provider |-> adapters[i], ok |-> FALSE]]
Success(adapters) == <<[provider |-> adapters[1], ok |-> TRUE]>>

(***************************************************************************)
(* What a job says of its providers is what happened to it: PROVIDER_ERROR *)
(* comes with a task that wrote one failure per adapter it started the job *)
(* with, in the order of the chain, none missing and no success among      *)
(* them, although another task of the job writes rows of its own, and      *)
(* janitor and admin change job, chain and providers meanwhile             *)
(* (process_job, JobContext.record_attempt).                               *)
(***************************************************************************)
FailuresAreComplete ==
    \A j \in Jobs : status[j] = "failed" /\ error[j] = "PROVIDER_ERROR" =>
        \E t \in Tasks : plan[j][t] # <<>> /\ tried[j][t] = Failures(plan[j][t])

(***************************************************************************)
(* A job that says succeeded has its output: a row of files, the object    *)
(* the row names, and a task whose one row of job_attempts is a success    *)
(* that names the first adapter it started the job with.  Nothing is said  *)
(* of another task of the job, which may have written a success or         *)
(* failures too, and the same object (process_job).                        *)
(***************************************************************************)
SuccessHasOutput ==
    \A j \in Jobs : status[j] = "succeeded" =>
        /\ RowOf(Home[j], OutputKey(Home[j], j), j) \in file
        /\ Stored(OutputKey(Home[j], j))
        /\ \E t \in Tasks : plan[j][t] # <<>> /\ tried[j][t] = Success(plan[j][t])
=============================================================================
