----------------------------- MODULE JobOutcome -----------------------------
(***************************************************************************)
(* From an upload to the word to the partner: requests store files and     *)
(* create jobs, tasks execute them, janitors end those that take too long, *)
(* an admin changes the providers, and whoever gives a job its final       *)
(* status inserts a webhook delivery.  What becomes of the delivery is     *)
(* WebhookDelivery's subject.                                              *)
(***************************************************************************)
EXTENDS JobExecution

CONSTANTS
    Budgets,    \* bounds: how much may happen, one of these
    Webhooks    \* whether integrations.webhook_url may be set at first

\* Ids popped from the queue, exceptions and lost processes, changes made in the
\* admin panel, runs of the seed script.
Kinds == {"delivery", "fault", "edit", "seed"}

ASSUME BudgetsAssumption  == Budgets \subseteq [Kinds -> Nat]
ASSUME WebhooksAssumption == Webhooks \subseteq BOOLEAN

VARIABLES
    webhook,    \* integrations.webhook_url is set
    announced,  \* jobs with a row of webhook_deliveries
    left        \* bound: what is left of the budget

vars == <<execVars, storeVars, catalogVars, webhook, announced, left>>

\* Types of executions, files and links together, and of the counters.
TypeOK ==
    /\ ExecTypeOK
    /\ CatalogTypeOK
    /\ webhook \in BOOLEAN
    /\ announced \subseteq Jobs
    /\ file \subseteq [integration: {Home[j] : j \in Jobs} \cup {sender[u] : u \in Uploads},
                       key: DOMAIN object, content: Uploads \cup Jobs]
    /\ sender \in Senders
    /\ upload \in [Uploads -> {"idle", "put", "done", "lost"}]
    /\ left \in [Kinds -> Nat]

Init ==
    /\ ExecInit
    /\ StoreInit
    /\ CatalogInit
    /\ webhook \in Webhooks
    /\ announced = {}
    /\ left \in Budgets

-----------------------------------------------------------------------------

Spend(kind) == left[kind] > 0 /\ left' = [left EXCEPT ![kind] = @ - 1]

Request ==
    /\ \/ Uploading /\ UNCHANGED <<execVars, catalogVars>>
       \/ \E j \in Jobs : CreateJob(j)
    /\ UNCHANGED <<webhook, announced, left>>

\* BRPOP gives the job to a task.
Deliver ==
    /\ Spend("delivery")
    /\ \E t \in Tasks, j \in Jobs : Take(t, j)
    /\ UNCHANGED <<webhook, announced>>

Work ==
    /\ \/ \E t \in Tasks : Process(t)
       \/ \E w \in Janitors : Reap(w) \/ \E j \in Jobs : Find(w, j)
    /\ UNCHANGED <<webhook, announced, left>>

\* fire_webhook_if_configured up to its INSERT.
Report(t) ==
    /\ On(t, "notifying")
    /\ announced' = IF webhook THEN announced \cup {Job(t)} ELSE announced
    /\ Free(t)
    /\ UNCHANGED <<input, catalogVars, status, error, tried, plan, storeVars, webhook, left>>

\* A change made in the admin panel.
Edit ==
    /\ Spend("edit")
    /\ \/ Administer /\ UNCHANGED webhook
       \/ ~webhook /\ webhook' = TRUE /\ UNCHANGED catalogVars
    /\ UNCHANGED <<execVars, storeVars, announced>>

StartSeed ==
    /\ Spend("seed")
    /\ \E token \in BOOLEAN : BeginSeed(token)
    /\ UNCHANGED <<execVars, storeVars, webhook, announced>>

RunSeed == Seed /\ UNCHANGED <<execVars, storeVars, webhook, announced, left>>

Fault ==
    /\ Spend("fault")
    /\ \/ \E t \in Tasks \cup Janitors : Perish(t)
       \/ LoseSeed /\ UNCHANGED <<execVars, storeVars>>
       \/ \E u \in Uploads : LoseUpload(u) /\ UNCHANGED <<execVars, catalogVars>>
    /\ UNCHANGED <<webhook, announced>>

Next ==
    \/ Request \/ Deliver \/ Work \/ Edit \/ StartSeed \/ RunSeed \/ Fault
    \/ \E t \in Tasks \cup Janitors : Report(t)

Spec == Init /\ [][Next]_vars

-----------------------------------------------------------------------------

(***************************************************************************)
(* A failed job that no one is at work on has been reported, if there is a *)
(* URL to report it to and no admin changes that (side effects of running  *)
(* -> failed).  The failures of process_job before its handler is called,  *)
(* lines 81 to 165, report nothing; neither does a worker that dies        *)
(* between the status and the delivery.                                    *)
(***************************************************************************)
FailuresAreTold ==
    \A j \in Jobs :
        /\ webhook
        /\ status[j] = "failed"
        /\ \A a \in Tasks \cup Janitors : On(a, "idle") \/ Job(a) # j
        => j \in announced
=============================================================================
