-------------------------- MODULE WebhookDelivery --------------------------
(***************************************************************************)
(* The deliveries of webhooks to one integration.  The task that inserts a *)
(* row attempts it at once; the row is due from the start, so the retry    *)
(* loops of all workers may attempt it too.  An attempt works on the row   *)
(* as it was read, and its UPDATE looks at nothing: a slow one overwrites  *)
(* what faster ones have written.                                          *)
(***************************************************************************)
EXTENDS Naturals

CONSTANTS
    Deliveries, \* ids of rows: one for a final status that is reported
    Senders,    \* tasks that insert rows: process_job and the janitors
    Loops,      \* webhook_retry_loop of each worker
    Backoffs,   \* Len(RETRY_BACKOFFS)
    MaxFaults   \* bound: exceptions and lost processes

ASSUME SendersAssumption  == Senders \cap Loops = {}
ASSUME BackoffsAssumption == Backoffs \in Nat
ASSUME FaultsAssumption   == MaxFaults \in Nat

VARIABLES
    url,        \* integrations.webhook_url is set
    secret,     \* integrations.webhook_secret is set
    delivery,   \* rows of webhook_deliveries
    batch,      \* rows a loop has read and not yet come to
    attempt,    \* the attempt_delivery a sender or a loop is in
    sent,       \* history: requests made for a row, counted up to Backoffs + 1
    heard,      \* history: rows the partner has had a request of
    unsigned,   \* history: rows given up for want of a secret
    faults

vars == <<url, secret, delivery, batch, attempt, sent, heard, unsigned, faults>>

Attempters == Senders \cup Loops
Absent == [status |-> "none", attempts |-> 0, next |-> "null"]
NoAttempt == [step |-> "idle"]

Snapshots == [of: Deliveries, attempts: Nat]

\* Types of the delivery rows, of the snapshots a loop holds and of the attempts
\* under way.
TypeOK ==
    /\ url \in BOOLEAN
    /\ secret \in BOOLEAN
    /\ delivery \in [Deliveries -> [status: {"none", "pending", "delivered", "failed"},
                                    attempts: Nat, next: {"null", "later", "due"}]]
    /\ batch \in [Loops -> SUBSET Snapshots]
    /\ attempt \in [Attempters -> {NoAttempt}
         \cup [step: {"ready"}, of: Deliveries, attempts: Nat, signed: BOOLEAN]
         \cup [step: {"answered"}, of: Deliveries, attempts: Nat, signed: BOOLEAN, ok: BOOLEAN]]
    /\ sent \in [Deliveries -> Nat]
    /\ heard \subseteq Deliveries
    /\ unsigned \subseteq Deliveries
    /\ faults \in 0..MaxFaults

Init ==
    /\ url \in BOOLEAN
    /\ secret \in BOOLEAN
    /\ delivery = [d \in Deliveries |-> Absent]
    /\ batch = [w \in Loops |-> {}]
    /\ attempt = [a \in Attempters |-> NoAttempt]
    /\ sent = [d \in Deliveries |-> 0]
    /\ heard = {}
    /\ unsigned = {}
    /\ faults = 0

-----------------------------------------------------------------------------

\* integration_update sets both; it cannot clear them, for IntegrationRepo.update
\* leaves out what is None.
Configure ==
    /\ ~url \/ ~secret
    /\ url' = TRUE
    /\ secret' = TRUE
    /\ UNCHANGED <<delivery, batch, attempt, sent, heard, unsigned, faults>>

Ready(d, n, signed) == [step |-> "ready", of |-> d, attempts |-> n, signed |-> signed]

MutInsert(a, d) ==
    /\ url
    /\ attempt[a] = NoAttempt
    /\ delivery[d] = Absent
    /\ delivery' = [delivery EXCEPT ![d] = [@ EXCEPT !.status = "pending"]]
    /\ attempt' = [attempt EXCEPT ![a] = Ready(d, 0, secret)]
    /\ UNCHANGED <<url, secret, batch, sent, heard, unsigned, faults>>

\* fire_webhook_if_configured: the row is due at once.
Insert(a, d) ==
    /\ url
    /\ attempt[a] = NoAttempt
    /\ delivery[d] = Absent
    /\ delivery' = [delivery EXCEPT ![d] =
                      [status |-> "pending", attempts |-> 0, next |-> "due"]]
    /\ attempt' = [attempt EXCEPT ![a] = Ready(d, 0, secret)]
    /\ UNCHANGED <<url, secret, batch, sent, heard, unsigned, faults>>

\* now() passes next_retry_at.
FallDue(d) ==
    /\ delivery[d].next = "later"
    /\ delivery' = [delivery EXCEPT ![d].next = "due"]
    /\ UNCHANGED <<url, secret, batch, attempt, sent, heard, unsigned, faults>>

DueRows == {d \in Deliveries : delivery[d].status = "pending" /\ delivery[d].next = "due"}

\* get_pending_retries.
ScanDue(w) ==
    /\ attempt[w] = NoAttempt
    /\ batch[w] = {}
    /\ DueRows # {}
    /\ batch' = [batch EXCEPT ![w] = {[of |-> d, attempts |-> delivery[d].attempts] : d \in DueRows}]
    /\ UNCHANGED <<url, secret, delivery, attempt, sent, heard, unsigned, faults>>

\* The loop comes to a row of its batch and reads the integration.
TakeUp(w) ==
    /\ attempt[w] = NoAttempt
    /\ \E r \in batch[w] :
         /\ batch' = [batch EXCEPT ![w] = @ \ {r}]
         /\ attempt' = [attempt EXCEPT ![w] = Ready(r.of, r.attempts, url /\ secret)]
    /\ UNCHANGED <<url, secret, delivery, sent, heard, unsigned, faults>>

\* No URL or no secret: the row fails, with the attempts it was read with.
GiveUp(a) ==
    /\ attempt[a].step = "ready"
    /\ ~attempt[a].signed
    /\ delivery' = [delivery EXCEPT ![attempt[a].of] =
         [status |-> "failed", attempts |-> attempt[a].attempts, next |-> "null"]]
    /\ attempt' = [attempt EXCEPT ![a] = NoAttempt]
    /\ unsigned' = unsigned \cup {attempt[a].of}
    /\ UNCHANGED <<url, secret, batch, sent, heard, faults>>

\* deliver_webhook: the answer may be lost after the partner has had the request.
Post(a, had, ok) ==
    /\ attempt[a].step = "ready"
    /\ attempt[a].signed
    /\ ok => had
    /\ sent' = [sent EXCEPT ![attempt[a].of] = IF @ > Backoffs THEN @ ELSE @ + 1]
    /\ heard' = IF had THEN heard \cup {attempt[a].of} ELSE heard
    /\ attempt' = [attempt EXCEPT ![a] =
         [step |-> "answered", of |-> @.of, attempts |-> @.attempts,
          signed |-> TRUE, ok |-> ok]]
    /\ UNCHANGED <<url, secret, delivery, batch, unsigned, faults>>

MutAfter(n, ok) ==
    IF ok THEN [status |-> "delivered", attempts |-> n, next |-> "null"]
    ELSE IF n >= Backoffs
         THEN [status |-> "failed", attempts |-> n, next |-> "null"]
         ELSE [status |-> "pending", attempts |-> n, next |-> "later"]

\* calculate_next_retry: the n-th failure finds a backoff unless n > Backoffs.
After(n, ok) ==
    IF ok THEN [status |-> "delivered", attempts |-> n, next |-> "null"]
    ELSE IF n > Backoffs
         THEN [status |-> "failed", attempts |-> n, next |-> "null"]
         ELSE [status |-> "pending", attempts |-> n, next |-> "later"]

MutRecord(a) ==
    /\ attempt[a].step = "answered"
    /\ delivery' = [delivery EXCEPT ![attempt[a].of] = After(@.attempts + 1, TRUE)]
    /\ attempt' = [attempt EXCEPT ![a] = NoAttempt]
    /\ UNCHANGED <<url, secret, batch, sent, heard, unsigned, faults>>

MutCountDown(a) ==
    /\ attempt[a].step = "answered"
    /\ delivery' = [delivery EXCEPT ![attempt[a].of] =
                      After(attempt[a].attempts - 1, attempt[a].ok)]
    /\ attempt' = [attempt EXCEPT ![a] = NoAttempt]
    /\ UNCHANGED <<url, secret, batch, sent, heard, unsigned, faults>>

MutUncounted(a) ==
    /\ attempt[a].step = "answered"
    /\ delivery' = [delivery EXCEPT ![attempt[a].of] =
                      After(attempt[a].attempts, attempt[a].ok)]
    /\ attempt' = [attempt EXCEPT ![a] = NoAttempt]
    /\ UNCHANGED <<url, secret, batch, sent, heard, unsigned, faults>>

\* update_delivery, by what the attempt was begun with.
Record(a) ==
    /\ attempt[a].step = "answered"
    /\ delivery' = [delivery EXCEPT ![attempt[a].of] =
                      After(attempt[a].attempts + 1, attempt[a].ok)]
    /\ attempt' = [attempt EXCEPT ![a] = NoAttempt]
    /\ UNCHANGED <<url, secret, batch, sent, heard, unsigned, faults>>

\* An exception ends a loop's round, or its process dies and starts again.
LoseRound(w) ==
    /\ attempt[w] # NoAttempt \/ batch[w] # {}
    /\ faults < MaxFaults
    /\ faults' = faults + 1
    /\ attempt' = [attempt EXCEPT ![w] = NoAttempt]
    /\ batch' = [batch EXCEPT ![w] = {}]
    /\ UNCHANGED <<url, secret, delivery, sent, heard, unsigned>>

\* The process of a sender dies in its attempt.
LoseAttempt(a) ==
    /\ attempt[a] # NoAttempt
    /\ faults < MaxFaults
    /\ faults' = faults + 1
    /\ attempt' = [attempt EXCEPT ![a] = NoAttempt]
    /\ UNCHANGED <<url, secret, delivery, batch, sent, heard, unsigned>>

Attempting(a) ==
    \/ GiveUp(a) \/ Record(a)
    \/ \E had, ok \in BOOLEAN : Post(a, had, ok)

Next ==
    \/ Configure
    \/ \E d \in Deliveries : FallDue(d)
    \/ \E a \in Senders : LoseAttempt(a) \/ \E d \in Deliveries : Insert(a, d)
    \/ \E w \in Loops : ScanDue(w) \/ TakeUp(w) \/ LoseRound(w)
    \/ \E a \in Attempters : Attempting(a)

\* The clock and the event loops go on, and a request to a partner ends after
\* ten seconds at the latest: a loop comes to every row of its batch.
Fairness ==
    /\ \A d \in Deliveries : WF_vars(FallDue(d))
    /\ \A w \in Loops : WF_vars(ScanDue(w)) /\ WF_vars(TakeUp(w))
    /\ \A a \in Attempters : WF_vars(Attempting(a))

Spec == Init /\ [][Next]_vars
FairSpec == Spec /\ Fairness

-----------------------------------------------------------------------------

(***************************************************************************)
(* A row is given up only after one request more than there are backoffs,  *)
(* or because the integration had no secret: however attempts overlap, an  *)
(* attempt that is counted was made, and no row counts more of them than   *)
(* the first one and one after each backoff (attempt_delivery).            *)
(***************************************************************************)
GivenUpAfterBudget ==
    \A d \in Deliveries :
        /\ delivery[d].attempts <= sent[d] /\ delivery[d].attempts <= Backoffs + 1
        /\ delivery[d].status = "failed" => sent[d] > Backoffs \/ d \in unsigned

(***************************************************************************)
(* A row that says delivered was answered by the partner, also when a slow *)
(* attempt overwrites a faster one (update_delivery).                      *)
(***************************************************************************)
DeliveredWasHeard ==
    \A d \in Deliveries : delivery[d].status = "delivered" => d \in heard

(***************************************************************************)
(* A pending row has a time at which a loop will come to it, whoever wrote *)
(* it last: the process that inserted it may be gone.                      *)
(***************************************************************************)
PendingIsScheduled ==
    \A d \in Deliveries : delivery[d].status = "pending" => delivery[d].next # "null"

(***************************************************************************)
(* Liveness: every delivery ends, delivered or given up, and stays so,     *)
(* whatever the partner answers, however the attempts of the workers       *)
(* overlap, and although any of them may be lost (webhook_retry_loop).     *)
(***************************************************************************)
DeliveriesEnd ==
    \A d \in Deliveries : delivery[d].status = "pending" ~>
        [](delivery[d].status \in {"delivered", "failed"})
=============================================================================
