----------------------- MODULE WebhookDeliveryProofs -----------------------
(***************************************************************************)
(* What WebhookDelivery keeps, for any deliveries, tasks, retry loops and  *)
(* backoffs.  The properties are not inductive: an attempt writes what it  *)
(* was begun with, so the invariant speaks of the snapshots in the batches *)
(* and of the attempts under way as well as of the rows.                   *)
(***************************************************************************)
EXTENDS WebhookDelivery, TLAPS

-----------------------------------------------------------------------------
(* The inductive invariant *)

\* A row counts no request that was not made, and a pending one has a backoff left.
RowsCount ==
    \A d \in Deliveries :
        /\ delivery[d].attempts <= sent[d]
        /\ sent[d] <= Backoffs + 1
        /\ delivery[d].status = "pending" => delivery[d].attempts <= Backoffs
        /\ delivery[d].status = "failed" => sent[d] > Backoffs \/ d \in unsigned

\* So does what a loop has read of it, however old that is.
SnapshotsCount ==
    \A w \in Loops : \A r \in batch[w] :
        r.attempts <= sent[r.of] /\ r.attempts <= Backoffs

\* An attempt that has its answer has made one request more than it began with.
AttemptsCount ==
    \A a \in Attempters :
        /\ attempt[a].step # "idle" =>
             attempt[a].attempts <= sent[attempt[a].of] /\ attempt[a].attempts <= Backoffs
        /\ attempt[a].step = "answered" => attempt[a].attempts + 1 <= sent[attempt[a].of]

AnswersHeard ==
    \A a \in Attempters :
        attempt[a].step = "answered" /\ attempt[a].ok => attempt[a].of \in heard

Sound ==
    /\ RowsCount
    /\ SnapshotsCount
    /\ AttemptsCount
    /\ AnswersHeard
    /\ DeliveredWasHeard
    /\ PendingIsScheduled

-----------------------------------------------------------------------------
(* The states an attempt can be in *)

\* What the step of an attempt says of its other fields.
LEMMA AttemptShape ==
    ASSUME TypeOK, NEW a \in Attempters
    PROVE  /\ attempt[a].step \in {"idle", "ready", "answered"}
           /\ attempt[a].step = "idle" => attempt[a] = NoAttempt
           /\ attempt[a].step # "idle" =>
                /\ attempt[a].of \in Deliveries
                /\ attempt[a].attempts \in Nat
                /\ attempt[a].signed \in BOOLEAN
           /\ attempt[a].step = "answered" => attempt[a].ok \in BOOLEAN
BY DEF TypeOK, NoAttempt

\* What After makes of a count is a row.
LEMMA AfterType ==
    ASSUME NEW n \in Nat, NEW ok \in BOOLEAN
    PROVE  After(n, ok) \in [status: {"none", "pending", "delivered", "failed"},
                             attempts: Nat, next: {"null", "later", "due"}]
BY BackoffsAssumption DEF After

-----------------------------------------------------------------------------
(* Types *)

\* The initial states are well typed.
LEMMA InitType == Init => TypeOK
BY FaultsAssumption DEF Init, TypeOK, Absent

\* Every step keeps the types.
LEMMA NextType == TypeOK /\ [Next]_vars => TypeOK'
<1> SUFFICES ASSUME TypeOK, [Next]_vars
             PROVE  TypeOK'
  OBVIOUS
<1> USE FaultsAssumption, BackoffsAssumption
<1>1. CASE Configure
  BY <1>1 DEF Configure, TypeOK
<1>2. ASSUME NEW d \in Deliveries, FallDue(d)
      PROVE  TypeOK'
  BY <1>2, SMTT(30) DEF FallDue, TypeOK
<1>3. ASSUME NEW a \in Senders, NEW d \in Deliveries, Insert(a, d)
      PROVE  TypeOK'
  <2>1. a \in Attempters
    BY DEF Attempters
  <2>2. Ready(d, 0, secret) \in
          [step: {"ready"}, of: Deliveries, attempts: Nat, signed: BOOLEAN]
    BY DEF Ready, TypeOK
  <2> QED
    BY <1>3, <2>1, <2>2 DEF Insert, TypeOK
<1>4. ASSUME NEW a \in Senders, LoseAttempt(a)
      PROVE  TypeOK'
  BY <1>4 DEF LoseAttempt, TypeOK, Attempters
<1>5. ASSUME NEW w \in Loops, ScanDue(w)
      PROVE  TypeOK'
  <2>1. {[of |-> d, attempts |-> delivery[d].attempts] : d \in DueRows} \subseteq Snapshots
    BY DEF DueRows, Snapshots, TypeOK
  <2> QED
    BY <1>5, <2>1 DEF ScanDue, TypeOK
<1>6. ASSUME NEW w \in Loops, TakeUp(w)
      PROVE  TypeOK'
  <2>1. PICK r \in batch[w] :
          /\ batch' = [batch EXCEPT ![w] = @ \ {r}]
          /\ attempt' = [attempt EXCEPT ![w] = Ready(r.of, r.attempts, url /\ secret)]
    BY <1>6 DEF TakeUp
  <2>2. r \in Snapshots /\ w \in Attempters
    BY DEF TypeOK, Attempters
  <2>3. (url /\ secret) \in BOOLEAN
    OBVIOUS
  <2>4. Ready(r.of, r.attempts, url /\ secret) \in
          [step: {"ready"}, of: Deliveries, attempts: Nat, signed: BOOLEAN]
    BY <2>2, <2>3 DEF Ready, Snapshots
  <2> QED
    BY <1>6, <2>1, <2>2, <2>4 DEF TakeUp, TypeOK
<1>7. ASSUME NEW w \in Loops, LoseRound(w)
      PROVE  TypeOK'
  BY <1>7 DEF LoseRound, TypeOK, Attempters
<1>8. ASSUME NEW a \in Attempters, GiveUp(a)
      PROVE  TypeOK'
  BY <1>8, AttemptShape DEF GiveUp, TypeOK
<1>9. ASSUME NEW a \in Attempters, Record(a)
      PROVE  TypeOK'
  <2>1. After(attempt[a].attempts + 1, attempt[a].ok) \in
          [status: {"none", "pending", "delivered", "failed"},
           attempts: Nat, next: {"null", "later", "due"}]
    BY <1>9, AttemptShape, AfterType DEF Record
  <2> QED
    BY <1>9, <2>1, AttemptShape DEF Record, TypeOK
<1>10. ASSUME NEW a \in Attempters, NEW had \in BOOLEAN, NEW ok \in BOOLEAN,
              Post(a, had, ok)
       PROVE  TypeOK'
  <2>1. sent' \in [Deliveries -> Nat] /\ heard' \subseteq Deliveries
    BY <1>10, AttemptShape DEF Post, TypeOK
  <2>2. attempt'[a] \in [step: {"answered"}, of: Deliveries, attempts: Nat,
                         signed: BOOLEAN, ok: BOOLEAN]
    BY <1>10, AttemptShape DEF Post, TypeOK
  <2> QED
    BY <1>10, <2>1, <2>2 DEF Post, TypeOK
<1>11. CASE UNCHANGED vars
  BY <1>11 DEF vars, TypeOK
<1> QED
  BY <1>1, <1>2, <1>3, <1>4, <1>5, <1>6, <1>7, <1>8, <1>9, <1>10, <1>11
     DEF Next, Attempting

\* Every state of the deliveries is well typed.
THEOREM DeliveryTypes == Spec => []TypeOK
BY InitType, NextType, PTL DEF Spec

-----------------------------------------------------------------------------
(* The invariant *)

\* No row, no request.
LEMMA InitSound == Init => Sound
BY BackoffsAssumption
   DEF Init, Sound, RowsCount, SnapshotsCount, AttemptsCount, AnswersHeard,
       DeliveredWasHeard, PendingIsScheduled, Absent, NoAttempt

\* A step that only lets attempts and snapshots go.
LEMMA LettingGo ==
    ASSUME Sound, UNCHANGED <<delivery, sent, heard, unsigned>>,
           \A w \in Loops : batch'[w] \subseteq batch[w],
           \A a \in Attempters : attempt'[a] = attempt[a] \/ attempt'[a] = NoAttempt
    PROVE  Sound'
<1>1. RowsCount' /\ DeliveredWasHeard' /\ PendingIsScheduled'
  BY DEF Sound, RowsCount, DeliveredWasHeard, PendingIsScheduled
<1>2. SnapshotsCount'
  BY DEF Sound, SnapshotsCount
<1>3. AttemptsCount' /\ AnswersHeard'
  BY DEF Sound, AttemptsCount, AnswersHeard, NoAttempt
<1> QED
  BY <1>1, <1>2, <1>3 DEF Sound

\* A loop, or the task that inserts, begins an attempt with a count that holds.
LEMMA NextBegun ==
    ASSUME TypeOK, Sound, NEW a \in Attempters, NEW d \in Deliveries, NEW n \in Nat,
           NEW signed \in BOOLEAN, n <= sent[d], n <= Backoffs,
           attempt' = [attempt EXCEPT ![a] = Ready(d, n, signed)],
           UNCHANGED <<sent, heard>>
    PROVE  AttemptsCount' /\ AnswersHeard'
<1>1. attempt'[a] = Ready(d, n, signed)
  BY DEF TypeOK
<1>2. \A b \in Attempters \ {a} : attempt'[b] = attempt[b]
  BY DEF TypeOK
<1> QED
  BY <1>1, <1>2 DEF Sound, AttemptsCount, AnswersHeard, Ready

\* Writing a row that holds ends the attempt that wrote it.
LEMMA NextWritten ==
    ASSUME TypeOK, Sound, NEW a \in Attempters, NEW d \in Deliveries,
           NEW row \in [status: {"none", "pending", "delivered", "failed"},
                        attempts: Nat, next: {"null", "later", "due"}],
           delivery' = [delivery EXCEPT ![d] = row],
           attempt' = [attempt EXCEPT ![a] = NoAttempt],
           UNCHANGED <<batch, sent, heard>>,
           unsigned \subseteq unsigned',
           row.attempts <= sent[d],
           row.status = "pending" => row.attempts <= Backoffs /\ row.next # "null",
           row.status = "failed" => sent[d] > Backoffs \/ d \in unsigned',
           row.status = "delivered" => d \in heard
    PROVE  Sound'
<1>1. delivery'[d] = row /\ \A e \in Deliveries \ {d} : delivery'[e] = delivery[e]
  BY DEF TypeOK
<1>2. \A b \in Attempters : attempt'[b] = attempt[b] \/ attempt'[b] = NoAttempt
  BY DEF TypeOK
<1>3. RowsCount'
  BY <1>1 DEF Sound, RowsCount
<1>4. SnapshotsCount'
  BY DEF Sound, SnapshotsCount
<1>5. AttemptsCount' /\ AnswersHeard'
  BY <1>2 DEF Sound, AttemptsCount, AnswersHeard, NoAttempt
<1>6. DeliveredWasHeard' /\ PendingIsScheduled'
  BY <1>1 DEF Sound, DeliveredWasHeard, PendingIsScheduled
<1> QED
  BY <1>3, <1>4, <1>5, <1>6 DEF Sound

\* Every step keeps the invariant.
LEMMA NextSound == TypeOK /\ Sound /\ [Next]_vars => Sound'
<1> SUFFICES ASSUME TypeOK, Sound, [Next]_vars
             PROVE  Sound'
  OBVIOUS
<1>1. CASE Configure
  BY <1>1, LettingGo DEF Configure
<1>2. ASSUME NEW d \in Deliveries, FallDue(d)
      PROVE  Sound'
  <2>1. /\ delivery'[d].attempts = delivery[d].attempts
        /\ delivery'[d].status = delivery[d].status
        /\ delivery'[d].next = "due"
        /\ \A e \in Deliveries \ {d} : delivery'[e] = delivery[e]
    BY <1>2 DEF FallDue, TypeOK
  <2>2. RowsCount' /\ DeliveredWasHeard' /\ PendingIsScheduled'
    BY <1>2, <2>1 DEF FallDue, Sound, RowsCount, DeliveredWasHeard, PendingIsScheduled
  <2>3. SnapshotsCount' /\ AttemptsCount' /\ AnswersHeard'
    BY <1>2 DEF FallDue, Sound, SnapshotsCount, AttemptsCount, AnswersHeard
  <2> QED
    BY <2>2, <2>3 DEF Sound
<1>3. ASSUME NEW a \in Senders, NEW d \in Deliveries, Insert(a, d)
      PROVE  Sound'
  <2>1. /\ delivery'[d] = [status |-> "pending", attempts |-> 0, next |-> "due"]
        /\ \A e \in Deliveries \ {d} : delivery'[e] = delivery[e]
    BY <1>3 DEF Insert, TypeOK
  <2>2. a \in Attempters /\ sent[d] \in Nat /\ secret \in BOOLEAN
    BY DEF Attempters, TypeOK
  <2>3. RowsCount' /\ DeliveredWasHeard' /\ PendingIsScheduled'
    BY <1>3, <2>1, <2>2, BackoffsAssumption
       DEF Insert, Sound, RowsCount, DeliveredWasHeard, PendingIsScheduled
  <2>4. SnapshotsCount'
    BY <1>3 DEF Insert, Sound, SnapshotsCount
  <2>5. AttemptsCount' /\ AnswersHeard'
    <3>1. 0 \in Nat /\ 0 <= sent[d] /\ 0 <= Backoffs
      BY <2>2, BackoffsAssumption
    <3>2. attempt' = [attempt EXCEPT ![a] = Ready(d, 0, secret)] /\ UNCHANGED <<sent, heard>>
      BY <1>3 DEF Insert
    <3> QED
      BY <2>2, <3>1, <3>2, NextBegun
  <2> QED
    BY <2>3, <2>4, <2>5 DEF Sound
<1>4. ASSUME NEW a \in Senders, LoseAttempt(a)
      PROVE  Sound'
  BY <1>4, LettingGo DEF LoseAttempt, TypeOK
<1>5. ASSUME NEW w \in Loops, ScanDue(w)
      PROVE  Sound'
  <2>1. \A v \in Loops : \A r \in batch'[v] : r \notin batch[v] =>
          \E d \in DueRows : r = [of |-> d, attempts |-> delivery[d].attempts]
    BY <1>5 DEF ScanDue, TypeOK
  <2>2. \A d \in DueRows : delivery[d].attempts <= sent[d] /\ delivery[d].attempts <= Backoffs
    BY DEF DueRows, Sound, RowsCount
  <2>3. SnapshotsCount'
    BY <1>5, <2>1, <2>2 DEF ScanDue, Sound, SnapshotsCount
  <2>4. RowsCount' /\ DeliveredWasHeard' /\ PendingIsScheduled' /\ AttemptsCount' /\ AnswersHeard'
    BY <1>5 DEF ScanDue, Sound, RowsCount, DeliveredWasHeard, PendingIsScheduled,
                AttemptsCount, AnswersHeard
  <2> QED
    BY <2>3, <2>4 DEF Sound
<1>6. ASSUME NEW w \in Loops, TakeUp(w)
      PROVE  Sound'
  <2>1. PICK r \in batch[w] :
          /\ batch' = [batch EXCEPT ![w] = @ \ {r}]
          /\ attempt' = [attempt EXCEPT ![w] = Ready(r.of, r.attempts, url /\ secret)]
    BY <1>6 DEF TakeUp
  <2>2. /\ r.of \in Deliveries /\ r.attempts \in Nat /\ w \in Attempters
        /\ r.attempts <= sent[r.of] /\ r.attempts <= Backoffs
    BY DEF TypeOK, Snapshots, Attempters, Sound, SnapshotsCount
  <2>3. (url /\ secret) \in BOOLEAN
    OBVIOUS
  <2>4. AttemptsCount' /\ AnswersHeard'
    BY <1>6, <2>1, <2>2, <2>3, NextBegun DEF TakeUp
  <2>5. \A v \in Loops : batch'[v] \subseteq batch[v]
    BY <2>1 DEF TypeOK
  <2>6. SnapshotsCount'
    BY <1>6, <2>5 DEF TakeUp, Sound, SnapshotsCount
  <2>7. RowsCount' /\ DeliveredWasHeard' /\ PendingIsScheduled'
    BY <1>6 DEF TakeUp, Sound, RowsCount, DeliveredWasHeard, PendingIsScheduled
  <2> QED
    BY <2>4, <2>6, <2>7 DEF Sound
<1>7. ASSUME NEW w \in Loops, LoseRound(w)
      PROVE  Sound'
  BY <1>7, LettingGo DEF LoseRound, TypeOK
<1>8. ASSUME NEW a \in Attempters, GiveUp(a)
      PROVE  Sound'
  <2> DEFINE d == attempt[a].of
             row == [status |-> "failed", attempts |-> attempt[a].attempts, next |-> "null"]
  <2>1. d \in Deliveries /\ attempt[a].attempts \in Nat /\ attempt[a].attempts <= sent[d]
    BY <1>8, AttemptShape DEF GiveUp, Sound, AttemptsCount
  <2>2. row \in [status: {"none", "pending", "delivered", "failed"},
                 attempts: Nat, next: {"null", "later", "due"}]
    BY <2>1
  <2>3. /\ delivery' = [delivery EXCEPT ![d] = row]
        /\ attempt' = [attempt EXCEPT ![a] = NoAttempt]
        /\ unsigned' = unsigned \cup {d}
        /\ UNCHANGED <<batch, sent, heard>>
    BY <1>8 DEF GiveUp
  <2>4. row.status = "failed" /\ row.attempts = attempt[a].attempts
    OBVIOUS
  <2> HIDE DEF d, row
  <2> QED
    BY <2>1, <2>2, <2>3, <2>4, NextWritten DEF d
<1>9. ASSUME NEW a \in Attempters, Record(a)
      PROVE  Sound'
  <2> DEFINE d == attempt[a].of
             n == attempt[a].attempts + 1
             row == After(n, attempt[a].ok)
  <2>1. /\ d \in Deliveries /\ n \in Nat /\ n <= sent[d]
        /\ attempt[a].ok \in BOOLEAN
        /\ attempt[a].ok => d \in heard
    BY <1>9, AttemptShape DEF Record, Sound, AttemptsCount, AnswersHeard
  <2>2. row \in [status: {"none", "pending", "delivered", "failed"},
                 attempts: Nat, next: {"null", "later", "due"}]
    BY <2>1, AfterType
  <2>3. /\ delivery' = [delivery EXCEPT ![d] = row]
        /\ attempt' = [attempt EXCEPT ![a] = NoAttempt]
        /\ UNCHANGED <<batch, sent, heard, unsigned>>
    BY <1>9 DEF Record
  <2>4. /\ row.attempts = n
        /\ row.status = "pending" => n <= Backoffs /\ row.next # "null"
        /\ row.status = "failed" => n > Backoffs
        /\ row.status = "delivered" => attempt[a].ok
    BY <2>1, BackoffsAssumption DEF After
  <2>5. sent[d] \in Nat
    BY <2>1 DEF TypeOK
  <2> HIDE DEF d, n, row
  <2>6. row.status = "failed" => sent[d] > Backoffs
    BY <2>1, <2>4, <2>5, BackoffsAssumption
  <2> QED
    BY <2>1, <2>2, <2>3, <2>4, <2>6, NextWritten
<1>10. ASSUME NEW a \in Attempters, NEW had \in BOOLEAN, NEW ok \in BOOLEAN,
              Post(a, had, ok)
       PROVE  Sound'
  <2> DEFINE d == attempt[a].of
  <2>1. /\ d \in Deliveries /\ attempt[a].attempts \in Nat
        /\ attempt[a].attempts <= Backoffs /\ attempt[a].attempts <= sent[d]
    BY <1>10, AttemptShape DEF Post, Sound, AttemptsCount
  <2>2. /\ sent'[d] = IF sent[d] > Backoffs THEN sent[d] ELSE sent[d] + 1
        /\ \A e \in Deliveries \ {d} : sent'[e] = sent[e]
        /\ heard \subseteq heard' /\ (ok => d \in heard')
    BY <1>10, <2>1 DEF Post, TypeOK
  <2>3. /\ attempt'[a] = [step |-> "answered", of |-> d, attempts |-> attempt[a].attempts,
                          signed |-> TRUE, ok |-> ok]
        /\ \A b \in Attempters \ {a} : attempt'[b] = attempt[b]
    BY <1>10 DEF Post, TypeOK
  <2> HIDE DEF d
  <2>4. \A e \in Deliveries : sent[e] \in Nat /\ sent'[e] \in Nat
    BY <2>1, <2>2 DEF TypeOK
  <2>5. \A e \in Deliveries :
          sent[e] <= sent'[e] /\ (sent[e] <= Backoffs + 1 => sent'[e] <= Backoffs + 1)
    BY <2>1, <2>2, <2>4, BackoffsAssumption
  <2>6. attempt[a].attempts + 1 <= sent'[d]
    BY <2>1, <2>2, <2>4, BackoffsAssumption
  <2>7. RowsCount'
    <3>1. \A e \in Deliveries : delivery[e].attempts \in Nat
      BY DEF TypeOK
    <3> QED
      BY <1>10, <2>4, <2>5, <3>1, BackoffsAssumption DEF Post, Sound, RowsCount
  <2>8. SnapshotsCount'
    <3>1. \A w \in Loops : \A r \in batch[w] : r.of \in Deliveries /\ r.attempts \in Nat
      BY DEF TypeOK, Snapshots
    <3> QED
      BY <1>10, <2>4, <2>5, <3>1 DEF Post, Sound, SnapshotsCount
  <2>9. AttemptsCount'
    <3>1. ASSUME NEW b \in Attempters \ {a}
          PROVE  /\ attempt'[b].step # "idle" =>
                      attempt'[b].attempts <= sent'[attempt'[b].of]
                      /\ attempt'[b].attempts <= Backoffs
                 /\ attempt'[b].step = "answered" =>
                      attempt'[b].attempts + 1 <= sent'[attempt'[b].of]
      BY <2>3, <2>4, <2>5, AttemptShape DEF Sound, AttemptsCount
    <3>2. attempt'[a].attempts <= sent'[attempt'[a].of]
      BY <2>1, <2>3, <2>4, <2>6
    <3> QED
      BY <2>1, <2>3, <2>6, <3>1, <3>2 DEF AttemptsCount
  <2>10. AnswersHeard'
    BY <2>2, <2>3 DEF Sound, AnswersHeard
  <2>11. DeliveredWasHeard' /\ PendingIsScheduled'
    BY <1>10, <2>2 DEF Post, Sound, DeliveredWasHeard, PendingIsScheduled
  <2> QED
    BY <2>7, <2>8, <2>9, <2>10, <2>11 DEF Sound
<1>11. CASE UNCHANGED vars
  BY <1>11, LettingGo DEF vars
<1> QED
  BY <1>1, <1>2, <1>3, <1>4, <1>5, <1>6, <1>7, <1>8, <1>9, <1>10, <1>11
     DEF Next, Attempting

\* However attempts overlap and are lost, the counts of rows, snapshots and
\* attempts are those of requests that were made.
THEOREM DeliveriesSound == Spec => []Sound
BY InitSound, NextSound, DeliveryTypes, PTL DEF Spec

-----------------------------------------------------------------------------
(* What follows *)

\* A row is given up only after Backoffs + 1 requests, or for want of a secret,
\* and never counts more than these, however many loops attempt it.
THEOREM BudgetIsSpent == Spec => []GivenUpAfterBudget
<1>1. TypeOK /\ Sound => GivenUpAfterBudget
  <2> SUFFICES ASSUME TypeOK, Sound, NEW d \in Deliveries
               PROVE  /\ delivery[d].attempts <= sent[d]
                      /\ delivery[d].attempts <= Backoffs + 1
                      /\ delivery[d].status = "failed" =>
                           sent[d] > Backoffs \/ d \in unsigned
    BY DEF GivenUpAfterBudget
  <2>1. delivery[d].attempts \in Nat /\ sent[d] \in Nat /\ Backoffs \in Nat
    BY BackoffsAssumption DEF TypeOK
  <2> QED
    BY <2>1 DEF Sound, RowsCount
<1> QED
  BY <1>1, DeliveriesSound, DeliveryTypes, PTL

\* The partner answered every delivery whose row says so.
THEOREM DeliveredIsTrue == Spec => []DeliveredWasHeard
<1>1. Sound => DeliveredWasHeard
  BY DEF Sound
<1> QED
  BY <1>1, DeliveriesSound, PTL

\* No overwriting leaves a pending row that no loop will come to.
THEOREM PendingWillBeTried == Spec => []PendingIsScheduled
<1>1. Sound => PendingIsScheduled
  BY DEF Sound
<1> QED
  BY <1>1, DeliveriesSound, PTL
=============================================================================
