------------------------- MODULE JobLifecycleProofs -------------------------
(***************************************************************************)
(* Proofs about JobLifecycle, for any number of jobs, workers and tasks,   *)
(* any concurrency and any number of starts and faults; and about PaidJobs *)
(* for any users and costs.                                                *)
(***************************************************************************)
EXTENDS PaidJobs, SequenceTheorems, FiniteSetTheorems, TLAPS

-----------------------------------------------------------------------------
(* The queue *)

\* LPUSH keeps the entries and adds one.
LEMMA PushFacts ==
    ASSUME NEW q \in Seq(Jobs), NEW j \in Jobs
    PROVE  /\ <<j>> \o q \in Seq(Jobs)
           /\ Len(<<j>> \o q) = Len(q) + 1
           /\ (<<j>> \o q)[1] = j
           /\ \A i \in 2 .. Len(q) + 1 : (<<j>> \o q)[i] = q[i - 1]
  OBVIOUS

\* BRPOP takes the last entry and keeps the others in their places.
LEMMA PopFacts ==
    ASSUME NEW q \in Seq(Jobs), q # <<>>
    PROVE  /\ Len(q) \in Nat \ {0}
           /\ q[Len(q)] \in Jobs
           /\ SubSeq(q, 1, Len(q) - 1) \in Seq(Jobs)
           /\ Len(SubSeq(q, 1, Len(q) - 1)) = Len(q) - 1
           /\ \A i \in 1 .. Len(q) - 1 : SubSeq(q, 1, Len(q) - 1)[i] = q[i]
<1>1. Len(q) \in Nat /\ DOMAIN q = 1 .. Len(q)
  OBVIOUS
<1>2. Len(q) # 0
  BY <1>1, EmptySeq
<1>3. Len(q) - 1 \in Nat /\ Len(q) - 1 <= Len(q)
  BY <1>1, <1>2
<1>4. q[Len(q)] \in Jobs
  BY <1>1, <1>2
<1>5. /\ SubSeq(q, 1, Len(q) - 1) \in Seq(Jobs)
      /\ Len(SubSeq(q, 1, Len(q) - 1)) = Len(q) - 1
      /\ \A i \in 1 .. Len(q) - 1 : SubSeq(q, 1, Len(q) - 1)[i] = q[i]
  BY <1>1, <1>2, <1>3, SubSeqProperties
<1> QED
  BY <1>1, <1>2, <1>4, <1>5

-----------------------------------------------------------------------------
(* Types *)

\* The initial values are of their types.
LEMMA InitType == Init => TypeOK
  BY DEF Init, TypeOK, Statuses, Tasks, Free

\* A task's record, and a task that is set.
LEMMA TaskFacts ==
    ASSUME TypeOK, NEW w \in Workers, NEW s \in Slots
    PROVE  /\ task[w][s] \in Tasks
           /\ task[w][s].pc # "free" => task[w][s].job \in Jobs
           /\ task[w][s].pc = "free" => task[w][s] = Free
           /\ \A pc \in {"waiting", "accepted", "executing", "notifying"} :
                 task[w][s].pc # "free" =>
                    /\ [task[w][s] EXCEPT !.pc = pc] \in Tasks
                    /\ [task[w][s] EXCEPT !.pc = pc].pc = pc
                    /\ [task[w][s] EXCEPT !.pc = pc].job = task[w][s].job
<1>1. task[w][s] \in Tasks
  BY DEF TypeOK
<1> QED
  BY <1>1 DEF Tasks, Free

\* The same of a task that is not free.
LEMMA MoveFacts ==
    ASSUME TypeOK, NEW w \in Workers, NEW s \in Slots, task[w][s].pc # "free"
    PROVE  \A pc \in {"waiting", "accepted", "executing", "notifying"} :
              /\ [task[w][s] EXCEPT !.pc = pc] \in Tasks
              /\ [task[w][s] EXCEPT !.pc = pc].pc = pc
              /\ [task[w][s] EXCEPT !.pc = pc].job = task[w][s].job
  BY TaskFacts, ZenonT(60)

\* SetTask changes one task of one worker.
LEMMA SetTaskFacts ==
    ASSUME TypeOK, NEW w \in Workers, NEW s \in Slots, NEW t \in Tasks, SetTask(w, s, t)
    PROVE  /\ task' \in [Workers -> [Slots -> Tasks]]
           /\ \A v \in Workers, q \in Slots :
                 task'[v][q] = IF v = w /\ q = s THEN t ELSE task[v][q]
  BY DEF SetTask, TypeOK

\* _fail_job keeps the types.
LEMMA FailType ==
    ASSUME TypeOK, NEW j \in Jobs, FailJob(j)
    PROVE  status' \in [Jobs -> Statuses] /\ refunds' \in [Jobs -> Nat]
  BY DEF FailJob, TypeOK, Statuses

\* Every step of the system keeps the types.
LEMMA NextType == TypeOK /\ [Next]_vars => TypeOK'
<1> SUFFICES ASSUME TypeOK, [Next]_vars PROVE TypeOK'
  OBVIOUS
<1> USE DEF TypeOK
<1>1. ASSUME NEW j \in Jobs, Submit(j) PROVE TypeOK'
  BY <1>1 DEF Submit, jobVars, workerVars, Statuses
<1>2. ASSUME NEW j \in Jobs, Enqueue(j) PROVE TypeOK'
  <2>1. queue' \in Seq(Jobs)
    BY <1>2, PushFacts DEF Enqueue
  <2> QED
    BY <1>2, <2>1 DEF Enqueue, jobVars, workerVars
<1>3. ASSUME NEW j \in Jobs, LoseRequest(j) PROVE TypeOK'
  BY <1>3 DEF LoseRequest, Fault, workerVars
<1>4. ASSUME NEW j \in Jobs, Age(j) PROVE TypeOK'
  BY <1>4 DEF Age, workerVars
<1>5. ASSUME NEW j \in Jobs, Expire(j) PROVE TypeOK'
  BY <1>5 DEF Expire, workerVars
<1>6. ASSUME NEW w \in Workers, Start(w) PROVE TypeOK'
  BY <1>6 DEF Start, jobVars
<1>7. ASSUME NEW w \in Workers, Ready(w) PROVE TypeOK'
  BY <1>7 DEF Ready, jobVars
<1>8. ASSUME NEW w \in Workers, LosePop(w) PROVE TypeOK'
  <2>1. queue' \in Seq(Jobs)
    BY <1>8, PopFacts DEF LosePop
  <2> QED
    BY <1>8, <2>1 DEF LosePop, Fault, jobVars, workerVars
<1>9. ASSUME NEW w \in Workers, Stop(w) PROVE TypeOK'
  BY <1>9 DEF Stop, jobVars
<1>10. ASSUME NEW w \in Workers, Stopped(w) PROVE TypeOK'
  BY <1>10 DEF Stopped, jobVars
<1>11. ASSUME NEW w \in Workers, Crash(w) PROVE TypeOK'
  BY <1>11 DEF Crash, Fault, jobVars, Tasks
<1>12. ASSUME NEW w \in Workers, Scan(w) PROVE TypeOK'
  BY <1>12 DEF Scan, StuckJobs, jobVars
<1>13. ASSUME NEW w \in Workers, JanitorError(w) PROVE TypeOK'
  BY <1>13 DEF JanitorError, Fault, jobVars
<1>14. ASSUME NEW w \in Workers, NEW j \in Jobs, Requeue(w, j) PROVE TypeOK'
  <2>1. queue' \in Seq(Jobs)
    BY <1>14, PushFacts DEF Requeue
  <2> QED
    BY <1>14, <2>1 DEF Requeue
<1>15. ASSUME NEW w \in Workers, NEW j \in Jobs, TimeOut(w, j) PROVE TypeOK'
  <2>1. status' \in [Jobs -> Statuses] /\ refunds' \in [Jobs -> Nat]
    BY <1>15, FailType DEF TimeOut
  <2> QED
    BY <1>15, <2>1 DEF TimeOut
<1>16. ASSUME NEW w \in Workers, NEW j \in Jobs, Tell(w, j) PROVE TypeOK'
  BY <1>16 DEF Tell, FireWebhook
<1>17. ASSUME NEW w \in Workers, NEW s \in Slots, Pop(w, s) PROVE TypeOK'
  <2>1. queue' \in Seq(Jobs) /\ queue[Len(queue)] \in Jobs
    BY <1>17, PopFacts DEF Pop
  <2>2. [pc |-> "waiting", job |-> queue[Len(queue)]] \in Tasks
    BY <2>1 DEF Tasks
  <2>3. task' \in [Workers -> [Slots -> Tasks]]
    BY <1>17, <2>2, SetTaskFacts DEF Pop
  <2> QED
    BY <1>17, <2>1, <2>3 DEF Pop, jobVars
<1>18. ASSUME NEW w \in Workers, NEW s \in Slots,
              \/ Accept(w, s) \/ Skip(w, s) \/ Reject(w, s) \/ Run(w, s)
              \/ RejectInput(w, s) \/ HandlerFails(w, s) \/ HandlerSucceeds(w, s)
              \/ Notify(w, s) \/ Die(w, s)
       PROVE TypeOK'
  <2>1. task[w][s].pc # "free"
    BY <1>18 DEF Accept, Skip, Reject, Run, RejectInput, HandlerFails, HandlerSucceeds,
                 Notify, Die, Inside
  <2>2. task[w][s].job \in Jobs
    BY <2>1, TaskFacts
  <2>3. Free \in Tasks
    BY DEF Tasks
  <2>4. task' \in [Workers -> [Slots -> Tasks]]
    <3>1. \E t \in Tasks : SetTask(w, s, t)
      BY <1>18, <2>1, <2>3, TaskFacts
         DEF Accept, Skip, Reject, Run, RejectInput, HandlerFails, HandlerSucceeds,
             Notify, Die
    <3> QED
      BY <3>1, SetTaskFacts
  <2>5. CASE Accept(w, s)
    BY <2>5, <2>4 DEF Accept, jobVars
  <2>6. CASE Skip(w, s)
    BY <2>6, <2>4 DEF Skip, jobVars
  <2>7. CASE Reject(w, s)
    BY <2>7, <2>2, <2>4, FailType DEF Reject
  <2>8. CASE Run(w, s)
    BY <2>8, <2>2, <2>4 DEF Run, Statuses
  <2>9. CASE RejectInput(w, s)
    BY <2>9, <2>2, <2>4, FailType DEF RejectInput
  <2>10. CASE HandlerFails(w, s)
    BY <2>10, <2>2, <2>4, FailType DEF HandlerFails
  <2>11. CASE HandlerSucceeds(w, s)
    BY <2>11, <2>2, <2>4 DEF HandlerSucceeds, Statuses
  <2>12. CASE Notify(w, s)
    BY <2>12, <2>2, <2>4 DEF Notify, FireWebhook
  <2>13. CASE Die(w, s)
    BY <2>13, <2>4 DEF Die, Fault, jobVars
  <2> QED
    BY <1>18, <2>5, <2>6, <2>7, <2>8, <2>9, <2>10, <2>11, <2>12, <2>13
<1>19. CASE UNCHANGED vars
  BY <1>19 DEF vars, jobVars, workerVars
<1> HIDE DEF TypeOK
<1> QED
  BY <1>1, <1>2, <1>3, <1>4, <1>5, <1>6, <1>7, <1>8, <1>9, <1>10, <1>11, <1>12, <1>13,
     <1>14, <1>15, <1>16, <1>17, <1>18, <1>19 DEF Next

\* In every reachable state the variables have their types.
THEOREM TypeCorrect == Spec => []TypeOK
  BY InitType, NextType, PTL DEF Spec

-----------------------------------------------------------------------------
(* The inductive invariant: what holds of a job with one delivery *)

\* A job's entries in a queue, at most one of them.
In(j, q) == \E i \in 1 .. Len(q) : q[i] = j
Single(j, q) == \A i, k \in 1 .. Len(q) : q[i] = j /\ q[k] = j => i = k

Holds(w, s, j) == task[w][s].pc # "free" /\ task[w][s].job = j
Unheld(j) == \A w \in Workers, s \in Slots : ~ Holds(w, s, j)

\* The job is with its request, or in the queue once, or with one task, or gone.
OneDelivery(j) ==
    /\ request[j] = "none" <=> status[j] = "none"
    /\ request[j] # "enqueued" =>
          ~ In(j, queue) /\ Unheld(j) /\ status[j] \in {"none", "pending"}
    /\ Single(j, queue)
    /\ In(j, queue) => Unheld(j) /\ status[j] = "pending"
    /\ \A v, w \in Workers, q, s \in Slots :
          Holds(v, q, j) /\ Holds(w, s, j) => v = w /\ q = s

\* What a task holds agrees with the row, unless a janitor has judged it.
TaskAgrees(j) ==
    \A w \in Workers, s \in Slots : Holds(w, s, j) =>
        /\ task[w][s].pc \in {"waiting", "accepted"} => status[j] = "pending"
        /\ task[w][s].pc = "executing" =>
              \/ status[j] = "running"
              \/ j \in overdue /\ status[j] = "failed"
        /\ task[w][s].pc = "notifying" => status[j] \in Terminal

\* Janitors judge only jobs that ran too long, and a sole janitor only jobs
\* that no handler is at work on and that it has not judged before.
JudgedLate(j) ==
    /\ j \in overdue => status[j] \in {"running", "succeeded", "failed"}
    /\ j \in overdue /\ HandlersInTime =>
          \A w \in Workers, s \in Slots : Holds(w, s, j) => task[w][s].pc # "executing"
    /\ \A w \in Workers : j \in stuck[w] =>
          j \in overdue /\ (SoleWorker /\ HandlersInTime => status[j] = "running")
    /\ \A w \in Workers : j \in telling[w] => status[j] \in Terminal

\* A job's refunds, and what has been told of it, if it is undisputed.
RefundFits(j) == Undisputed(j) => refunds[j] = IF status[j] = "failed" THEN 1 ELSE 0
ToldFits(j) == Undisputed(j) =>
    \A m \in sent : m[1] = j => m[2] = status[j] /\ m[2] \in Terminal

Sound(j) == OneDelivery(j) /\ TaskAgrees(j) /\ JudgedLate(j) /\ RefundFits(j) /\ ToldFits(j)
AllSound == \A j \in Jobs : j \notin requeued => Sound(j)

-----------------------------------------------------------------------------
(* Steps seen from one job *)

\* A push adds one entry, and only of the job that is pushed.
LEMMA PushIn ==
    ASSUME NEW q \in Seq(Jobs), NEW i \in Jobs, NEW j \in Jobs
    PROVE  /\ In(j, <<i>> \o q) => i = j \/ In(j, q)
           /\ i # j /\ Single(j, q) => Single(j, <<i>> \o q)
           /\ ~ In(j, q) => Single(j, <<i>> \o q)
<1> DEFINE p == <<i>> \o q
<1>1. /\ Len(q) \in Nat
      /\ Len(p) = Len(q) + 1
      /\ p[1] = i
      /\ \A k \in 2 .. Len(q) + 1 : p[k] = q[k - 1]
  BY PushFacts, LenProperties
<1> HIDE DEF p
<1>2. \A k \in 1 .. Len(p) : k = 1 \/ (k - 1 \in 1 .. Len(q) /\ p[k] = q[k - 1])
  BY <1>1
<1>3. In(j, p) => i = j \/ In(j, q)
  BY <1>1, <1>2 DEF In
<1>4. i # j /\ Single(j, q) => Single(j, p)
  <2> SUFFICES ASSUME i # j, Single(j, q),
                      NEW k \in 1 .. Len(p), NEW l \in 1 .. Len(p), p[k] = j, p[l] = j
               PROVE  k = l
    BY DEF Single
  <2>1. k # 1 /\ l # 1
    BY <1>1
  <2>2. /\ k - 1 \in 1 .. Len(q) /\ q[k - 1] = j
        /\ l - 1 \in 1 .. Len(q) /\ q[l - 1] = j
    BY <1>2, <2>1
  <2>3. k - 1 = l - 1
    BY <2>2 DEF Single
  <2> QED
    BY <1>1, <2>3
<1>5. ~ In(j, q) => Single(j, p)
  <2> SUFFICES ASSUME ~ In(j, q),
                      NEW k \in 1 .. Len(p), NEW l \in 1 .. Len(p), p[k] = j, p[l] = j
               PROVE  k = l
    BY DEF Single
  <2>1. k = 1 /\ l = 1
    BY <1>2 DEF In
  <2> QED
    BY <2>1
<1> QED
  BY <1>3, <1>4, <1>5 DEF p

\* A pop removes one entry, and the only one of a job that has one.
LEMMA PopIn ==
    ASSUME NEW q \in Seq(Jobs), q # <<>>, NEW j \in Jobs
    PROVE  /\ In(j, SubSeq(q, 1, Len(q) - 1)) => In(j, q)
           /\ Single(j, q) => Single(j, SubSeq(q, 1, Len(q) - 1))
           /\ Single(j, q) /\ q[Len(q)] = j => ~ In(j, SubSeq(q, 1, Len(q) - 1))
           /\ In(q[Len(q)], q)
<1> DEFINE p == SubSeq(q, 1, Len(q) - 1)
<1>1. /\ Len(q) \in Nat \ {0}
      /\ Len(p) = Len(q) - 1
      /\ \A k \in 1 .. Len(q) - 1 : p[k] = q[k]
  BY PopFacts
<1> HIDE DEF p
<1>2. \A k \in 1 .. Len(p) : k \in 1 .. Len(q) /\ k # Len(q) /\ p[k] = q[k]
  BY <1>1
<1>3. Len(q) \in 1 .. Len(q)
  BY <1>1
<1>4. In(j, p) => In(j, q)
  BY <1>2 DEF In
<1>5. Single(j, q) => Single(j, p)
  BY <1>2 DEF Single
<1>6. Single(j, q) /\ q[Len(q)] = j => ~ In(j, p)
  BY <1>2, <1>3 DEF Single, In
<1>7. In(q[Len(q)], q)
  BY <1>3 DEF In
<1> QED
  BY <1>4, <1>5, <1>6, <1>7 DEF p

\* A step that changes nothing of a job's row, and at most takes the job from
\* the queue, from tasks and from janitors, keeps what holds of it.
LEMMA Shrinks ==
    ASSUME NEW j \in Jobs, Sound(j), j \notin requeued, j \notin requeued',
           request'[j] = request[j], status'[j] = status[j], refunds'[j] = refunds[j],
           j \in overdue' <=> j \in overdue,
           In(j, queue') => In(j, queue),
           Single(j, queue) => Single(j, queue'),
           \A v \in Workers, q \in Slots : Holds(v, q, j)' => task'[v][q] = task[v][q],
           \A v \in Workers : /\ j \in stuck'[v] => j \in stuck[v]
                              /\ j \in telling'[v] => j \in telling[v],
           \A m \in sent' : m[1] = j => m \in sent
    PROVE  Sound(j)'
<1>1. \A v \in Workers, q \in Slots : Holds(v, q, j)' => Holds(v, q, j)
  BY DEF Holds
<1>2. OneDelivery(j)'
  BY <1>1 DEF Sound, OneDelivery, Unheld
<1>3. TaskAgrees(j)'
  BY <1>1 DEF Sound, TaskAgrees
<1>4. JudgedLate(j)'
  BY <1>1 DEF Sound, JudgedLate
<1>5. Undisputed(j)' => Undisputed(j)
  BY DEF Undisputed
<1>6. RefundFits(j)'
  BY <1>5 DEF Sound, RefundFits
<1>7. ToldFits(j)'
  BY <1>5 DEF Sound, ToldFits
<1> QED
  BY <1>2, <1>3, <1>4, <1>6, <1>7 DEF Sound

\* When the task that holds a job moves, the job is in no queue and with no
\* other task.
LEMMA HolderMoves ==
    ASSUME TypeOK, NEW j \in Jobs, Sound(j),
           NEW w \in Workers, NEW s \in Slots, Holds(w, s, j),
           NEW t \in Tasks, SetTask(w, s, t), t = Free \/ t.job = j
    PROVE  /\ request[j] = "enqueued"
           /\ status[j] # "none"
           /\ ~ In(j, queue)
           /\ Single(j, queue)
           /\ \A v \in Workers, q \in Slots :
                 Holds(v, q, j)' => v = w /\ q = s /\ task'[v][q] = t /\ t.pc # "free"
<1>1. \A v \in Workers, q \in Slots :
         task'[v][q] = IF v = w /\ q = s THEN t ELSE task[v][q]
  BY SetTaskFacts
<1>2. \A v \in Workers, q \in Slots : Holds(v, q, j) => v = w /\ q = s
  BY DEF Sound, OneDelivery
<1>3. ASSUME NEW v \in Workers, NEW q \in Slots, Holds(v, q, j)'
      PROVE v = w /\ q = s /\ task'[v][q] = t /\ t.pc # "free"
  <2>1. v = w /\ q = s
    BY <1>1, <1>2, <1>3 DEF Holds
  <2> QED
    BY <1>1, <1>3, <2>1 DEF Holds
<1> QED
  BY <1>3 DEF Sound, OneDelivery, Unheld

\* From "enqueued" on, a job that only a moving task holds has one delivery.
LEMMA StillOneDelivery ==
    ASSUME NEW j \in Jobs, NEW w \in Workers, NEW s \in Slots,
           request'[j] = "enqueued", status'[j] # "none",
           ~ In(j, queue'), Single(j, queue'),
           \A v \in Workers, q \in Slots : Holds(v, q, j)' => v = w /\ q = s
    PROVE  OneDelivery(j)'
  BY DEF OneDelivery

-----------------------------------------------------------------------------
(* Every step keeps what holds of a job *)

\* create_job, and the passing of time.
LEMMA RequestSteps ==
    ASSUME TypeOK, NEW j \in Jobs, Sound(j), j \notin requeued, NEW i \in Jobs,
           Submit(i) \/ Enqueue(i) \/ LoseRequest(i) \/ Age(i) \/ Expire(i)
    PROVE  Sound(j)'
<1> USE DEF TypeOK
<1>1. CASE Submit(i)
  <2>1. CASE i # j
    BY <1>1, <2>1, Shrinks DEF Submit, workerVars, Holds
  <2>2. CASE i = j
    <3>1. /\ status[j] = "none" /\ request'[j] = "committed" /\ status'[j] = "pending"
          /\ UNCHANGED <<refunds, overdue, requeued, sent, queue, task, stuck, telling>>
      BY <1>1, <2>2 DEF Submit, workerVars, Sound, OneDelivery
    <3>2. ~ In(j, queue) /\ Unheld(j) /\ j \notin overdue /\ refunds[j] = 0
      BY <1>1, <2>2, <3>1
         DEF Submit, Sound, OneDelivery, JudgedLate, RefundFits, Undisputed
    <3>3. OneDelivery(j)' /\ TaskAgrees(j)'
      BY <3>1, <3>2 DEF Sound, OneDelivery, TaskAgrees, Unheld, Holds
    <3>4. JudgedLate(j)'
      BY <3>1, <3>2 DEF Sound, JudgedLate, Terminal
    <3>5. RefundFits(j)'
      BY <3>1, <3>2 DEF RefundFits
    <3>6. ToldFits(j)'
      BY <3>1, <3>2 DEF Sound, ToldFits, Undisputed, Terminal
    <3> QED
      BY <3>3, <3>4, <3>5, <3>6 DEF Sound
  <2> QED
    BY <2>1, <2>2
<1>2. CASE Enqueue(i)
  <2>1. CASE i # j
    <3>1. (In(j, queue') => In(j, queue)) /\ (Single(j, queue) => Single(j, queue'))
      BY <1>2, <2>1, PushIn DEF Enqueue
    <3> QED
      BY <1>2, <2>1, <3>1, Shrinks DEF Enqueue, workerVars, Holds
  <2>2. CASE i = j
    <3>1. /\ request[j] = "committed" /\ request'[j] = "enqueued"
          /\ UNCHANGED <<status, refunds, overdue, requeued, sent, task, stuck, telling>>
      BY <1>2, <2>2 DEF Enqueue, workerVars
    <3>2. ~ In(j, queue) /\ Unheld(j) /\ status[j] = "pending"
      BY <3>1 DEF Sound, OneDelivery
    <3>3. Single(j, queue')
      BY <1>2, <2>2, <3>2, PushIn DEF Enqueue
    <3>4. OneDelivery(j)'
      BY <3>1, <3>2, <3>3 DEF OneDelivery, Unheld, Holds
    <3>5. TaskAgrees(j)' /\ JudgedLate(j)' /\ RefundFits(j)' /\ ToldFits(j)'
      BY <3>1 DEF Sound, TaskAgrees, JudgedLate, RefundFits, ToldFits, Undisputed, Holds
    <3> QED
      BY <3>4, <3>5 DEF Sound
  <2> QED
    BY <2>1, <2>2
<1>3. CASE LoseRequest(i)
  <2>1. CASE i # j
    BY <1>3, <2>1, Shrinks DEF LoseRequest, workerVars, Holds
  <2>2. CASE i = j
    <3>1. /\ request[j] = "committed" /\ request'[j] = "lost"
          /\ UNCHANGED <<status, refunds, overdue, requeued, sent, queue, task, stuck,
                         telling>>
      BY <1>3, <2>2 DEF LoseRequest, workerVars
    <3>2. OneDelivery(j)'
      BY <3>1 DEF Sound, OneDelivery, Unheld, Holds
    <3>3. TaskAgrees(j)' /\ JudgedLate(j)' /\ RefundFits(j)' /\ ToldFits(j)'
      BY <3>1 DEF Sound, TaskAgrees, JudgedLate, RefundFits, ToldFits, Undisputed, Holds
    <3> QED
      BY <3>2, <3>3 DEF Sound
  <2> QED
    BY <2>1, <2>2
<1>4. CASE Age(i)
  BY <1>4, Shrinks DEF Age, workerVars, Holds
<1>5. CASE Expire(i)
  <2>1. CASE i # j
    BY <1>5, <2>1, Shrinks DEF Expire, workerVars, Holds
  <2>2. CASE i = j
    <3>1. /\ status[j] = "running" /\ j \notin overdue /\ j \in overdue'
          /\ HandlersInTime => ~ Executing(j)
          /\ UNCHANGED <<request, status, refunds, requeued, sent, queue, task, stuck,
                         telling>>
      BY <1>5, <2>2 DEF Expire, workerVars
    <3>2. OneDelivery(j)'
      BY <3>1 DEF Sound, OneDelivery, Unheld, Holds
    <3>3. TaskAgrees(j)'
      BY <3>1 DEF Sound, TaskAgrees, Holds
    <3>4. JudgedLate(j)'
      BY <3>1 DEF Sound, JudgedLate, Executing, Holds
    <3>5. Undisputed(j)
      BY <3>1 DEF Undisputed
    <3>6. RefundFits(j)' /\ ToldFits(j)'
      BY <3>1, <3>5 DEF Sound, RefundFits, ToldFits
    <3> QED
      BY <3>2, <3>3, <3>4, <3>6 DEF Sound
  <2> QED
    BY <2>1, <2>2
<1> QED
  BY <1>1, <1>2, <1>3, <1>4, <1>5

\* A worker's own steps: start, recovery, pops, stop and crash.
LEMMA WorkerSteps ==
    ASSUME TypeOK, NEW j \in Jobs, Sound(j), j \notin requeued, j \notin requeued',
           NEW w \in Workers,
           \/ Start(w) \/ Ready(w) \/ LosePop(w) \/ Stop(w) \/ Stopped(w) \/ Crash(w)
           \/ \E i \in Jobs : Requeue(w, i)
           \/ \E s \in Slots : Pop(w, s)
    PROVE  Sound(j)'
<1> USE DEF TypeOK
<1>1. CASE Start(w)
  BY <1>1, Shrinks DEF Start, jobVars, Holds
<1>2. CASE Ready(w)
  BY <1>2, Shrinks DEF Ready, jobVars, Holds
<1>3. CASE LosePop(w)
  <2>1. (In(j, queue') => In(j, queue)) /\ (Single(j, queue) => Single(j, queue'))
    BY <1>3, PopIn DEF LosePop
  <2> QED
    BY <1>3, <2>1, Shrinks DEF LosePop, jobVars, workerVars, Holds
<1>4. CASE Stop(w)
  BY <1>4, Shrinks DEF Stop, jobVars, Holds
<1>5. CASE Stopped(w)
  BY <1>5, Shrinks DEF Stopped, jobVars, Holds
<1>6. CASE Crash(w)
  <2>1. ASSUME NEW v \in Workers, NEW q \in Slots, Holds(v, q, j)'
        PROVE task'[v][q] = task[v][q]
    <3>1. v # w
      BY <1>6, <2>1 DEF Crash, Holds, Free
    <3> QED
      BY <1>6, <3>1 DEF Crash
  <2> QED
    BY <1>6, <2>1, Shrinks DEF Crash, jobVars
<1>7. ASSUME NEW i \in Jobs, Requeue(w, i) PROVE Sound(j)'
  <2>1. i # j
    BY <1>7 DEF Requeue
  <2>2. (In(j, queue') => In(j, queue)) /\ (Single(j, queue) => Single(j, queue'))
    BY <1>7, <2>1, PushIn DEF Requeue
  <2> QED
    BY <1>7, <2>2, Shrinks DEF Requeue, Holds
<1>8. ASSUME NEW s \in Slots, Pop(w, s) PROVE Sound(j)'
  <2> DEFINE i == queue[Len(queue)]
             t == [pc |-> "waiting", job |-> i]
  <2>1. queue # <<>> /\ task[w][s] = Free
    BY <1>8 DEF Pop
  <2>2. /\ In(j, queue') => In(j, queue)
        /\ Single(j, queue) => Single(j, queue')
        /\ Single(j, queue) /\ i = j => ~ In(j, queue')
        /\ In(i, queue)
    BY <1>8, <2>1, PopIn DEF Pop
  <2>3. t \in Tasks /\ t.pc = "waiting" /\ t.job = i
    BY <2>1, PopFacts DEF Tasks
  <2>4. /\ \A v \in Workers, q \in Slots :
              task'[v][q] = IF v = w /\ q = s THEN t ELSE task[v][q]
        /\ UNCHANGED <<request, status, refunds, overdue, requeued, sent, stuck, telling>>
    <3> HIDE DEF t
    <3>1. SetTask(w, s, t)
      BY <1>8 DEF Pop, t
    <3> QED
      BY <1>8, <2>3, <3>1, SetTaskFacts DEF Pop, jobVars
  <2> HIDE DEF i, t
  <2>5. CASE i # j
    <3>1. ASSUME NEW v \in Workers, NEW q \in Slots, Holds(v, q, j)'
          PROVE task'[v][q] = task[v][q]
      BY <2>3, <2>4, <2>5, <3>1 DEF Holds
    <3> QED
      BY <2>2, <2>4, <3>1, Shrinks
  <2>6. CASE i = j
    <3>1. Unheld(j) /\ status[j] = "pending" /\ request[j] = "enqueued" /\ Single(j, queue)
      BY <2>2, <2>6 DEF Sound, OneDelivery
    <3>2. \A v \in Workers, q \in Slots :
             Holds(v, q, j)' => v = w /\ q = s /\ task'[v][q].pc = "waiting"
      BY <2>3, <2>4, <3>1 DEF Unheld, Holds
    <3>3. OneDelivery(j)'
      BY <2>2, <2>4, <2>6, <3>1, <3>2, StillOneDelivery, SMTT(30)
    <3>4. TaskAgrees(j)'
      BY <2>4, <3>1, <3>2 DEF TaskAgrees
    <3>5. JudgedLate(j)'
      BY <2>4, <3>2 DEF Sound, JudgedLate
    <3>6. RefundFits(j)' /\ ToldFits(j)'
      BY <2>4 DEF Sound, RefundFits, ToldFits, Undisputed
    <3> QED
      BY <3>3, <3>4, <3>5, <3>6 DEF Sound
  <2> QED
    BY <2>5, <2>6
<1> QED
  BY <1>1, <1>2, <1>3, <1>4, <1>5, <1>6, <1>7, <1>8

\* process_job, for the job it is about and for any other one.
LEMMA TaskSteps ==
    ASSUME TypeOK, NEW j \in Jobs, Sound(j), j \notin requeued, j \notin requeued',
           NEW w \in Workers, NEW s \in Slots,
           \/ Accept(w, s) \/ Skip(w, s) \/ Reject(w, s) \/ Run(w, s)
           \/ RejectInput(w, s) \/ HandlerFails(w, s) \/ HandlerSucceeds(w, s)
           \/ Notify(w, s) \/ Die(w, s)
    PROVE  Sound(j)'
<1> DEFINE i == task[w][s].job
           move(pc) == [task[w][s] EXCEPT !.pc = pc]
<1>1. task[w][s].pc # "free" /\ i \in Jobs /\ Free \in Tasks /\ Free.pc = "free"
  <2>1. task[w][s].pc # "free"
    BY DEF Accept, Skip, Reject, Run, RejectInput, HandlerFails, HandlerSucceeds, Notify,
           Die, Inside
  <2> QED
    BY <2>1, TaskFacts DEF Tasks, Free
<1>2. \A pc \in {"accepted", "executing", "notifying"} :
         move(pc) \in Tasks /\ move(pc).pc = pc /\ move(pc).job = i
  <2>1. \A pc \in {"waiting", "accepted", "executing", "notifying"} :
           /\ [task[w][s] EXCEPT !.pc = pc] \in Tasks
           /\ [task[w][s] EXCEPT !.pc = pc].pc = pc
           /\ [task[w][s] EXCEPT !.pc = pc].job = task[w][s].job
    BY <1>1, MoveFacts, Zenon
  <2> QED
    BY <2>1, Zenon
<1> USE DEF TypeOK
<1>3. \E t \in Tasks : SetTask(w, s, t) /\ (t = Free \/ t.job = i)
  BY <1>1, <1>2
     DEF Accept, Skip, Reject, Run, RejectInput, HandlerFails, HandlerSucceeds, Notify, Die
<1>4. CASE i # j
  <2>1. PICK t \in Tasks : SetTask(w, s, t) /\ (t = Free \/ t.job = i)
    BY <1>3
  <2>2. \A v \in Workers, q \in Slots :
           task'[v][q] = IF v = w /\ q = s THEN t ELSE task[v][q]
    BY <2>1, SetTaskFacts
  <2>3. \A v \in Workers, q \in Slots : Holds(v, q, j)' => task'[v][q] = task[v][q]
    BY <1>1, <1>4, <2>1, <2>2 DEF Holds
  <2>4. /\ request'[j] = request[j] /\ status'[j] = status[j] /\ refunds'[j] = refunds[j]
        /\ j \in overdue' <=> j \in overdue
        /\ UNCHANGED <<queue, stuck, telling>>
        /\ \A m \in sent' : m[1] = j => m \in sent
    BY <1>1, <1>4
       DEF Accept, Skip, Reject, Run, RejectInput, HandlerFails, HandlerSucceeds, Notify,
           Die, FailJob, FireWebhook, jobVars
  <2> QED
    BY <2>3, <2>4, Shrinks
<1>5. CASE i = j
  <2> HIDE DEF move
  <2>1. Holds(w, s, j)
    BY <1>1, <1>5 DEF Holds
  <2>2. /\ request[j] = "enqueued" /\ status[j] # "none"
        /\ ~ In(j, queue) /\ Single(j, queue)
    BY <1>3, <1>5, <2>1, HolderMoves
  <2>3. ASSUME SetTask(w, s, Free)
        PROVE  \A v \in Workers, q \in Slots : ~ Holds(v, q, j)'
    BY <1>1, <2>1, <2>3, HolderMoves
  <2>4. ASSUME NEW pc \in {"accepted", "executing", "notifying"}, SetTask(w, s, move(pc))
        PROVE  \A v \in Workers, q \in Slots :
                  Holds(v, q, j)' => v = w /\ q = s /\ task'[v][q].pc = pc
    BY <1>2, <1>5, <2>1, <2>4, HolderMoves
  <2>5. CASE Accept(w, s)
    <3>1. /\ SetTask(w, s, move("accepted")) /\ status[j] = "pending"
          /\ UNCHANGED <<request, status, refunds, overdue, requeued, sent, queue, stuck,
                         telling>>
      BY <1>5, <2>5 DEF Accept, jobVars, move
    <3>2. \A v \in Workers, q \in Slots :
             Holds(v, q, j)' => v = w /\ q = s /\ task'[v][q].pc = "accepted"
      BY <3>1, <2>4
    <3>3. queue' = queue /\ request' = request /\ status' = status
      BY <3>1
    <3>4. /\ request'[j] = "enqueued" /\ status'[j] # "none"
          /\ ~ In(j, queue') /\ Single(j, queue')
      BY <2>2, <3>3
    <3>5. OneDelivery(j)'
      BY <3>2, <3>4, StillOneDelivery
    <3>6. TaskAgrees(j)' /\ JudgedLate(j)'
      BY <3>1, <3>2 DEF Sound, TaskAgrees, JudgedLate
    <3>7. RefundFits(j)' /\ ToldFits(j)'
      BY <3>1 DEF Sound, RefundFits, ToldFits, Undisputed
    <3> QED
      BY <3>5, <3>6, <3>7 DEF Sound
  <2>6. CASE Skip(w, s) \/ Die(w, s)
    <3>1. /\ SetTask(w, s, Free)
          /\ UNCHANGED <<request, status, refunds, overdue, requeued, sent, queue, stuck,
                         telling>>
      BY <2>6 DEF Skip, Die, jobVars
    <3> QED
      BY <2>3, <3>1, Shrinks
  <2>7. CASE Reject(w, s)
    <3>1. /\ SetTask(w, s, Free) /\ FailJob(j) /\ task[w][s].pc = "accepted"
          /\ UNCHANGED <<request, overdue, requeued, sent, queue, stuck, telling>>
      BY <1>5, <2>7 DEF Reject
    <3>2. status[j] = "pending" /\ j \notin overdue
      BY <2>1, <3>1 DEF Sound, TaskAgrees, JudgedLate
    <3>3. status'[j] = "failed" /\ refunds'[j] = refunds[j] + 1
      BY <3>1 DEF FailJob
    <3>4. OneDelivery(j)'
      BY <2>2, <2>3, <3>1, <3>3, StillOneDelivery
    <3>5. TaskAgrees(j)' /\ JudgedLate(j)'
      BY <2>3, <3>1, <3>2, <3>3 DEF Sound, TaskAgrees, JudgedLate, Terminal
    <3>6. RefundFits(j)' /\ ToldFits(j)'
      BY <3>1, <3>2, <3>3 DEF Sound, RefundFits, ToldFits, Undisputed, Terminal
    <3> QED
      BY <3>4, <3>5, <3>6 DEF Sound
  <2>8. CASE Run(w, s)
    <3>1. /\ SetTask(w, s, move("executing")) /\ task[w][s].pc = "accepted"
          /\ status'[j] = "running" /\ overdue' = overdue \ {j}
          /\ UNCHANGED <<request, refunds, requeued, sent, queue, stuck, telling>>
      BY <1>5, <2>8 DEF Run, move
    <3>2. status[j] = "pending" /\ j \notin overdue
      BY <2>1, <3>1 DEF Sound, TaskAgrees, JudgedLate
    <3>3. \A v \in Workers, q \in Slots :
             Holds(v, q, j)' => v = w /\ q = s /\ task'[v][q].pc = "executing"
      BY <3>1, <2>4
    <3>4. OneDelivery(j)'
      BY <2>2, <3>1, <3>3, StillOneDelivery, SMTT(30)
    <3>5. TaskAgrees(j)' /\ JudgedLate(j)'
      BY <3>1, <3>2, <3>3 DEF Sound, TaskAgrees, JudgedLate, Terminal
    <3>6. RefundFits(j)' /\ ToldFits(j)'
      BY <3>1, <3>2 DEF Sound, RefundFits, ToldFits, Undisputed, Terminal
    <3> QED
      BY <3>4, <3>5, <3>6 DEF Sound
  <2>9. CASE RejectInput(w, s) \/ HandlerFails(w, s)
    <3>1. /\ FailJob(j) /\ task[w][s].pc = "executing"
          /\ UNCHANGED <<request, overdue, requeued, sent, queue, stuck, telling>>
      BY <1>5, <2>9 DEF RejectInput, HandlerFails
    <3>2. \A v \in Workers, q \in Slots :
             Holds(v, q, j)' => v = w /\ q = s /\ task'[v][q].pc = "notifying"
      BY <2>3, <2>4, <2>9 DEF RejectInput, HandlerFails, move
    <3>3. status'[j] = "failed" /\ refunds'[j] = refunds[j] + 1
      BY <3>1 DEF FailJob
    <3>4. OneDelivery(j)'
      BY <2>2, <3>1, <3>2, <3>3, StillOneDelivery, SMTT(30)
    <3>5. TaskAgrees(j)'
      BY <3>2, <3>3 DEF TaskAgrees, Terminal
    <3>6. Undisputed(j) => status[j] = "running" /\ j \notin overdue
      BY <2>1, <3>1 DEF Sound, TaskAgrees, JudgedLate, Undisputed
    <3>7. ~ (SoleWorker /\ HandlersInTime /\ j \in overdue)
      BY <2>1, <3>1 DEF Sound, JudgedLate
    <3>8. JudgedLate(j)'
      BY <3>1, <3>2, <3>3, <3>7 DEF Sound, JudgedLate, Terminal
    <3>9. RefundFits(j)' /\ ToldFits(j)'
      BY <3>1, <3>3, <3>6 DEF Sound, RefundFits, ToldFits, Undisputed, Terminal
    <3> QED
      BY <3>4, <3>5, <3>8, <3>9 DEF Sound
  <2>10. CASE HandlerSucceeds(w, s)
    <3>1. /\ task[w][s].pc = "executing" /\ SetTask(w, s, move("notifying"))
          /\ status'[j] = "succeeded"
          /\ UNCHANGED <<request, refunds, overdue, requeued, sent, queue, stuck, telling>>
      BY <1>5, <2>10 DEF HandlerSucceeds, move
    <3>2. \A v \in Workers, q \in Slots :
             Holds(v, q, j)' => v = w /\ q = s /\ task'[v][q].pc = "notifying"
      BY <3>1, <2>4
    <3>3. OneDelivery(j)'
      BY <2>2, <3>1, <3>2, StillOneDelivery, SMTT(30)
    <3>4. TaskAgrees(j)'
      BY <3>1, <3>2 DEF TaskAgrees, Terminal
    <3>5. Undisputed(j) => status[j] = "running" /\ j \notin overdue
      BY <2>1, <3>1 DEF Sound, TaskAgrees, JudgedLate, Undisputed
    <3>6. ~ (SoleWorker /\ HandlersInTime /\ j \in overdue)
      BY <2>1, <3>1 DEF Sound, JudgedLate
    <3>7. JudgedLate(j)'
      BY <3>1, <3>2, <3>6 DEF Sound, JudgedLate, Terminal
    <3>8. RefundFits(j)' /\ ToldFits(j)'
      BY <3>1, <3>5 DEF Sound, RefundFits, ToldFits, Undisputed, Terminal
    <3> QED
      BY <3>3, <3>4, <3>7, <3>8 DEF Sound
  <2>11. CASE Notify(w, s)
    <3>1. /\ SetTask(w, s, Free) /\ task[w][s].pc = "notifying"
          /\ sent' = sent \cup {<<j, status[j]>>}
          /\ UNCHANGED <<request, status, refunds, overdue, requeued, queue, stuck, telling>>
      BY <1>5, <2>11 DEF Notify, FireWebhook
    <3>2. status[j] \in Terminal
      BY <2>1, <3>1 DEF Sound, TaskAgrees
    <3>3. OneDelivery(j)'
      BY <2>2, <2>3, <3>1, StillOneDelivery
    <3>4. TaskAgrees(j)' /\ JudgedLate(j)'
      BY <2>3, <3>1 DEF Sound, TaskAgrees, JudgedLate
    <3>5. RefundFits(j)' /\ ToldFits(j)'
      BY <3>1, <3>2 DEF Sound, RefundFits, ToldFits, Undisputed
    <3> QED
      BY <3>3, <3>4, <3>5 DEF Sound
  <2> QED
    BY <2>5, <2>6, <2>7, <2>8, <2>9, <2>10, <2>11
<1> QED
  BY <1>4, <1>5

\* The janitor, for the job it judges and for any other one.
LEMMA JanitorSteps ==
    ASSUME TypeOK, NEW j \in Jobs, Sound(j), j \notin requeued, j \notin requeued',
           NEW w \in Workers,
           \/ Scan(w) \/ JanitorError(w)
           \/ \E i \in Jobs : TimeOut(w, i) \/ Tell(w, i)
    PROVE  Sound(j)'
<1> USE DEF TypeOK
<1>1. CASE Scan(w)
  <2>1. /\ \A v \in Workers : j \in stuck'[v] =>
              j \in stuck[v] \/ (j \in overdue /\ status[j] = "running")
        /\ UNCHANGED <<request, status, refunds, overdue, requeued, sent, queue, task,
                       telling>>
    BY <1>1 DEF Scan, StuckJobs, jobVars
  <2>2. OneDelivery(j)' /\ TaskAgrees(j)'
    BY <2>1 DEF Sound, OneDelivery, TaskAgrees, Unheld, Holds
  <2>3. JudgedLate(j)'
    BY <2>1 DEF Sound, JudgedLate, Holds
  <2>4. RefundFits(j)' /\ ToldFits(j)'
    BY <2>1 DEF Sound, RefundFits, ToldFits, Undisputed
  <2> QED
    BY <2>2, <2>3, <2>4 DEF Sound
<1>2. CASE JanitorError(w)
  BY <1>2, Shrinks DEF JanitorError, jobVars, Holds
<1>3. ASSUME NEW i \in Jobs, TimeOut(w, i) PROVE Sound(j)'
  <2>1. CASE i # j
    BY <1>3, <2>1, Shrinks DEF TimeOut, FailJob, Holds
  <2>2. CASE i = j
    <3>1. /\ j \in stuck[w] /\ j \in overdue
          /\ status'[j] = "failed" /\ refunds'[j] = refunds[j] + 1
          /\ \A v \in Workers : j \in stuck'[v] => v # w /\ j \in stuck[v]
          /\ UNCHANGED <<request, overdue, requeued, sent, queue, task>>
      BY <1>3, <2>2 DEF TimeOut, FailJob, Sound, JudgedLate
    <3>2. status[j] \in {"running", "succeeded", "failed"}
      BY <3>1 DEF Sound, JudgedLate
    <3>3. OneDelivery(j)'
      BY <3>1, <3>2 DEF Sound, OneDelivery, Unheld, Holds
    <3>4. TaskAgrees(j)'
      BY <3>1, <3>2 DEF Sound, TaskAgrees, Terminal, Holds
    <3>5. JudgedLate(j)'
      BY <3>1 DEF Sound, JudgedLate, SoleWorker, Terminal, Holds
    <3>6. Undisputed(j) => status[j] = "running"
      BY <3>1 DEF Sound, JudgedLate, Undisputed
    <3>7. RefundFits(j)' /\ ToldFits(j)'
      BY <3>1, <3>6 DEF Sound, RefundFits, ToldFits, Undisputed, Terminal
    <3> QED
      BY <3>3, <3>4, <3>5, <3>7 DEF Sound
  <2> QED
    BY <2>1, <2>2
<1>4. ASSUME NEW i \in Jobs, Tell(w, i) PROVE Sound(j)'
  <2>1. CASE i # j
    BY <1>4, <2>1, Shrinks DEF Tell, FireWebhook, Holds
  <2>2. CASE i = j
    <3>1. /\ status[j] \in Terminal
          /\ sent' = sent \cup {<<j, status[j]>>}
          /\ \A v \in Workers : j \in telling'[v] => j \in telling[v]
          /\ UNCHANGED <<request, status, refunds, overdue, requeued, queue, task, stuck>>
      BY <1>4, <2>2 DEF Tell, FireWebhook, Sound, JudgedLate
    <3>2. OneDelivery(j)' /\ TaskAgrees(j)'
      BY <3>1 DEF Sound, OneDelivery, TaskAgrees, Unheld, Holds
    <3>3. JudgedLate(j)'
      BY <3>1 DEF Sound, JudgedLate, Holds
    <3>4. RefundFits(j)' /\ ToldFits(j)'
      BY <3>1 DEF Sound, RefundFits, ToldFits, Undisputed
    <3> QED
      BY <3>2, <3>3, <3>4 DEF Sound
  <2> QED
    BY <2>1, <2>2
<1> QED
  BY <1>1, <1>2, <1>3, <1>4

-----------------------------------------------------------------------------
(* The invariant, and what follows from it *)

\* No job exists, and nothing holds one.
LEMMA InitSound == Init => AllSound
<1> SUFFICES ASSUME Init, NEW j \in Jobs PROVE Sound(j)
  BY DEF AllSound
<1>1. \A w \in Workers, s \in Slots : ~ Holds(w, s, j)
  BY DEF Init, Holds, Free
<1>2. OneDelivery(j)
  BY <1>1 DEF Init, OneDelivery, Unheld, In, Single
<1>3. TaskAgrees(j) /\ JudgedLate(j)
  BY <1>1 DEF Init, TaskAgrees, JudgedLate
<1>4. RefundFits(j) /\ ToldFits(j)
  BY DEF Init, RefundFits, ToldFits
<1> QED
  BY <1>2, <1>3, <1>4 DEF Sound

\* Start-up recovery never takes back that it has pushed a job.
LEMMA RequeuedGrows == [Next]_vars => requeued \subseteq requeued'
<1>1. ASSUME NEW i \in Jobs,
             Submit(i) \/ Enqueue(i) \/ LoseRequest(i) \/ Age(i) \/ Expire(i)
      PROVE  requeued' = requeued
  BY <1>1 DEF Submit, Enqueue, LoseRequest, Age, Expire
<1>2. ASSUME NEW w \in Workers,
             \/ Start(w) \/ Ready(w) \/ LosePop(w) \/ Stop(w) \/ Stopped(w) \/ Crash(w)
             \/ Scan(w) \/ JanitorError(w)
      PROVE  requeued' = requeued
  BY <1>2 DEF Start, Ready, LosePop, Stop, Stopped, Crash, Scan, JanitorError, jobVars
<1>3. ASSUME NEW w \in Workers, NEW i \in Jobs, Requeue(w, i) \/ TimeOut(w, i) \/ Tell(w, i)
      PROVE  requeued \subseteq requeued'
  BY <1>3 DEF Requeue, TimeOut, Tell
<1>4. ASSUME NEW w \in Workers, NEW s \in Slots,
             \/ Pop(w, s) \/ Accept(w, s) \/ Skip(w, s) \/ Reject(w, s) \/ Run(w, s)
             \/ RejectInput(w, s) \/ HandlerFails(w, s) \/ HandlerSucceeds(w, s)
             \/ Notify(w, s) \/ Die(w, s)
      PROVE  requeued' = requeued
  BY <1>4 DEF Pop, Accept, Skip, Reject, Run, RejectInput, HandlerFails, HandlerSucceeds,
              Notify, Die, jobVars
<1>5. CASE UNCHANGED vars
  BY <1>5 DEF vars, jobVars
<1> QED
  BY <1>1, <1>2, <1>3, <1>4, <1>5 DEF Next

\* Every step keeps what holds of the jobs that recovery has not pushed.
LEMMA NextSound == TypeOK /\ AllSound /\ [Next]_vars => AllSound'
<1> SUFFICES ASSUME TypeOK, AllSound, [Next]_vars, NEW j \in Jobs, j \notin requeued'
             PROVE  Sound(j)'
  BY DEF AllSound
<1>1. j \notin requeued /\ Sound(j)
  BY RequeuedGrows DEF AllSound
<1>2. CASE \E i \in Jobs : Submit(i) \/ Enqueue(i) \/ LoseRequest(i) \/ Age(i) \/ Expire(i)
  BY <1>1, <1>2, RequestSteps
<1>3. ASSUME NEW w \in Workers,
             \/ Start(w) \/ Ready(w) \/ LosePop(w) \/ Stop(w) \/ Stopped(w) \/ Crash(w)
             \/ \E i \in Jobs : Requeue(w, i)
             \/ \E s \in Slots : Pop(w, s)
      PROVE  Sound(j)'
  BY <1>1, <1>3, WorkerSteps
<1>4. ASSUME NEW w \in Workers,
             \/ Scan(w) \/ JanitorError(w)
             \/ \E i \in Jobs : TimeOut(w, i) \/ Tell(w, i)
      PROVE  Sound(j)'
  BY <1>1, <1>4, JanitorSteps
<1>5. ASSUME NEW w \in Workers, NEW s \in Slots,
             \/ Accept(w, s) \/ Skip(w, s) \/ Reject(w, s) \/ Run(w, s)
             \/ RejectInput(w, s) \/ HandlerFails(w, s) \/ HandlerSucceeds(w, s)
             \/ Notify(w, s) \/ Die(w, s)
      PROVE  Sound(j)'
  BY <1>1, <1>5, TaskSteps
<1>6. CASE UNCHANGED vars
  BY <1>1, <1>6, Shrinks DEF vars, jobVars, workerVars, Holds
<1> QED
  BY <1>2, <1>3, <1>4, <1>5, <1>6 DEF Next

\* Every job that recovery has not pushed has one delivery, tasks that agree
\* with its row, late judges, and a refund and a word that fit its outcome.
THEOREM SoundAlways == Spec => [](TypeOK /\ AllSound)
<1>1. Init => TypeOK /\ AllSound
  BY InitType, InitSound
<1>2. TypeOK /\ AllSound /\ [Next]_vars => TypeOK' /\ AllSound'
  BY NextType, NextSound
<1> QED
  BY <1>1, <1>2, PTL DEF Spec

\* _fail_job commits once for an undisputed job that fails, and for no other
\* one: whatever tasks, janitors, crashes and restarts come between.
THEOREM RefundsOnce == Spec => []RefundedOnce
<1>1. AllSound => RefundedOnce
  BY DEF AllSound, Sound, RefundFits, RefundedOnce, Undisputed
<1> QED
  BY <1>1, SoundAlways, PTL

\* The partner of an undisputed job is told its final status and no other.
THEOREM OutcomeTold == Spec => []ToldTheOutcome
<1>1. TypeOK /\ AllSound => ToldTheOutcome
  <2> SUFFICES ASSUME TypeOK, AllSound, NEW m \in sent, Undisputed(m[1])
               PROVE  m[2] = status[m[1]] /\ m[2] \in Terminal
    BY DEF ToldTheOutcome
  <2>1. m[1] \in Jobs /\ m[1] \notin requeued
    BY DEF TypeOK, Undisputed
  <2> QED
    BY <2>1 DEF AllSound, Sound, ToldFits
<1> QED
  BY <1>1, SoundAlways, PTL

-----------------------------------------------------------------------------
(* Nothing is lost without a fault *)

\* A task that will still run the job, or finds out that it need not.
Waits(w, s, j) == task[w][s].pc \in {"waiting", "accepted"} /\ task[w][s].job = j

Somewhere(j) ==
    \/ request[j] = "committed"
    \/ In(j, queue)
    \/ \E w \in Workers, s \in Slots : Waits(w, s, j)

Kept == faults = 0 => \A j \in Jobs : status[j] = "pending" => Somewhere(j)

\* Kept is PendingIsSomewhere, said with the operators of these proofs.
LEMMA KeptSuffices == TypeOK /\ Kept => PendingIsSomewhere
<1> SUFFICES ASSUME TypeOK, Kept, faults = 0, NEW j \in Jobs, status[j] = "pending"
             PROVE  \/ request[j] = "committed"
                    \/ \E i \in DOMAIN queue : queue[i] = j
                    \/ \E p \in Held(j) : task[p[1]][p[2]].pc \in {"waiting", "accepted"}
  BY DEF PendingIsSomewhere
<1>1. Somewhere(j)
  BY DEF Kept
<1>2. ASSUME In(j, queue) PROVE \E i \in DOMAIN queue : queue[i] = j
  BY <1>2, LenProperties DEF In, TypeOK
<1>3. ASSUME NEW w \in Workers, NEW s \in Slots, Waits(w, s, j)
      PROVE  \E p \in Held(j) : task[p[1]][p[2]].pc \in {"waiting", "accepted"}
  <2>1. <<w, s>> \in Held(j)
    BY <1>3 DEF Waits, Held, Free
  <2> QED
    BY <1>3, <2>1 DEF Waits
<1> QED
  BY <1>1, <1>2, <1>3 DEF Somewhere

\* LPUSH and BRPOP: what is in the queue stays, and what is popped was last.
LEMMA QueueKeeps ==
    ASSUME NEW q \in Seq(Jobs), NEW j \in Jobs
    PROVE  /\ \A i \in Jobs : In(j, q) \/ i = j => In(j, <<i>> \o q)
           /\ q # <<>> /\ In(j, q) => q[Len(q)] = j \/ In(j, SubSeq(q, 1, Len(q) - 1))
<1>1. ASSUME NEW i \in Jobs, In(j, q) \/ i = j PROVE In(j, <<i>> \o q)
  <2> DEFINE p == <<i>> \o q
  <2>1. /\ Len(q) \in Nat
        /\ Len(p) = Len(q) + 1
        /\ p[1] = i
        /\ \A k \in 2 .. Len(q) + 1 : p[k] = q[k - 1]
    BY PushFacts, LenProperties
  <2> HIDE DEF p
  <2>2. CASE i = j
    BY <2>1, <2>2 DEF In, p
  <2>3. CASE In(j, q)
    <3>1. PICK k \in 1 .. Len(q) : q[k] = j
      BY <2>3 DEF In
    <3>2. k + 1 \in 1 .. Len(p) /\ p[k + 1] = j
      BY <2>1, <3>1
    <3> QED
      BY <3>2 DEF In, p
  <2> QED
    BY <1>1, <2>2, <2>3
<1>2. ASSUME q # <<>>, In(j, q), q[Len(q)] # j
      PROVE  In(j, SubSeq(q, 1, Len(q) - 1))
  <2> DEFINE p == SubSeq(q, 1, Len(q) - 1)
  <2>1. /\ Len(q) \in Nat \ {0}
        /\ Len(p) = Len(q) - 1
        /\ \A k \in 1 .. Len(q) - 1 : p[k] = q[k]
    BY <1>2, PopFacts
  <2> HIDE DEF p
  <2>2. PICK k \in 1 .. Len(q) : q[k] = j
    BY <1>2 DEF In
  <2>3. k \in 1 .. Len(p) /\ p[k] = j
    BY <1>2, <2>1, <2>2
  <2> QED
    BY <2>3 DEF In, p
<1> QED
  BY <1>1, <1>2

\* A step that leaves the request, the queue and the waiting tasks of a job
\* where they are, or adds to them.
LEMMA StaysSomewhere ==
    ASSUME NEW j \in Jobs, Somewhere(j),
           request'[j] = request[j],
           In(j, queue) => In(j, queue'),
           \A w \in Workers, s \in Slots : Waits(w, s, j) => task'[w][s] = task[w][s]
    PROVE  Somewhere(j)'
  BY DEF Somewhere, Waits

\* No step without a fault loses a job that stays pending.
LEMMA NextKept == TypeOK /\ TypeOK' /\ Kept /\ [Next]_vars => Kept'
<1> SUFFICES ASSUME TypeOK, TypeOK', Kept, [Next]_vars, faults' = 0,
                    NEW j \in Jobs, status'[j] = "pending"
             PROVE  Somewhere(j)'
  BY DEF Kept
<1>0. ASSUME NEW w \in Workers, NEW s \in Slots, task[w][s].pc # "free"
      PROVE  /\ [task[w][s] EXCEPT !.pc = "accepted"] \in Tasks
             /\ [task[w][s] EXCEPT !.pc = "accepted"].pc = "accepted"
             /\ [task[w][s] EXCEPT !.pc = "accepted"].job = task[w][s].job
  BY <1>0, MoveFacts, Zenon
<1> USE DEF TypeOK
<1>1. CASE \E i \in Jobs : Submit(i) \/ Enqueue(i) \/ LoseRequest(i) \/ Age(i) \/ Expire(i)
  <2>1. PICK i \in Jobs :
           Submit(i) \/ Enqueue(i) \/ LoseRequest(i) \/ Age(i) \/ Expire(i)
    BY <1>1
  <2>2. faults' = faults /\ ~ LoseRequest(i) /\ UNCHANGED task
    BY <2>1 DEF Submit, Enqueue, LoseRequest, Age, Expire, Fault, workerVars
  <2>3. CASE Submit(i)
    <3>1. CASE i = j
      BY <2>3, <3>1 DEF Submit, Somewhere
    <3>2. CASE i # j
      <4>1. status[j] = "pending" /\ request'[j] = request[j] /\ queue' = queue
        BY <2>3, <3>2 DEF Submit
      <4> QED
        BY <2>2, <4>1, StaysSomewhere DEF Kept
    <3> QED
      BY <3>1, <3>2
  <2>4. CASE Enqueue(i)
    <3>1. CASE i = j
      <4>1. In(j, queue')
        BY <2>4, <3>1, QueueKeeps DEF Enqueue
      <4> QED
        BY <4>1 DEF Somewhere
    <3>2. CASE i # j
      <4>1. status[j] = "pending" /\ request'[j] = request[j]
        BY <2>4, <3>2 DEF Enqueue
      <4>2. In(j, queue) => In(j, queue')
        BY <2>4, QueueKeeps DEF Enqueue
      <4> QED
        BY <2>2, <4>1, <4>2, StaysSomewhere DEF Kept
    <3> QED
      BY <3>1, <3>2
  <2>5. CASE Age(i) \/ Expire(i)
    BY <2>2, <2>5, StaysSomewhere DEF Kept, Age, Expire
  <2> QED
    BY <2>1, <2>2, <2>3, <2>4, <2>5
<1>2. ASSUME NEW w \in Workers,
             \/ Start(w) \/ Ready(w) \/ LosePop(w) \/ Stop(w) \/ Stopped(w) \/ Crash(w)
             \/ Scan(w) \/ JanitorError(w)
      PROVE  Somewhere(j)'
  <2>1. faults' = faults /\ ~ LosePop(w) /\ ~ Crash(w) /\ ~ JanitorError(w)
    BY <1>2 DEF Start, Ready, LosePop, Stop, Stopped, Crash, Scan, JanitorError, Fault
  <2>2. UNCHANGED <<request, status, queue, task>>
    BY <1>2, <2>1 DEF Start, Ready, Stop, Stopped, Scan, jobVars
  <2> QED
    BY <2>1, <2>2, StaysSomewhere DEF Kept
<1>3. ASSUME NEW w \in Workers, NEW i \in Jobs, Requeue(w, i) \/ TimeOut(w, i) \/ Tell(w, i)
      PROVE  Somewhere(j)'
  <2>1. faults' = faults /\ UNCHANGED <<request, task>> /\ status[j] = "pending"
    BY <1>3 DEF Requeue, TimeOut, Tell, FailJob
  <2>2. In(j, queue) => In(j, queue')
    <3>1. CASE Requeue(w, i)
      BY <3>1, QueueKeeps DEF Requeue
    <3>2. CASE TimeOut(w, i) \/ Tell(w, i)
      BY <3>2 DEF TimeOut, Tell
    <3> QED
      BY <1>3, <3>1, <3>2
  <2> QED
    BY <2>1, <2>2, StaysSomewhere DEF Kept
<1>4. ASSUME NEW w \in Workers, NEW s \in Slots, Pop(w, s) PROVE Somewhere(j)'
  <2> DEFINE t == [pc |-> "waiting", job |-> queue[Len(queue)]]
  <2>1. /\ faults' = faults /\ UNCHANGED <<request, status>>
        /\ queue # <<>> /\ task[w][s] = Free /\ SetTask(w, s, t)
        /\ queue' = SubSeq(queue, 1, Len(queue) - 1)
    BY <1>4 DEF Pop, jobVars
  <2>2. t \in Tasks /\ t.pc = "waiting" /\ t.job = queue[Len(queue)]
    BY <2>1, PopFacts DEF Tasks
  <2>3. In(j, queue) => queue[Len(queue)] = j \/ In(j, queue')
    BY <2>1, QueueKeeps
  <2> HIDE DEF t
  <2>4. \A v \in Workers, q \in Slots :
           task'[v][q] = IF v = w /\ q = s THEN t ELSE task[v][q]
    BY <2>1, <2>2, SetTaskFacts, SMTT(30)
  <2>5. CASE queue[Len(queue)] = j
    BY <2>2, <2>4, <2>5 DEF Somewhere, Waits
  <2>6. CASE queue[Len(queue)] # j
    <3>1. \A v \in Workers, q \in Slots : Waits(v, q, j) => task'[v][q] = task[v][q]
      BY <2>1, <2>4 DEF Waits, Free
    <3> QED
      BY <2>1, <2>3, <2>6, <3>1, StaysSomewhere DEF Kept
  <2> QED
    BY <2>5, <2>6
<1>5. ASSUME NEW w \in Workers, NEW s \in Slots,
             \/ Accept(w, s) \/ Skip(w, s) \/ Reject(w, s) \/ Run(w, s)
             \/ RejectInput(w, s) \/ HandlerFails(w, s) \/ HandlerSucceeds(w, s)
             \/ Notify(w, s) \/ Die(w, s)
      PROVE  Somewhere(j)'
  <2> DEFINE t == [task[w][s] EXCEPT !.pc = "accepted"]
  <2>1. faults' = faults /\ ~ Die(w, s) /\ UNCHANGED <<request, queue>>
    BY <1>5 DEF Accept, Skip, Reject, Run, RejectInput, HandlerFails, HandlerSucceeds,
                Notify, Die, Fault, jobVars
  <2>2. \A v \in Workers, q \in Slots : ~ (v = w /\ q = s) => task'[v][q] = task[v][q]
    BY <1>5 DEF Accept, Skip, Reject, Run, RejectInput, HandlerFails, HandlerSucceeds,
                Notify, Die, SetTask
  <2>3. task[w][s].pc # "free" => task[w][s].job \in Jobs
    BY TaskFacts
  <2>4. status[j] = "pending"
    BY <1>5, <2>1, <2>3 DEF Accept, Skip, Reject, Run, RejectInput, HandlerFails,
       HandlerSucceeds, Notify, FailJob, jobVars
  <2>5. CASE Accept(w, s) /\ Waits(w, s, j)
    <3>1. task[w][s].pc # "free"
      BY <2>5 DEF Accept
    <3>2. t \in Tasks /\ t.pc = "accepted" /\ t.job = task[w][s].job
      BY <3>1, <1>0, Zenon
    <3>3. SetTask(w, s, t)
      BY <2>5 DEF Accept
    <3> HIDE DEF t
    <3>4. task'[w][s] = t
      BY <3>2, <3>3, SetTaskFacts
    <3> QED
      BY <2>5, <3>2, <3>4 DEF Somewhere, Waits
  <2>6. CASE ~ (Accept(w, s) /\ Waits(w, s, j))
    <3>1. ~ Waits(w, s, j)
      BY <1>5, <2>1, <2>4, <2>6
         DEF Waits, Skip, Reject, Run, RejectInput, HandlerFails, HandlerSucceeds, Notify,
             FailJob
    <3>2. \A v \in Workers, q \in Slots : Waits(v, q, j) => task'[v][q] = task[v][q]
      BY <2>2, <3>1
    <3> QED
      BY <2>1, <2>4, <3>2, StaysSomewhere DEF Kept
  <2> QED
    BY <2>5, <2>6
<1>6. CASE UNCHANGED vars
  BY <1>6, StaysSomewhere DEF Kept, vars, jobVars, workerVars
<1> QED
  BY <1>1, <1>2, <1>3, <1>4, <1>5, <1>6 DEF Next

\* Without a fault, a pending job is with its request, in the queue or with a
\* task that will see to it, whatever starts and graceful stops there are.
THEOREM NothingIsLost == Spec => []PendingIsSomewhere
<1>1. Init => Kept
  BY DEF Init, Kept
<1>2. TypeOK /\ Kept /\ [Next]_vars => Kept'
  BY NextType, NextKept
<1> QED
  BY <1>1, <1>2, TypeCorrect, KeptSuffices, PTL DEF Spec

-----------------------------------------------------------------------------
(* An undisputed job walks forward *)

\* One step moves an undisputed job's status along the walk or not at all.
LEMMA StepWalks ==
    ASSUME TypeOK, AllSound, [Next]_vars, NEW j \in Jobs,
           Undisputed(j), Undisputed(j)', status'[j] # status[j]
    PROVE  <<status[j], status'[j]>> \in Walk
<1> USE DEF TypeOK
<1>1. Sound(j)
  BY DEF AllSound, Undisputed
<1>2. CASE \E i \in Jobs : Submit(i) \/ Enqueue(i) \/ LoseRequest(i) \/ Age(i) \/ Expire(i)
  <2>1. Submit(j)
    BY <1>2 DEF Submit, Enqueue, LoseRequest, Age, Expire
  <2> QED
    BY <1>1, <2>1 DEF Submit, Sound, OneDelivery, Walk
<1>3. CASE \E w \in Workers :
              \/ Start(w) \/ Ready(w) \/ LosePop(w) \/ Stop(w) \/ Stopped(w) \/ Crash(w)
              \/ Scan(w) \/ JanitorError(w)
              \/ \E i \in Jobs : Requeue(w, i) \/ Tell(w, i)
              \/ \E s \in Slots : Pop(w, s)
  BY <1>3 DEF Start, Ready, LosePop, Stop, Stopped, Crash, Scan, JanitorError, Requeue,
              Tell, Pop, jobVars
<1>4. ASSUME NEW w \in Workers, NEW i \in Jobs, TimeOut(w, i)
      PROVE  <<status[j], status'[j]>> \in Walk
  <2>1. i = j /\ j \in stuck[w] /\ status'[j] = "failed"
    BY <1>4 DEF TimeOut, FailJob
  <2>2. status[j] = "running"
    BY <1>1, <2>1 DEF Sound, JudgedLate, Undisputed
  <2> QED
    BY <2>1, <2>2 DEF Walk
<1>5. ASSUME NEW w \in Workers, NEW s \in Slots,
             \/ Accept(w, s) \/ Skip(w, s) \/ Reject(w, s) \/ Run(w, s)
             \/ RejectInput(w, s) \/ HandlerFails(w, s) \/ HandlerSucceeds(w, s)
             \/ Notify(w, s) \/ Die(w, s)
      PROVE  <<status[j], status'[j]>> \in Walk
  <2>1. task[w][s].pc # "free" => task[w][s].job \in Jobs
    BY TaskFacts
  <2>2. CASE Reject(w, s) \/ Run(w, s)
    <3>1. Holds(w, s, j) /\ task[w][s].pc = "accepted"
          /\ status'[j] \in {"running", "failed"}
      BY <2>1, <2>2 DEF Reject, Run, FailJob, Holds
    <3>2. status[j] = "pending"
      BY <1>1, <3>1 DEF Sound, TaskAgrees
    <3> QED
      BY <3>1, <3>2 DEF Walk
  <2>3. CASE RejectInput(w, s) \/ HandlerFails(w, s) \/ HandlerSucceeds(w, s)
    <3>1. Holds(w, s, j) /\ task[w][s].pc = "executing"
          /\ status'[j] \in {"succeeded", "failed"}
      BY <2>1, <2>3 DEF RejectInput, HandlerFails, HandlerSucceeds, FailJob, Holds
    <3>2. status[j] = "running"
      BY <1>1, <3>1 DEF Sound, TaskAgrees, JudgedLate, Undisputed
    <3> QED
      BY <3>1, <3>2 DEF Walk
  <2>4. CASE Accept(w, s) \/ Skip(w, s) \/ Notify(w, s) \/ Die(w, s)
    BY <2>4 DEF Accept, Skip, Notify, Die, jobVars
  <2> QED
    BY <1>5, <2>2, <2>3, <2>4
<1>6. CASE UNCHANGED vars
  BY <1>6 DEF vars, jobVars
<1> QED
  BY <1>2, <1>3, <1>4, <1>5, <1>6 DEF Next

\* An undisputed job is never run again and keeps its outcome, whatever tasks,
\* janitors, crashes and restarts come between.
THEOREM WalksForward == Spec => OneWalk
<1>1. TypeOK /\ AllSound /\ [Next]_vars =>
         [\A j \in Jobs : Undisputed(j) /\ Undisputed(j)' /\ status'[j] # status[j] =>
             <<status[j], status'[j]>> \in Walk]_vars
  BY StepWalks
<1> QED
  BY <1>1, SoundAlways, PTL DEF Spec, OneWalk

-----------------------------------------------------------------------------
(* The promised states *)

\* A job that was submitted has a row.
HasRow(j) == request[j] # "none" /\ status[j] # "none"

\* A job that start-up recovery has read or pushed was submitted.
RowsExist ==
    /\ \A j \in requeued : HasRow(j)
    /\ \A w \in Workers : \A j \in todo[w] : HasRow(j)

\* Rows of jobs are not deleted.
LEMMA RowsStay ==
    ASSUME TypeOK, [Next]_vars, NEW j \in Jobs, HasRow(j)
    PROVE  HasRow(j)'
<1> USE DEF TypeOK, HasRow
<1>1. ASSUME NEW i \in Jobs,
             Submit(i) \/ Enqueue(i) \/ LoseRequest(i) \/ Age(i) \/ Expire(i)
      PROVE  HasRow(j)'
  BY <1>1 DEF Submit, Enqueue, LoseRequest, Age, Expire
<1>2. ASSUME NEW w \in Workers,
             \/ Start(w) \/ Ready(w) \/ LosePop(w) \/ Stop(w) \/ Stopped(w) \/ Crash(w)
             \/ Scan(w) \/ JanitorError(w)
      PROVE  HasRow(j)'
  BY <1>2 DEF Start, Ready, LosePop, Stop, Stopped, Crash, Scan, JanitorError, jobVars
<1>3. ASSUME NEW w \in Workers, NEW i \in Jobs, Requeue(w, i) \/ TimeOut(w, i) \/ Tell(w, i)
      PROVE  HasRow(j)'
  BY <1>3 DEF Requeue, TimeOut, Tell, FailJob
<1>4. ASSUME NEW w \in Workers, NEW s \in Slots,
             \/ Pop(w, s) \/ Accept(w, s) \/ Skip(w, s) \/ Notify(w, s) \/ Die(w, s)
      PROVE  HasRow(j)'
  BY <1>4 DEF Pop, Accept, Skip, Notify, Die, jobVars
<1>5. ASSUME NEW w \in Workers, NEW s \in Slots,
             \/ Reject(w, s) \/ Run(w, s) \/ RejectInput(w, s)
             \/ HandlerFails(w, s) \/ HandlerSucceeds(w, s)
      PROVE  HasRow(j)'
  BY <1>5 DEF Reject, Run, RejectInput, HandlerFails, HandlerSucceeds, FailJob
<1>6. CASE UNCHANGED vars
  BY <1>6 DEF vars, jobVars
<1> QED
  BY <1>1, <1>2, <1>3, <1>4, <1>5, <1>6 DEF Next

\* What start-up passes hold and have pushed grows by rows they read, or push.
LEMMA RecoveryReads ==
    ASSUME TypeOK, [Next]_vars
    PROVE  /\ \A w \in Workers : \A j \in todo'[w] : j \in todo[w] \/ status[j] = "pending"
           /\ \A j \in requeued' : j \in requeued \/ \E w \in Workers : j \in todo[w]
<1> USE DEF TypeOK
<1>1. ASSUME NEW i \in Jobs,
             Submit(i) \/ Enqueue(i) \/ LoseRequest(i) \/ Age(i) \/ Expire(i)
      PROVE  UNCHANGED <<todo, requeued>>
  BY <1>1 DEF Submit, Enqueue, LoseRequest, Age, Expire, workerVars
<1>2. ASSUME NEW w \in Workers, Start(w)
      PROVE  /\ todo' = [todo EXCEPT ![w] = {j \in aged : status[j] = "pending"}]
             /\ requeued' = requeued
  BY <1>2 DEF Start, jobVars
<1>3. ASSUME NEW w \in Workers, Crash(w)
      PROVE  todo' = [todo EXCEPT ![w] = {}] /\ requeued' = requeued
  BY <1>3 DEF Crash, jobVars
<1>4. ASSUME NEW w \in Workers,
             \/ Ready(w) \/ LosePop(w) \/ Stop(w) \/ Stopped(w) \/ Scan(w) \/ JanitorError(w)
      PROVE  UNCHANGED <<todo, requeued>>
  BY <1>4 DEF Ready, LosePop, Stop, Stopped, Scan, JanitorError, jobVars, workerVars
<1>5. ASSUME NEW w \in Workers, NEW i \in Jobs, Requeue(w, i)
      PROVE  /\ todo' = [todo EXCEPT ![w] = @ \ {i}] /\ i \in todo[w]
             /\ requeued' = requeued \cup {i}
  BY <1>5 DEF Requeue
<1>6. ASSUME NEW w \in Workers, NEW i \in Jobs, TimeOut(w, i) \/ Tell(w, i)
      PROVE  UNCHANGED <<todo, requeued>>
  BY <1>6 DEF TimeOut, Tell
<1>7. ASSUME NEW w \in Workers, NEW s \in Slots,
             \/ Pop(w, s) \/ Accept(w, s) \/ Skip(w, s) \/ Reject(w, s) \/ Run(w, s)
             \/ RejectInput(w, s) \/ HandlerFails(w, s) \/ HandlerSucceeds(w, s)
             \/ Notify(w, s) \/ Die(w, s)
      PROVE  UNCHANGED <<todo, requeued>>
  BY <1>7 DEF Pop, Accept, Skip, Reject, Run, RejectInput, HandlerFails, HandlerSucceeds,
              Notify, Die, jobVars
<1>8. CASE UNCHANGED vars
  BY <1>8 DEF vars, jobVars, workerVars
<1>9. CASE UNCHANGED <<todo, requeued>>
  BY <1>9
<1>10. CASE \E w \in Workers : Start(w) \/ Crash(w) \/ \E i \in Jobs : Requeue(w, i)
  BY <1>2, <1>3, <1>5, <1>10
<1> QED
  BY <1>1, <1>4, <1>6, <1>7, <1>8, <1>9, <1>10 DEF Next

\* What recovery has read or pushed has a row, and keeps it.
LEMMA RowsExistAlways ==
    /\ Init => RowsExist
    /\ TypeOK /\ AllSound /\ RowsExist /\ [Next]_vars => RowsExist'
<1>1. Init => RowsExist
  BY DEF Init, RowsExist
<1>2. ASSUME TypeOK, AllSound, RowsExist, [Next]_vars PROVE RowsExist'
  <2>1. TypeOK'
    BY <1>2, NextType
  <2>2. ASSUME NEW j \in requeued' PROVE HasRow(j)'
    <3>1. j \in Jobs /\ HasRow(j)
      BY <1>2, <2>1, <2>2, RecoveryReads DEF RowsExist, TypeOK
    <3> QED
      BY <1>2, <3>1, RowsStay
  <2>3. ASSUME NEW w \in Workers, NEW j \in todo'[w] PROVE HasRow(j)'
    <3>1. j \in Jobs /\ (j \in todo[w] \/ status[j] = "pending")
      BY <1>2, <2>1, <2>3, RecoveryReads DEF TypeOK
    <3>2. HasRow(j)
      BY <1>2, <3>1 DEF RowsExist, HasRow, AllSound, Sound, OneDelivery
    <3> QED
      BY <1>2, <3>1, <3>2, RowsStay
  <2> QED
    BY <2>2, <2>3 DEF RowsExist
<1> QED
  BY <1>1, <1>2

\* A disputed job has a row.
LEMMA DisputedExist ==
    ASSUME TypeOK, AllSound, RowsExist, NEW j \in Disputed
    PROVE  j \in Jobs /\ status[j] \in {"pending", "running"} \cup States!Outcomes
<1>1. j \in Jobs
  BY DEF Disputed
<1>2. status[j] # "none"
  <2>1. CASE j \in requeued
    BY <2>1 DEF RowsExist, HasRow
  <2>2. CASE j \notin requeued
    BY <1>1, <2>2 DEF Disputed, Undisputed, AllSound, Sound, JudgedLate
  <2> QED
    BY <2>1, <2>2
<1> QED
  BY <1>1, <1>2 DEF TypeOK, Statuses, States!Outcomes

\* What a writer of an undisputed job has in hand agrees with the row.
LEMMA WritersAgree ==
    ASSUME TypeOK, AllSound, NEW j \in Jobs, j \notin Disputed, NEW w \in Workers
    PROVE  /\ j \in stuck[w] => status[j] = "running"
           /\ j \in telling[w] => status[j] \in Terminal
           /\ \A s \in Slots : task[w][s].pc # "free" /\ task[w][s].job = j =>
                /\ task[w][s].pc = "accepted" => status[j] = "pending"
                /\ task[w][s].pc = "executing" => status[j] = "running"
                /\ task[w][s].pc = "notifying" => status[j] \in Terminal
<1>1. Undisputed(j) /\ j \notin requeued /\ Sound(j)
  BY DEF Disputed, Undisputed, AllSound
<1>2. /\ j \in stuck[w] => status[j] = "running"
      /\ j \in telling[w] => status[j] \in Terminal
  BY <1>1 DEF Sound, JudgedLate, Undisputed
<1>3. ASSUME NEW s \in Slots, task[w][s].pc # "free", task[w][s].job = j
      PROVE  /\ task[w][s].pc = "accepted" => status[j] = "pending"
             /\ task[w][s].pc = "executing" => status[j] = "running"
             /\ task[w][s].pc = "notifying" => status[j] \in Terminal
  BY <1>1, <1>3 DEF Sound, TaskAgrees, JudgedLate, Undisputed, Holds
<1> QED
  BY <1>2, <1>3

\* One writer's step is a promised step: of the walk if the job is undisputed,
\* and one more rewriting if it is not.
LEMMA WritePromised ==
    ASSUME TypeOK, AllSound, RowsExist, NEW j \in Jobs,
           NEW to \in {"running", "succeeded", "failed"},
           j \notin Disputed => status[j] \in (IF to = "running" THEN {"pending"}
                                               ELSE IF to = "succeeded" THEN {"running"}
                                               ELSE {"pending", "running"}),
           status' = [status EXCEPT ![j] = to],
           refunds' = IF to = "failed" THEN [refunds EXCEPT ![j] = @ + 1] ELSE refunds,
           sent' = sent, Disputed' = Disputed
    PROVE  States!Next
<1>1. CASE j \in Disputed
  <2>1. States!Rewrite(j, to)
    BY <1>1, DisputedExist DEF States!Rewrite, States!Move, States!Outcomes
  <2> QED
    BY <2>1 DEF States!Next, States!Outcomes
<1>2. CASE j \notin Disputed
  <2>1. CASE to = "running"
    BY <1>2, <2>1 DEF States!Next, States!Start, States!Move
  <2>2. CASE to = "succeeded"
    BY <1>2, <2>2 DEF States!Next, States!Succeed, States!Move
  <2>3. CASE to = "failed"
    BY <1>2, <2>3 DEF States!Next, States!Fail, States!Move
  <2> QED
    BY <2>1, <2>2, <2>3
<1> QED
  BY <1>1, <1>2

\* One more row of webhook_deliveries.
LEMMA TellPromised ==
    ASSUME NEW j \in Jobs, j \in Disputed \/ status[j] \in Terminal,
           FireWebhook(j), UNCHANGED <<status, refunds>>, Disputed' = Disputed
    PROVE  States!Next
BY DEF FireWebhook, States!Next, States!Tell, States!Outcomes, Terminal

\* The steps by which a job may become disputed.
LEMMA DisputePromised ==
    ASSUME TypeOK, RowsExist, NEW j \in Jobs, Expire(j) \/ \E w \in Workers : Requeue(w, j)
    PROVE  [States!Next]_(States!vars)
<1>1. UNCHANGED <<status, refunds, sent>> /\ status[j] # "none"
  BY DEF Expire, Requeue, RowsExist, HasRow
<1>2. Disputed' = Disputed \/ Disputed' = Disputed \cup {j}
  <2>1. \A i \in Jobs \ {j} : Undisputed(i)' <=> Undisputed(i)
    BY DEF Expire, Requeue, Undisputed
  <2>2. Undisputed(j)' => Undisputed(j)
    BY DEF Expire, Requeue, Undisputed
  <2> QED
    BY <2>1, <2>2 DEF Disputed
<1>3. CASE Disputed' = Disputed
  BY <1>1, <1>3 DEF States!vars
<1>4. CASE Disputed' = Disputed \cup {j}
  BY <1>1, <1>4 DEF States!Next, States!Dispute
<1> QED
  BY <1>2, <1>3, <1>4

\* A step of the system, seen as a step of the promised states.
LEMMA StepPromised ==
    ASSUME TypeOK, AllSound, RowsExist, [Next]_vars
    PROVE  [States!Next]_(States!vars)
<1> USE DEF TypeOK
<1>1. ASSUME NEW j \in Jobs, Submit(j) PROVE States!Next
  <2>1. status[j] = "none"
    BY <1>1 DEF Submit, AllSound, Sound, OneDelivery, RowsExist, HasRow
  <2>2. Disputed' = Disputed
    BY <1>1 DEF Submit, Disputed, Undisputed
  <2> QED
    BY <1>1, <2>1, <2>2 DEF Submit, States!Next, States!Submit, States!Move
<1>2. ASSUME \/ \E j \in Jobs : Enqueue(j) \/ LoseRequest(j) \/ Age(j)
             \/ \E w \in Workers :
                  \/ Start(w) \/ Ready(w) \/ LosePop(w) \/ Stop(w) \/ Stopped(w) \/ Crash(w)
                  \/ Scan(w) \/ JanitorError(w)
                  \/ \E s \in Slots : Pop(w, s) \/ Accept(w, s) \/ Skip(w, s) \/ Die(w, s)
             \/ UNCHANGED vars
      PROVE  UNCHANGED States!vars
  <2>1. UNCHANGED <<status, refunds, sent, requeued, overdue>>
    BY <1>2 DEF Enqueue, LoseRequest, Age, Start, Ready, LosePop, Stop, Stopped, Crash,
       Scan, JanitorError, Pop, Accept, Skip, Die, jobVars, vars
  <2> QED
    BY <2>1 DEF States!vars, Disputed, Undisputed
<1>3. ASSUME NEW w \in Workers, NEW j \in Jobs, TimeOut(w, j) PROVE States!Next
  <2>1. /\ status' = [status EXCEPT ![j] = "failed"]
        /\ refunds' = [refunds EXCEPT ![j] = @ + 1]
        /\ j \in stuck[w] /\ UNCHANGED <<sent, requeued, overdue>>
    BY <1>3 DEF TimeOut, FailJob
  <2>2. Disputed' = Disputed
    BY <2>1 DEF Disputed, Undisputed
  <2>3. j \notin Disputed => status[j] = "running"
    BY <2>1, WritersAgree
  <2> QED
    BY <2>1, <2>2, <2>3, WritePromised
<1>4. ASSUME NEW w \in Workers, NEW j \in Jobs, Tell(w, j) PROVE States!Next
  <2>1. /\ j \in telling[w] /\ FireWebhook(j)
        /\ UNCHANGED <<status, refunds, requeued, overdue>>
    BY <1>4 DEF Tell
  <2>2. Disputed' = Disputed
    BY <2>1 DEF Disputed, Undisputed
  <2>3. j \in Disputed \/ status[j] \in Terminal
    BY <2>1, WritersAgree
  <2> QED
    BY <2>1, <2>2, <2>3, TellPromised
<1>5. ASSUME NEW w \in Workers, NEW s \in Slots,
             \/ Reject(w, s) \/ Run(w, s) \/ RejectInput(w, s) \/ HandlerFails(w, s)
             \/ HandlerSucceeds(w, s) \/ Notify(w, s)
      PROVE  States!Next
  <2> DEFINE i == task[w][s].job
  <2>1. i \in Jobs /\ task[w][s].pc # "free"
    BY <1>5, TaskFacts
       DEF Reject, Run, RejectInput, HandlerFails, HandlerSucceeds, Notify
  <2>2. CASE Reject(w, s) \/ RejectInput(w, s) \/ HandlerFails(w, s)
    <3>1. /\ status' = [status EXCEPT ![i] = "failed"]
          /\ refunds' = [refunds EXCEPT ![i] = @ + 1]
          /\ task[w][s].pc \in {"accepted", "executing"}
          /\ UNCHANGED <<sent, requeued, overdue>>
      BY <2>2 DEF Reject, RejectInput, HandlerFails, FailJob
    <3>2. Disputed' = Disputed
      BY <3>1 DEF Disputed, Undisputed
    <3>3. i \notin Disputed => status[i] \in {"pending", "running"}
      BY <2>1, <3>1, WritersAgree
    <3> HIDE DEF i
    <3> QED
      BY <2>1, <3>1, <3>2, <3>3, WritePromised
  <2>3. CASE Run(w, s)
    <3>1. /\ status' = [status EXCEPT ![i] = "running"]
          /\ task[w][s].pc = "accepted" /\ overdue' = overdue \ {i}
          /\ UNCHANGED <<refunds, sent, requeued>>
      BY <2>3 DEF Run
    <3>2. i \notin Disputed => status[i] = "pending"
      BY <2>1, <3>1, WritersAgree
    <3>3. i \in requeued \/ i \notin overdue
      <4>1. ASSUME i \notin requeued PROVE i \notin overdue
        <5>1. Sound(i) /\ Holds(w, s, i)
          BY <2>1, <4>1 DEF AllSound, Holds
        <5>2. status[i] = "pending"
          BY <3>1, <5>1 DEF Sound, TaskAgrees
        <5> QED
          BY <5>1, <5>2 DEF Sound, JudgedLate
      <4> QED
        BY <4>1
    <3> HIDE DEF i
    <3>4. Disputed' = Disputed
      BY <3>1, <3>3 DEF Disputed, Undisputed
    <3> QED
      BY <2>1, <3>1, <3>2, <3>4, WritePromised
  <2>4. CASE HandlerSucceeds(w, s)
    <3>1. /\ status' = [status EXCEPT ![i] = "succeeded"]
          /\ task[w][s].pc = "executing"
          /\ UNCHANGED <<refunds, sent, requeued, overdue>>
      BY <2>4 DEF HandlerSucceeds
    <3>2. Disputed' = Disputed
      BY <3>1 DEF Disputed, Undisputed
    <3>3. i \notin Disputed => status[i] = "running"
      BY <2>1, <3>1, WritersAgree
    <3> HIDE DEF i
    <3> QED
      BY <2>1, <3>1, <3>2, <3>3, WritePromised
  <2>5. CASE Notify(w, s)
    <3>1. /\ task[w][s].pc = "notifying" /\ FireWebhook(i)
          /\ UNCHANGED <<status, refunds, requeued, overdue>>
      BY <2>5 DEF Notify
    <3>2. Disputed' = Disputed
      BY <3>1 DEF Disputed, Undisputed
    <3>3. i \in Disputed \/ status[i] \in Terminal
      BY <2>1, <3>1, WritersAgree
    <3> HIDE DEF i
    <3> QED
      BY <2>1, <3>1, <3>2, <3>3, TellPromised
  <2> QED
    BY <1>5, <2>2, <2>3, <2>4, <2>5
<1>6. CASE \E j \in Jobs : Submit(j) \/ Enqueue(j) \/ LoseRequest(j) \/ Age(j) \/ Expire(j)
  BY <1>1, <1>2, <1>6, DisputePromised
<1>7. CASE \E w \in Workers :
              \/ Start(w) \/ Ready(w) \/ LosePop(w) \/ Stop(w) \/ Stopped(w) \/ Crash(w)
              \/ Scan(w) \/ JanitorError(w)
  BY <1>2, <1>7
<1>8. CASE \E w \in Workers, j \in Jobs : Requeue(w, j) \/ TimeOut(w, j) \/ Tell(w, j)
  BY <1>3, <1>4, <1>8, DisputePromised
<1>9. CASE \E w \in Workers, s \in Slots :
              \/ Pop(w, s) \/ Accept(w, s) \/ Skip(w, s) \/ Reject(w, s) \/ Run(w, s)
              \/ RejectInput(w, s) \/ HandlerFails(w, s) \/ HandlerSucceeds(w, s)
              \/ Notify(w, s) \/ Die(w, s)
  BY <1>2, <1>5, <1>9
<1>10. CASE UNCHANGED vars
  BY <1>2, <1>10
<1> QED
  BY <1>6, <1>7, <1>8, <1>9, <1>10 DEF Next

\* Every job goes through the promised states while it has one delivery and its
\* deadline has not passed, and keeps to what is left of the promise afterwards:
\* for any number of workers and tasks, any concurrency, handlers that end early
\* or late, and whatever crashes, lost replies, restarts and exceptions there are.
THEOREM StatesAreKept == Spec => FollowsTheStates
<1>1. Spec => []RowsExist
  <2>1. Init => RowsExist
    BY RowsExistAlways
  <2>2. TypeOK /\ AllSound /\ RowsExist /\ [Next]_vars => RowsExist'
    BY RowsExistAlways
  <2> QED
    BY <2>1, <2>2, SoundAlways, PTL DEF Spec
<1>2. Init => States!Init
  BY DEF Init, States!Init, Disputed, Undisputed
<1>3. TypeOK /\ AllSound /\ RowsExist /\ [Next]_vars => [States!Next]_(States!vars)
  BY StepPromised
<1> QED
  BY <1>1, <1>2, <1>3, SoundAlways, PTL DEF Spec, FollowsTheStates, States!Spec

-----------------------------------------------------------------------------
(* Jobs and their credits *)

\* What users' operations write of jobs.
AccountsOK ==
    /\ created \subseteq Jobs
    /\ charged \in [Jobs -> [Accounts!Kinds -> Nat]]
    /\ refunded \in [Jobs -> [Accounts!Kinds -> Nat]]

\* A job's row and its credits agree: its price was taken when it was created,
\* and what _fail_job has done once has given back all of it.
PriceFits(j) ==
    /\ j \in created <=> status[j] # "none"
    /\ charged[j]["free"] + charged[j]["paid"] = IF j \in created THEN Cost[j] ELSE 0
    /\ refunds[j] = 0 => refunded[j] = Accounts!Zero
    /\ refunds[j] = 1 => refunded[j] = charged[j]

AllPaid == AccountsOK /\ \A j \in Jobs : j \notin requeued => PriceFits(j)

\* A step moves one job at most, never back to where it had no row, and counts
\* one refund at most: of a job that has a row, unless recovery has pushed it.
LEMMA OneJobMoves ==
    ASSUME TypeOK, AllSound, [Next]_vars
    PROVE  \/ UNCHANGED <<status, refunds>>
           \/ \E i \in Jobs, x \in Statuses \ {"none"} :
                /\ status' = [status EXCEPT ![i] = x]
                /\ \/ refunds' = refunds
                   \/ /\ refunds' = [refunds EXCEPT ![i] = @ + 1]
                      /\ i \notin requeued => status[i] # "none"
<1> DEFINE Goal == \/ UNCHANGED <<status, refunds>>
                   \/ \E i \in Jobs, x \in Statuses \ {"none"} :
                        /\ status' = [status EXCEPT ![i] = x]
                        /\ \/ refunds' = refunds
                           \/ /\ refunds' = [refunds EXCEPT ![i] = @ + 1]
                              /\ i \notin requeued => status[i] # "none"
<1>1. CASE \E i \in Jobs : Submit(i) \/ Enqueue(i) \/ LoseRequest(i) \/ Age(i) \/ Expire(i)
  BY <1>1 DEF Submit, Enqueue, LoseRequest, Age, Expire, Statuses
<1>2. CASE \E w \in Workers :
              \/ Start(w) \/ Ready(w) \/ LosePop(w) \/ Stop(w) \/ Stopped(w) \/ Crash(w)
              \/ Scan(w) \/ JanitorError(w)
              \/ \E i \in Jobs : Requeue(w, i) \/ Tell(w, i)
              \/ \E s \in Slots : Pop(w, s)
  BY <1>2 DEF Start, Ready, LosePop, Stop, Stopped, Crash, Scan, JanitorError, Requeue,
              Tell, Pop, jobVars
<1>3. ASSUME NEW w \in Workers, NEW i \in Jobs, TimeOut(w, i) PROVE Goal
  <2>1. i \notin requeued => status[i] # "none"
    BY <1>3 DEF TimeOut, AllSound, Sound, JudgedLate
  <2> QED
    BY <1>3, <2>1 DEF TimeOut, FailJob, Statuses
<1>4. ASSUME NEW w \in Workers, NEW s \in Slots,
             \/ Accept(w, s) \/ Skip(w, s) \/ Reject(w, s) \/ Run(w, s)
             \/ RejectInput(w, s) \/ HandlerFails(w, s) \/ HandlerSucceeds(w, s)
             \/ Notify(w, s) \/ Die(w, s)
      PROVE  Goal
  <2>1. task[w][s].pc # "free" => task[w][s].job \in Jobs
    BY TaskFacts
  <2>2. CASE Reject(w, s) \/ RejectInput(w, s) \/ HandlerFails(w, s)
    <3>1. task[w][s].pc \in {"accepted", "executing"} /\ FailJob(task[w][s].job)
      BY <2>2 DEF Reject, RejectInput, HandlerFails
    <3>2. task[w][s].job \notin requeued => status[task[w][s].job] # "none"
      BY <2>1, <3>1 DEF AllSound, Sound, TaskAgrees, Holds
    <3> QED
      BY <2>1, <3>1, <3>2 DEF FailJob, Statuses
  <2>3. CASE Run(w, s) \/ HandlerSucceeds(w, s)
    BY <2>1, <2>3 DEF Run, HandlerSucceeds, Statuses
  <2>4. CASE Accept(w, s) \/ Skip(w, s) \/ Notify(w, s) \/ Die(w, s)
    BY <2>4 DEF Accept, Skip, Notify, Die, jobVars
  <2> QED
    BY <1>4, <2>2, <2>3, <2>4
<1>5. CASE UNCHANGED vars
  BY <1>5 DEF vars, jobVars
<1> QED
  BY <1>1, <1>2, <1>3, <1>4, <1>5 DEF Next

\* Reserving takes the whole price, in one kind or two.
LEMMA ChargeFacts ==
    ASSUME AccountsOK, NEW i \in Jobs, Accounts!Charge(i)
    PROVE  /\ AccountsOK'
           /\ i \notin created /\ created' = created \cup {i}
           /\ charged'[i]["free"] + charged'[i]["paid"] = Cost[i]
           /\ \A j \in Jobs \ {i} : charged'[j] = charged[j]
           /\ refunded' = refunded
<1>1. PICK d \in Accounts!Parts(Cost[i]) : charged' = [charged EXCEPT ![i] = d]
  BY DEF Accounts!Charge
<1>2. d \in [Accounts!Kinds -> Nat] /\ d["free"] + d["paid"] = Cost[i]
  BY <1>1, CostAssumption DEF Accounts!Parts
<1>3. /\ i \notin created /\ created' = created \cup {i}
      /\ refunded' = refunded
  BY DEF Accounts!Charge
<1> QED
  BY <1>1, <1>2, <1>3 DEF AccountsOK

\* A refund gives back what was charged.
LEMMA RefundFacts ==
    ASSUME AccountsOK, NEW i \in Jobs, Accounts!Refund(i)
    PROVE  /\ AccountsOK'
           /\ i \in created
           /\ refunded[i] = Accounts!Zero => refunded'[i] = charged[i]
           /\ \A j \in Jobs \ {i} : refunded'[j] = refunded[j]
           /\ UNCHANGED <<created, charged>>
<1>1. /\ i \in created
      /\ UNCHANGED <<created, charged>>
      /\ refunded' = [refunded EXCEPT ![i] = Accounts!Sum(refunded[i], charged[i])]
  BY DEF Accounts!Refund
<1>2. charged[i] \in [Accounts!Kinds -> Nat] /\ refunded[i] \in [Accounts!Kinds -> Nat]
  BY DEF AccountsOK
<1>3. Accounts!Sum(refunded[i], charged[i]) \in [Accounts!Kinds -> Nat]
  BY <1>2 DEF Accounts!Sum
<1>4. refunded[i] = Accounts!Zero => Accounts!Sum(refunded[i], charged[i]) = charged[i]
  BY <1>2 DEF Accounts!Sum, Accounts!Zero
<1> QED
  BY <1>1, <1>3, <1>4 DEF AccountsOK

\* A step of requests, queue and workers keeps row and credits in agreement.
LEMMA SettleKeeps ==
    ASSUME TypeOK, AllSound, AllPaid, Next, Settle
    PROVE  AllPaid'
<1> USE DEF TypeOK
<1>1. requeued \subseteq requeued'
  BY RequeuedGrows
<1>2. /\ AccountsOK
      /\ \A j \in Jobs : j \notin requeued => PriceFits(j)
      /\ \A j \in Jobs : j \notin requeued /\ status[j] = "none" => refunds[j] = 0
  BY DEF AllPaid, AllSound, Sound, JudgedLate, RefundFits, Undisputed
<1>3. CASE UNCHANGED <<status, refunds>>
  <2>1. UNCHANGED credits
    BY <1>3 DEF Settle, Submitted, GivenBack
  <2> QED
    BY <1>1, <1>2, <1>3, <2>1 DEF AllPaid, AccountsOK, PriceFits, credits
<1>4. ASSUME NEW i \in Jobs, NEW x \in Statuses \ {"none"},
             status' = [status EXCEPT ![i] = x],
             \/ refunds' = refunds
             \/ /\ refunds' = [refunds EXCEPT ![i] = @ + 1]
                /\ i \notin requeued => status[i] # "none"
      PROVE  AllPaid'
  <2>1. /\ \A j \in Jobs \ {i} : status'[j] = status[j] /\ refunds'[j] = refunds[j]
        /\ status'[i] # "none"
        /\ refunds'[i] \in {refunds[i], refunds[i] + 1}
        /\ i \notin requeued /\ Submitted(i) => ~ GivenBack(i)
    BY <1>4 DEF Submitted, GivenBack
  <2>2. CASE Submitted(i) /\ Accounts!Charge(i)
    <3> SUFFICES ASSUME NEW j \in Jobs, j \notin requeued PROVE PriceFits(j)'
      BY <1>1, <1>2, <2>2, ChargeFacts DEF AllPaid
    <3>1. CASE j = i
      <4>1. refunds[i] = 0 /\ refunds'[i] = 0 /\ PriceFits(i)
        BY <1>2, <2>1, <2>2, <3>1 DEF Submitted, GivenBack
      <4> QED
        BY <1>2, <2>1, <2>2, <3>1, <4>1, ChargeFacts DEF PriceFits
    <3>2. CASE j # i
      BY <1>2, <2>1, <2>2, <3>2, ChargeFacts DEF PriceFits
    <3> QED
      BY <3>1, <3>2
  <2>3. CASE GivenBack(i) /\ Accounts!Refund(i)
    <3> SUFFICES ASSUME NEW j \in Jobs, j \notin requeued PROVE PriceFits(j)'
      BY <1>1, <1>2, <2>3, RefundFacts DEF AllPaid
    <3>1. CASE j = i
      <4>1. /\ refunds'[i] = refunds[i] + 1 /\ refunds[i] \in Nat
            /\ PriceFits(i)
        BY <1>2, <2>1, <2>3, <3>1 DEF GivenBack
      <4>2. refunds'[i] # 0 /\ (refunds'[i] = 1 => refunded'[i] = charged'[i])
        BY <1>2, <2>3, <4>1, RefundFacts DEF PriceFits
      <4> QED
        BY <1>2, <2>1, <2>3, <3>1, <4>1, <4>2, RefundFacts DEF PriceFits
    <3>2. CASE j # i
      BY <1>2, <2>1, <2>3, <3>2, RefundFacts DEF PriceFits
    <3> QED
      BY <3>1, <3>2
  <2>4. CASE ~ Submitted(i) /\ ~ GivenBack(i) /\ UNCHANGED credits
    <3>1. status[i] # "none" /\ refunds' = refunds
      BY <1>4, <2>1, <2>4 DEF Submitted, GivenBack
    <3> QED
      BY <1>1, <1>2, <2>1, <2>4, <3>1 DEF AllPaid, AccountsOK, PriceFits, credits
  <2> QED
    BY <2>1, <2>2, <2>3, <2>4 DEF Settle, Submitted, GivenBack
<1> QED
  BY <1>3, <1>4, OneJobMoves

\* Top-ups and adjustments touch neither jobs nor what they were charged.
LEMMA ElsewhereKeeps ==
    ASSUME AllPaid, Elsewhere \/ UNCHANGED paidVars
    PROVE  AllPaid'
<1>1. UNCHANGED <<requeued, status, refunds, created, charged, refunded>>
  BY DEF Elsewhere, Accounts!Open, Accounts!Adjust, Accounts!TopUp, paidVars, credits,
         vars, jobVars
<1> QED
  BY <1>1 DEF AllPaid, AccountsOK, PriceFits

\* An undisputed job costs its price from its creation on, and nothing in
\* either kind of credits once it has failed, for any number of jobs, users,
\* workers, starts and faults and whatever tops up or adjusts the balances.
THEOREM JobsArePaidOnce == PaidSpec => []PriceIsKept
<1>1. PaidInit => Init /\ AllPaid
  BY DEF PaidInit, Init, Accounts!Init, Accounts!Zero, AllPaid, AccountsOK, PriceFits,
         Accounts!Kinds
<1>2. [PaidNext]_paidVars => [Next]_vars
  BY DEF PaidNext, Elsewhere, paidVars
<1>3. PaidSpec => Spec
  BY <1>1, <1>2, PTL DEF PaidSpec, Spec
<1>4. TypeOK /\ AllSound /\ AllPaid /\ [PaidNext]_paidVars => AllPaid'
  BY SettleKeeps, ElsewhereKeeps DEF PaidNext
<1>5. TypeOK /\ AllSound /\ AllPaid => PriceIsKept
  <2> SUFFICES ASSUME TypeOK, AllSound, AllPaid, NEW j \in Jobs, Undisputed(j)
               PROVE  /\ status[j] = "failed" => \A k \in Accounts!Kinds : Net(j, k) = 0
                      /\ Net(j, "free") + Net(j, "paid") =
                            IF status[j] \in {"none", "failed"} THEN 0 ELSE Cost[j]
    BY DEF PriceIsKept
  <2>1. /\ PriceFits(j)
        /\ refunds[j] = IF status[j] = "failed" THEN 1 ELSE 0
        /\ charged[j] \in [Accounts!Kinds -> Nat]
    BY DEF AllPaid, AccountsOK, AllSound, Sound, RefundFits, Undisputed
  <2>2. CASE status[j] = "failed"
    <3>1. \A k \in Accounts!Kinds : Net(j, k) = 0
      BY <2>1, <2>2 DEF PriceFits, Net
    <3> QED
      BY <2>2, <3>1 DEF Accounts!Kinds
  <2>3. CASE status[j] # "failed"
    BY <2>1, <2>3, CostAssumption DEF PriceFits, Net, Accounts!Zero, Accounts!Kinds
  <2> QED
    BY <2>2, <2>3
<1> QED
  BY <1>1, <1>3, <1>4, <1>5, SoundAlways, PTL DEF PaidSpec
=============================================================================
